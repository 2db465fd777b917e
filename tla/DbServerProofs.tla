--------------------------- MODULE DbServerProofs ---------------------------
(***************************************************************************)
(* Proofs about the whole server, for any number of clients, workers, keys *)
(* and buckets, any requests and any hash function.                        *)
(*                                                                         *)
(* The inductive invariant has one part per concern: where a connection is *)
(* (PlaceInv), what a worker holds at each line (FdInv), how far its       *)
(* client is (ClientInv), who has been answered (ReplyInv), the bytes on   *)
(* their way up (PayloadInv) and down (BodyInv), the table (StoreInv), the *)
(* failure counter (FailuresMatchReplies) and the shutdown (ExitInv).      *)
(***************************************************************************)
EXTENDS DbServer, KVTableProofs, SequenceTheorems

\* A connection waits in the backlog, in the listener's hands or in the queue,
\* or is served by one worker, never two of these.
PlaceInv ==
    /\ \A i, j \in 1 .. Len(backlog) : backlog[i] = backlog[j] => i = j
    /\ \A i \in 1 .. Len(backlog) : conn[backlog[i]] = "backlog"
    /\ \A i, j \in 1 .. Len(wq) : wq[i] = wq[j] /\ wq[i] \in Clients => i = j
    /\ \A i \in 1 .. Len(wq) : wq[i] \in Clients => conn[wq[i]] = "open" /\ newfd # wq[i]
    /\ newfd \in Clients => conn[newfd] = "open"
    /\ \A w \in Workers : fd[w] \in Clients =>
          /\ conn[fd[w]] = "open" /\ newfd # fd[w]
          /\ \A i \in 1 .. Len(wq) : wq[i] # fd[w]
          /\ \A v \in Workers : fd[v] = fd[w] => v = w
    /\ \A c \in Clients : conn[c] = "backlog" => \E i \in 1 .. Len(backlog) : backlog[i] = c
    /\ \A c \in Clients : conn[c] = "open" =>
          \/ newfd = c
          \/ \E i \in 1 .. Len(wq) : wq[i] = c
          \/ \E w \in Workers : fd[w] = c

\* A worker has a descriptor from dequeue to close.  Only once accept fails is
\* it a bad one, and then dispatch gets no header from it.
FdInv ==
    /\ \A w \in Workers :
          /\ fd[w] = NULL <=> wpc[w] = "dequeue"
          /\ fd[w] = BADFD => wpc[w] \in {"recv", "fail", "close"}
    /\ ~ AcceptFails =>
          /\ newfd # BADFD
          /\ \A i \in 1 .. Len(wq) : wq[i] # BADFD
          /\ \A w \in Workers : fd[w] # BADFD

\* What a client has sent by the time it is somewhere in do_set, do_get, ...
ClientInv ==
    /\ \A c \in Clients :
          /\ cpc[c] = "start" => conn[c] = "none"
          /\ cpc[c] # "start" => req[c] \in Requests
          /\ hdr[c] => cpc[c] \notin {"start", "header"}
          /\ cpc[c] = "data" => req[c].op = "W"
          /\ cpc[c] \in {"start", "header", "data"} => up[c] = << >>
          /\ cpc[c] \in {"start", "header", "data", "reply"} => answer[c] = NULL
    /\ \A w \in Workers :
          fd[w] \in Clients /\ wpc[w] # "recv" => cpc[fd[w]] \notin {"start", "header"}

\* The client has a reply, or one is on its way.
Answered(c) == rhdr[c] # NULL \/ answer[c] # NULL

\* A connection nobody serves yet, and one whose handler has not replied, has
\* no reply; a closed one has one, and never a second.
ReplyInv ==
    /\ \A c \in Clients :
          /\ rhdr[c] = NULL \/ answer[c] = NULL
          /\ conn[c] \in {"none", "backlog"} => ~ Answered(c)
          /\ conn[c] = "closed" => Answered(c)
          /\ Running /\ cpc[c] \in {"body", "done"} /\ ~ Answered(c) => req[c].op = "Q"
    /\ newfd \in Clients => ~ Answered(newfd)
    /\ \A i \in 1 .. Len(wq) : wq[i] \in Clients => ~ Answered(wq[i])
    /\ \A w \in Workers : fd[w] \in Clients =>
          (Answered(fd[w]) <=> wpc[w] \in {"okaydata", "close"})

\* handle_write's buffer is as long as the header announced, and what is still
\* to come fits in it.
PayloadInv ==
    /\ \A c \in Clients : cpc[c] # "start" => Len(up[c]) <= Len(req[c].data)
    /\ \A w \in Workers : wpc[w] = "payload" =>
          /\ Len(buf[w]) = Len(req[fd[w]].data)
          /\ got[w] + Len(up[fd[w]]) <= Len(buf[w])
          /\ cpc[fd[w]] = "data" => got[w] = 0

\* Where a client may be with the header of its reply unread: it waits for it,
\* or it gave up on the first bytes of it.
Waiting == IF Fragmented THEN {"reply", "done"} ELSE {"reply"}

\* The reply's data goes out in one write after its header, as long as the
\* header announced; until then a do_get waits.
BodyInv ==
    /\ \A c \in Clients :
          /\ Len(body[c]) + Len(down[c]) <= rlen[c]
          /\ conn[c] \in {"none", "backlog"} => body[c] = << >> /\ down[c] = << >>
    /\ newfd \in Clients => body[newfd] = << >> /\ down[newfd] = << >>
    /\ \A i \in 1 .. Len(wq) :
          wq[i] \in Clients => body[wq[i]] = << >> /\ down[wq[i]] = << >>
    /\ \A w \in Workers : fd[w] \in Clients /\ wpc[w] # "close" =>
          body[fd[w]] = << >> /\ down[fd[w]] = << >>
    /\ \A w \in Workers : wpc[w] = "okaydata" =>
          /\ rlen[fd[w]] > 0 /\ req[fd[w]].op = "R"
          /\ ~ ptr[w].freed => rlen[fd[w]] = Len(ptr[w].val)
          /\ Running => \/ cpc[fd[w]] \in {"body", "dead"}
                        \/ cpc[fd[w]] \in Waiting /\ rhdr[fd[w]] = "K"

\* The table's chains are in order, and no more keys are in it than counted.
StoreInv ==
    /\ WellFormed(table)
    /\ \A k \in Keys : ValueOf(table, k) \in Strings \cup {NULL}
    /\ Cardinality(Stored(table)) <= size

\* listen_sock is closed by a call of cleanup that is about to exit, and the
\* close that fails is that of another call.
ExitInv ==
    /\ ~ listening =>
          \/ console \in {"exit", "handler", "handled"}
          \/ \E w \in Workers : wpc[w] = "exit"
    /\ process = "exit1" =>
          \/ lpc = "failed"
          \/ console = "handled"
          \/ \E v, w \in Workers : v # w /\ wpc[v] = "exit" /\ wpc[w] = "exit"
          \/ console \in {"exit", "handler"} /\ \E w \in Workers : wpc[w] = "exit"
    /\ process = "sigpipe" =>
          \E c \in Clients :
              /\ req[c].op = "R"
              /\ cpc[c] = "dead" \/ (Fragmented /\ cpc[c] = "done" /\ rhdr[c] = "K")

Inv ==
    /\ TypeOK /\ PlaceInv /\ FdInv /\ ClientInv /\ ReplyInv /\ PayloadInv
    /\ BodyInv /\ StoreInv /\ FailuresMatchReplies /\ ExitInv

\* With reads that return all that was sent, handle_write has the client's data.
DataInv ==
    /\ \A c \in Clients : up[c] = << >> \/ up[c] = req[c].data
    /\ \A w \in Workers :
          /\ wpc[w] = "payload" => got[w] = 0
          /\ wpc[w] = "kv_write" => buf[w] = req[fd[w]].data

-----------------------------------------------------------------------------
(***************************************************************************)
(* What the steps leave alone.                                             *)
(***************************************************************************)
\* A worker's steps that leave the sockets alone ...
Serve(w) ==
    \/ ShortRead(w) \/ ReceiveNothing(w) \/ ReceiveEmpty(w)
    \/ KvWrite(w) \/ KvFull(w) \/ KvRead(w) \/ KvDelete(w)
    \/ WorkerCleanup(w)

\* ... and all of them from the header it reads to the reply it sends.
Handler(w) ==
    \/ Dispatch(w) \/ Receive(w) \/ Serve(w)
    \/ Okay(w) \/ OkayData(w) \/ Fail(w)

LEMMA ClientFrame ==
    ASSUME NEW c \in Clients, ClientStep(c) \/ Die(c)
    PROVE  UNCHANGED << req, conn, rlen, queueVars, workerVars, storeVars, adminVars >>
<1>1. CASE SendHeader(c)
  BY <1>1 DEF SendHeader
<1>2. CASE SendData(c)
  BY <1>2 DEF SendData
<1>3. CASE ReadReply(c)
  BY <1>3 DEF ReadReply
<1>4. CASE ReadBody(c)
  BY <1>4 DEF ReadBody
<1>5. CASE Die(c) \/ ShortReply(c)
  BY <1>5 DEF Die, ShortReply, socketVars
<1> QED
  BY <1>1, <1>2, <1>3, <1>4, <1>5 DEF ClientStep

LEMMA ServeFrame ==
    ASSUME TypeOK, NEW w \in Workers, Serve(w)
    PROVE  /\ Running
           /\ UNCHANGED << clientVars, socketVars, queueVars, fd, buf, got, console, lpc >>
           /\ wpc' = [wpc EXCEPT ![w] = wpc'[w]]
           /\ wpc[w] \in {"recv", "payload", "kv_write", "kv_read", "kv_delete", "cleanup", "exit"}
           /\ wpc'[w] \in {"fail", "kv_write", "okay", "exit"}
           /\ wpc[w] = "recv" => wpc'[w] = "fail" /\ (fd[w] \in Clients => Hangup(fd[w]) \/ hdr[fd[w]])
           /\ wpc[w] = "payload" => wpc'[w] = "fail" \/ (wpc'[w] = "kv_write" /\ buf[w] = << >>)
           /\ wpc'[w] = "kv_write" => wpc[w] = "payload"
           /\ listening' => listening
           /\ process' \in {process, "exit0", "exit1"}
<1> USE DEF At, GoTo, adminVars, storeVars
<1>t. wpc = [v \in Workers |-> wpc[v]] /\ listening \in BOOLEAN
  BY DEF TypeOK
<1>1. CASE ShortRead(w)
  <2>1. fd[w] \in Clients => Hangup(fd[w]) \/ hdr[fd[w]]
    BY <1>1, ThreadsAssumption DEF ShortRead
  <2> QED
    BY <1>1, <1>t, <2>1 DEF ShortRead
<1>2. CASE ReceiveNothing(w) \/ ReceiveEmpty(w)
  BY <1>2, <1>t DEF ReceiveNothing, ReceiveEmpty
<1>3. CASE KvWrite(w) \/ KvDelete(w)
  BY <1>3, <1>t DEF KvWrite, KvDelete
<1>4. CASE KvRead(w) \/ KvFull(w)
  BY <1>4, <1>t DEF KvRead, KvFull
<1>5. CASE WorkerCleanup(w)
  BY <1>5, <1>t DEF WorkerCleanup, CleanupClose
<1> QED
  BY <1>1, <1>2, <1>3, <1>4, <1>5 DEF Serve

\* How the steps that use the socket move the worker on.
LEMMA SocketFrame ==
    ASSUME TypeOK, NEW w \in Workers,
           Dispatch(w) \/ Receive(w) \/ Okay(w) \/ OkayData(w) \/ Fail(w)
    PROVE  /\ Running
           /\ UNCHANGED << clientVars, conn, queueVars, fd, ptr, console, lpc, listening >>
           /\ wpc' = [wpc EXCEPT ![w] = wpc'[w]]
           /\ Dispatch(w) => wpc[w] = "recv" /\ wpc'[w] \in {"payload", "kv_read", "kv_delete", "cleanup", "fail"}
           /\ Receive(w) => wpc[w] = "payload" /\ wpc'[w] \in {"payload", "kv_write"}
           /\ Okay(w) => wpc[w] = "okay" /\ wpc'[w] \in {"okaydata", "close"}
           /\ OkayData(w) => wpc[w] = "okaydata" /\ wpc'[w] = "close"
           /\ Fail(w) => wpc[w] = "fail" /\ wpc'[w] = "close"
           /\ process' \in {process, "sigpipe"}
           /\ ~ OkayData(w) => process' = process
<1> USE DEF At, GoTo, adminVars
<1>t. wpc = [v \in Workers |-> wpc[v]]
  BY DEF TypeOK
<1>1. CASE wpc[w] = "recv"
  <2>1. Dispatch(w) /\ ~ Receive(w) /\ ~ Okay(w) /\ ~ OkayData(w) /\ ~ Fail(w)
    BY <1>1 DEF Receive, Okay, OkayData, Fail
  <2> QED
    BY <1>1, <1>t, <2>1 DEF Dispatch
<1>2. CASE wpc[w] = "payload"
  <2>1. Receive(w) /\ ~ Dispatch(w) /\ ~ Okay(w) /\ ~ OkayData(w) /\ ~ Fail(w)
    BY <1>2 DEF Dispatch, Okay, OkayData, Fail
  <2> QED
    BY <1>2, <1>t, <2>1 DEF Receive
<1>3. CASE wpc[w] = "okay"
  <2>1. Okay(w) /\ ~ Dispatch(w) /\ ~ Receive(w) /\ ~ OkayData(w) /\ ~ Fail(w)
    BY <1>3 DEF Dispatch, Receive, OkayData, Fail
  <2>2. wpc' = [wpc EXCEPT ![w] = "okaydata"] \/ wpc' = [wpc EXCEPT ![w] = "close"]
    BY <2>1 DEF Okay
  <2> QED
    BY <1>3, <1>t, <2>1, <2>2 DEF Okay
<1>4. CASE wpc[w] = "okaydata"
  <2>1. OkayData(w) /\ ~ Dispatch(w) /\ ~ Receive(w) /\ ~ Okay(w) /\ ~ Fail(w)
    BY <1>4 DEF Dispatch, Receive, Okay, Fail
  <2> QED
    BY <1>4, <1>t, <2>1 DEF OkayData
<1>5. CASE wpc[w] = "fail"
  <2>1. Fail(w) /\ ~ Dispatch(w) /\ ~ Receive(w) /\ ~ Okay(w) /\ ~ OkayData(w)
    BY <1>5 DEF Dispatch, Receive, Okay, OkayData
  <2> QED
    BY <1>5, <1>t, <2>1 DEF Fail
<1>6. wpc[w] \in {"recv", "payload", "okay", "okaydata", "fail"}
  BY DEF Dispatch, Receive, Okay, OkayData, Fail
<1> QED
  BY <1>1, <1>2, <1>3, <1>4, <1>5, <1>6

LEMMA HandlerFrame ==
    ASSUME TypeOK, NEW w \in Workers, Handler(w)
    PROVE  UNCHANGED << clientVars, conn, queueVars, fd, console >> /\ Running
BY ServeFrame, SocketFrame DEF Handler, socketVars

\* The control thread, and the listener before its first accept.
Admin == ConsoleCommand \/ ConsoleCleanup \/ Sigint \/ Socket \/ Bind

LEMMA ConsoleFrame ==
    ASSUME Admin
    PROVE  UNCHANGED << clientVars, socketVars, queueVars, workerVars, storeVars >> /\ Running
BY DEF Admin, ConsoleCommand, ConsoleCleanup, Sigint, Socket, Bind

-----------------------------------------------------------------------------
(***************************************************************************)
(* Where a connection is.                                                  *)
(***************************************************************************)
PlaceVars == << conn, backlog, newfd, wq, fd >>

LEMMA PlaceFrame ==
    ASSUME PlaceInv, UNCHANGED PlaceVars
    PROVE  PlaceInv'
BY DEF PlaceInv, PlaceVars

LEMMA PlaceConnect ==
    ASSUME TypeOK, PlaceInv, ClientInv, NEW c \in Clients, NEW r \in Requests, Connect(c, r)
    PROVE  PlaceInv'
<1>1. conn[c] = "none"
  BY DEF Connect, ClientInv
<1>2. /\ conn' = [conn EXCEPT ![c] = "backlog"]
      /\ backlog' = Append(backlog, c)
      /\ UNCHANGED << newfd, wq, fd >>
  BY DEF Connect, workerVars
<1>3. /\ conn \in [Clients -> {"none", "backlog", "open", "closed"}]
      /\ backlog \in Seq(Clients) /\ Len(backlog) \in Nat
  BY DEF TypeOK
<1>4. /\ Len(backlog') = Len(backlog) + 1
      /\ backlog'[Len(backlog) + 1] = c
      /\ \A i \in 1 .. Len(backlog) : backlog'[i] = backlog[i] /\ backlog[i] # c
  BY <1>1, <1>2, <1>3 DEF PlaceInv
<1>5. \A i \in 1 .. Len(backlog') : i \in 1 .. Len(backlog) \/ i = Len(backlog) + 1
  BY <1>3, <1>4
<1>6. \A i, j \in 1 .. Len(backlog') : backlog'[i] = backlog'[j] => i = j
  BY <1>4, <1>5 DEF PlaceInv
<1>7. \A i \in 1 .. Len(backlog') : conn'[backlog'[i]] = "backlog"
  BY <1>2, <1>3, <1>4, <1>5 DEF PlaceInv
<1>8. ASSUME NEW d \in Clients, conn'[d] = "backlog"
      PROVE  \E i \in 1 .. Len(backlog') : backlog'[i] = d
  <2>1. CASE d = c
    <3>1. Len(backlog) + 1 \in 1 .. Len(backlog')
      BY <1>3, <1>4
    <3> QED
      BY <1>4, <2>1, <3>1
  <2>2. CASE d # c
    <3>1. PICK i \in 1 .. Len(backlog) : backlog[i] = d
      BY <1>2, <1>3, <1>8, <2>2 DEF PlaceInv
    <3>2. i \in 1 .. Len(backlog')
      BY <1>3, <1>4
    <3> QED
      BY <1>4, <3>1, <3>2
  <2> QED
    BY <2>1, <2>2
<1>9. \A d \in Clients : conn[d] = "open" => conn'[d] = "open"
  BY <1>1, <1>2, <1>3
<1>10. \A d \in Clients : conn'[d] = "open" => conn[d] = "open"
  BY <1>2, <1>3
<1> QED
  BY <1>2, <1>6, <1>7, <1>8, <1>9, <1>10 DEF PlaceInv

LEMMA PlaceAccept ==
    ASSUME TypeOK, PlaceInv, Accept
    PROVE  PlaceInv'
<1>1. UNCHANGED << wq, fd >> /\ newfd = NULL
  BY DEF Accept, workerVars
<1>2. /\ conn \in [Clients -> {"none", "backlog", "open", "closed"}]
      /\ backlog \in Seq(Clients) /\ Len(backlog) \in Nat
  BY DEF TypeOK
<1>3. CASE ~ listening
  BY <1>1, <1>3, ThreadsAssumption DEF Accept, PlaceInv
<1>4. CASE listening
  <2> DEFINE h == Head(backlog)
  <2>1. /\ backlog # << >>
        /\ newfd' = h
        /\ backlog' = Tail(backlog)
        /\ conn' = [conn EXCEPT ![h] = "open"]
    BY <1>4 DEF Accept
  <2>2. /\ h \in Clients /\ h = backlog[1] /\ 1 \in 1 .. Len(backlog)
        /\ Len(backlog') = Len(backlog) - 1
        /\ \A i \in 1 .. Len(backlog) - 1 : backlog'[i] = backlog[i + 1] /\ i + 1 \in 1 .. Len(backlog)
    BY <1>2, <2>1
  <2> HIDE DEF h
  <2>3. conn[h] = "backlog"
    BY <2>2 DEF PlaceInv
  <2>4. \A i, j \in 1 .. Len(backlog') : backlog'[i] = backlog'[j] => i = j
    <3> SUFFICES ASSUME NEW i \in 1 .. Len(backlog'), NEW j \in 1 .. Len(backlog'),
                        backlog'[i] = backlog'[j]
                 PROVE  i = j
      OBVIOUS
    <3>1. i + 1 = j + 1
      BY <2>2 DEF PlaceInv
    <3> QED
      BY <3>1
  <2>5. \A i \in 1 .. Len(backlog') : backlog'[i] # h /\ backlog'[i] \in Clients
    <3> SUFFICES ASSUME NEW i \in 1 .. Len(backlog') PROVE backlog'[i] # h /\ backlog'[i] \in Clients
      OBVIOUS
    <3>1. backlog'[i] = backlog[i + 1] /\ i + 1 \in 1 .. Len(backlog) /\ i + 1 # 1
      BY <2>2
    <3> QED
      BY <1>2, <2>2, <3>1 DEF PlaceInv
  <2>6. \A i \in 1 .. Len(backlog') : conn'[backlog'[i]] = "backlog"
    BY <1>2, <2>1, <2>2, <2>5 DEF PlaceInv
  <2>7. ASSUME NEW d \in Clients, conn'[d] = "backlog"
        PROVE  \E i \in 1 .. Len(backlog') : backlog'[i] = d
    <3>1. d # h /\ conn[d] = "backlog"
      BY <1>2, <2>1, <2>7
    <3>2. PICK i \in 1 .. Len(backlog) : backlog[i] = d
      BY <3>1 DEF PlaceInv
    <3>3. i - 1 \in 1 .. Len(backlog') /\ (i - 1) + 1 = i
      BY <1>2, <2>2, <3>1, <3>2
    <3>4. backlog'[i - 1] = d
      BY <2>2, <3>2, <3>3
    <3> QED
      BY <3>3, <3>4
  <2>8. \A d \in Clients : conn'[d] = IF d = h THEN "open" ELSE conn[d]
    BY <1>2, <2>1
  <2>9. /\ \A i \in 1 .. Len(wq) : wq[i] \in Clients => conn'[wq[i]] = "open" /\ newfd' # wq[i]
        /\ \A w \in Workers : fd[w] \in Clients => conn'[fd[w]] = "open" /\ newfd' # fd[w]
    BY <2>1, <2>3, <2>8 DEF PlaceInv
  <2>10. newfd' \in Clients => conn'[newfd'] = "open"
    BY <2>1, <2>2, <2>8
  <2>11. ASSUME NEW d \in Clients, conn'[d] = "open"
         PROVE  \/ newfd' = d
                \/ \E i \in 1 .. Len(wq) : wq[i] = d
                \/ \E w \in Workers : fd[w] = d
    BY <1>1, <2>1, <2>8, <2>11, ThreadsAssumption DEF PlaceInv
  <2> QED
    BY <1>1, <2>4, <2>6, <2>7, <2>9, <2>10, <2>11 DEF PlaceInv
<1> QED
  BY <1>3, <1>4

LEMMA PlaceEnqueue ==
    ASSUME TypeOK, PlaceInv, Enqueue
    PROVE  PlaceInv'
<1>1. /\ newfd # NULL /\ newfd' = NULL
      /\ wq' = Append(wq, newfd)
      /\ UNCHANGED << conn, backlog, fd >>
  BY DEF Enqueue, workerVars, socketVars
<1>2. /\ wq \in Seq(Clients \cup {BADFD}) /\ Len(wq) \in Nat
      /\ newfd \in Clients \cup {BADFD}
  BY <1>1 DEF TypeOK
<1>3. /\ Len(wq') = Len(wq) + 1
      /\ wq'[Len(wq) + 1] = newfd
      /\ \A i \in 1 .. Len(wq) : wq'[i] = wq[i] /\ i \in 1 .. Len(wq')
      /\ Len(wq) + 1 \in 1 .. Len(wq')
      /\ \A i \in 1 .. Len(wq') : i \in 1 .. Len(wq) \/ i = Len(wq) + 1
  BY <1>1, <1>2
<1>4. NULL \notin Clients
  BY ThreadsAssumption
<1>5. \A i, j \in 1 .. Len(wq') : wq'[i] = wq'[j] /\ wq'[i] \in Clients => i = j
  BY <1>3 DEF PlaceInv
<1>6. \A i \in 1 .. Len(wq') : wq'[i] \in Clients => conn[wq'[i]] = "open" /\ newfd' # wq'[i]
  BY <1>1, <1>3, <1>4 DEF PlaceInv
<1>7. ASSUME NEW w \in Workers, fd[w] \in Clients
      PROVE  newfd' # fd[w] /\ \A i \in 1 .. Len(wq') : wq'[i] # fd[w]
  BY <1>1, <1>3, <1>4, <1>7 DEF PlaceInv
<1>8. ASSUME NEW c \in Clients, conn[c] = "open"
      PROVE  \/ \E i \in 1 .. Len(wq') : wq'[i] = c
             \/ \E w \in Workers : fd[w] = c
  BY <1>3, <1>8 DEF PlaceInv
<1> QED
  BY <1>1, <1>4, <1>5, <1>6, <1>7, <1>8 DEF PlaceInv

LEMMA PlaceDequeue ==
    ASSUME TypeOK, PlaceInv, FdInv, NEW w \in Workers, Dequeue(w)
    PROVE  PlaceInv'
<1> DEFINE h == Head(wq)
<1>1. /\ wq # << >> /\ wq' = Tail(wq)
      /\ fd' = [fd EXCEPT ![w] = h]
      /\ UNCHANGED << conn, backlog, newfd >>
  BY DEF Dequeue, socketVars
<1>2. fd[w] = NULL
  BY DEF Dequeue, At, FdInv
<1>3. wq \in Seq(Clients \cup {BADFD}) /\ Len(wq) \in Nat
  BY DEF TypeOK
<1>4. /\ h = wq[1] /\ 1 \in 1 .. Len(wq) /\ Len(wq') = Len(wq) - 1
      /\ \A i \in 1 .. Len(wq') : wq'[i] = wq[i + 1] /\ i + 1 \in 1 .. Len(wq) /\ i + 1 # 1
      /\ \A i \in 1 .. Len(wq) : i = 1 \/ (i - 1 \in 1 .. Len(wq') /\ wq'[i - 1] = wq[i])
  BY <1>1, <1>3
<1>5. \A v \in Workers : fd'[v] = IF v = w THEN h ELSE fd[v]
  BY <1>1 DEF TypeOK
<1> HIDE DEF h
<1>6. NULL \notin Clients
  BY ThreadsAssumption
<1>7. \A i \in 1 .. Len(wq') : wq'[i] \in Clients => wq'[i] # h
  BY <1>4 DEF PlaceInv
<1>8. \A i, j \in 1 .. Len(wq') : wq'[i] = wq'[j] /\ wq'[i] \in Clients => i = j
  <2> SUFFICES ASSUME NEW i \in 1 .. Len(wq'), NEW j \in 1 .. Len(wq'),
                      wq'[i] = wq'[j], wq'[i] \in Clients
               PROVE  i = j
    OBVIOUS
  <2>1. i + 1 = j + 1
    BY <1>4 DEF PlaceInv
  <2> QED
    BY <2>1
<1>9. \A i \in 1 .. Len(wq') : wq'[i] \in Clients => conn[wq'[i]] = "open" /\ newfd # wq'[i]
  BY <1>4 DEF PlaceInv
<1>10. h \in Clients => /\ conn[h] = "open" /\ newfd # h
                        /\ \A v \in Workers : fd[v] # h
  BY <1>4 DEF PlaceInv
<1>11. ASSUME NEW v \in Workers, fd'[v] \in Clients
       PROVE  /\ conn[fd'[v]] = "open" /\ newfd # fd'[v]
              /\ \A i \in 1 .. Len(wq') : wq'[i] # fd'[v]
              /\ \A u \in Workers : fd'[u] = fd'[v] => u = v
  <2>1. CASE v = w
    BY <1>5, <1>7, <1>10, <1>11, <2>1
  <2>2. CASE v # w
    BY <1>4, <1>5, <1>10, <1>11, <2>2 DEF PlaceInv
  <2> QED
    BY <2>1, <2>2
<1>12. ASSUME NEW c \in Clients, conn[c] = "open"
       PROVE  \/ newfd = c
              \/ \E i \in 1 .. Len(wq') : wq'[i] = c
              \/ \E v \in Workers : fd'[v] = c
  <2>1. CASE \E i \in 1 .. Len(wq) : wq[i] = c
    BY <1>4, <1>5, <2>1
  <2>2. CASE \E v \in Workers : fd[v] = c
    BY <1>2, <1>5, <1>6, <2>2
  <2> QED
    BY <1>12, <2>1, <2>2 DEF PlaceInv
<1> QED
  BY <1>1, <1>8, <1>9, <1>11, <1>12 DEF PlaceInv

LEMMA PlaceClose ==
    ASSUME TypeOK, PlaceInv, FdInv, NEW w \in Workers, Close(w)
    PROVE  PlaceInv'
<1>1. /\ conn' = IF fd[w] = BADFD THEN conn ELSE [conn EXCEPT ![fd[w]] = "closed"]
      /\ fd' = [fd EXCEPT ![w] = NULL]
      /\ UNCHANGED << backlog, newfd, wq >>
  BY DEF Close, queueVars
<1>2. /\ conn \in [Clients -> {"none", "backlog", "open", "closed"}]
      /\ fd \in [Workers -> Clients \cup {NULL, BADFD}]
      /\ backlog \in Seq(Clients) /\ newfd \in Clients \cup {NULL, BADFD}
  BY DEF TypeOK
<1>3. fd[w] \in Clients \cup {BADFD}
  BY <1>2 DEF Close, At, FdInv
<1>4. NULL \notin Clients /\ BADFD \notin Clients /\ NULL # BADFD
  BY ThreadsAssumption
<1>5. \A v \in Workers : fd'[v] = IF v = w THEN NULL ELSE fd[v]
  BY <1>1, <1>2
<1>6. \A c \in Clients : conn'[c] = IF c = fd[w] THEN "closed" ELSE conn[c]
  BY <1>1, <1>2, <1>3, <1>4
<1>7. fd[w] \in Clients =>
        /\ conn[fd[w]] = "open" /\ newfd # fd[w]
        /\ \A i \in 1 .. Len(wq) : wq[i] # fd[w]
        /\ \A v \in Workers : fd[v] = fd[w] => v = w
  BY DEF PlaceInv
<1>8. \A i \in 1 .. Len(backlog) : backlog[i] \in Clients /\ conn'[backlog[i]] = "backlog"
  BY <1>2, <1>6, <1>7 DEF PlaceInv
<1>9. \A i \in 1 .. Len(wq) : wq[i] \in Clients => conn'[wq[i]] = "open" /\ newfd # wq[i]
  BY <1>6, <1>7 DEF PlaceInv
<1>10. newfd \in Clients => conn'[newfd] = "open"
  BY <1>6, <1>7 DEF PlaceInv
<1>11. ASSUME NEW v \in Workers, fd'[v] \in Clients
       PROVE  /\ conn'[fd'[v]] = "open" /\ newfd # fd'[v]
              /\ \A i \in 1 .. Len(wq) : wq[i] # fd'[v]
              /\ \A u \in Workers : fd'[u] = fd'[v] => u = v
  BY <1>4, <1>5, <1>6, <1>7, <1>11 DEF PlaceInv
<1>12. \A c \in Clients : conn'[c] = "backlog" => conn[c] = "backlog"
  BY <1>6
<1>13. ASSUME NEW c \in Clients, conn'[c] = "open"
       PROVE  \/ newfd = c
              \/ \E i \in 1 .. Len(wq) : wq[i] = c
              \/ \E v \in Workers : fd'[v] = c
  BY <1>5, <1>6, <1>13 DEF PlaceInv
<1> QED
  BY <1>1, <1>8, <1>9, <1>10, <1>11, <1>12, <1>13, SMTT(30) DEF PlaceInv

LEMMA PlaceNext ==
    ASSUME TypeOK, PlaceInv, FdInv, ClientInv, Next
    PROVE  PlaceInv'
<1> USE DEF PlaceVars, clientVars, socketVars, queueVars, workerVars
<1>1. ASSUME NEW c \in Clients, NEW r \in Requests, Connect(c, r) PROVE PlaceInv'
  BY <1>1, PlaceConnect
<1>2. ASSUME NEW c \in Clients, ClientStep(c) \/ Die(c) PROVE PlaceInv'
  BY <1>2, ClientFrame, PlaceFrame
<1>3. CASE Accept
  BY <1>3, PlaceAccept
<1>4. CASE Enqueue
  BY <1>4, PlaceEnqueue
<1>5. ASSUME NEW w \in Workers, Dequeue(w) PROVE PlaceInv'
  BY <1>5, PlaceDequeue
<1>6. ASSUME NEW w \in Workers, Handler(w) PROVE PlaceInv'
  BY <1>6, HandlerFrame, PlaceFrame
<1>7. ASSUME NEW w \in Workers, Close(w) PROVE PlaceInv'
  BY <1>7, PlaceClose
<1>8. CASE Admin
  BY <1>8, ConsoleFrame, PlaceFrame
<1> QED
  BY <1>1, <1>2, <1>3, <1>4, <1>5, <1>6, <1>7, <1>8 DEF Next, Listener, Admin, WorkerStep, Handler, Serve

-----------------------------------------------------------------------------
(***************************************************************************)
(* What a worker holds, and how far its client is.                         *)
(***************************************************************************)
LEMMA FdNext ==
    ASSUME TypeOK, FdInv, Next
    PROVE  FdInv'
<1> USE DEF clientVars, socketVars, queueVars, workerVars, adminVars
<1>a. NULL # BADFD /\ NULL \notin Clients /\ BADFD \notin Clients
  BY ThreadsAssumption
<1>b. wpc = [v \in Workers |-> wpc[v]] /\ fd = [v \in Workers |-> fd[v]]
  BY DEF TypeOK
<1>c. wq \in Seq(Clients \cup {BADFD}) /\ Len(wq) \in Nat /\ backlog \in Seq(Clients)
  BY DEF TypeOK
<1>1. ASSUME NEW c \in Clients, NEW r \in Requests, Connect(c, r) PROVE FdInv'
  BY <1>1 DEF Connect, FdInv, AcceptFails
<1>2. ASSUME NEW c \in Clients, ClientStep(c) \/ Die(c) PROVE FdInv'
  BY <1>2, ClientFrame DEF FdInv, AcceptFails
<1>3. CASE Accept
  <2>1. UNCHANGED << wq, wpc, fd, lpc, listening >> /\ lpc = "accept"
    BY <1>3 DEF Accept
  <2>2. ~ AcceptFails => newfd' \in Clients
    BY <1>3, <1>c DEF Accept, AcceptFails
  <2> QED
    BY <1>a, <2>1, <2>2 DEF FdInv, AcceptFails
<1>4. CASE Enqueue
  <2>1. UNCHANGED << wpc, fd, lpc, listening >> /\ newfd' = NULL /\ wq' = Append(wq, newfd)
    BY <1>4 DEF Enqueue
  <2>2. \A i \in 1 .. Len(wq') : wq'[i] = newfd \/ (i \in 1 .. Len(wq) /\ wq'[i] = wq[i])
    BY <1>c, <2>1 DEF TypeOK
  <2> QED
    BY <1>a, <2>1, <2>2 DEF FdInv, AcceptFails
<1>5. ASSUME NEW w \in Workers, Dequeue(w) PROVE FdInv'
  <2>1. /\ wq # << >> /\ wq' = Tail(wq) /\ UNCHANGED << newfd, lpc, listening >>
        /\ fd' = [fd EXCEPT ![w] = Head(wq)]
        /\ wpc' = [wpc EXCEPT ![w] = "recv"]
    BY <1>5 DEF Dequeue, GoTo
  <2>2. /\ Head(wq) = wq[1] /\ 1 \in 1 .. Len(wq) /\ Head(wq) # NULL
        /\ \A i \in 1 .. Len(wq') : \E j \in 1 .. Len(wq) : wq'[i] = wq[j]
    <3>1. /\ Head(wq) = wq[1] /\ 1 \in 1 .. Len(wq) /\ Head(wq) \in Clients \cup {BADFD}
          /\ \A i \in 1 .. Len(wq') : i + 1 \in 1 .. Len(wq) /\ wq'[i] = wq[i + 1]
      BY <1>c, <2>1
    <3> QED
      BY <1>a, <3>1
  <2>3. ~ AcceptFails' => \A i \in 1 .. Len(wq') : wq'[i] # BADFD
    BY <2>1, <2>2 DEF FdInv, AcceptFails
  <2>4. ~ AcceptFails' => newfd' # BADFD /\ Head(wq) # BADFD /\ \A v \in Workers : fd[v] # BADFD
    BY <2>1, <2>2 DEF FdInv, AcceptFails
  <2>5. \A v \in Workers : /\ fd'[v] = (IF v = w THEN Head(wq) ELSE fd[v])
                           /\ wpc'[v] = (IF v = w THEN "recv" ELSE wpc[v])
    BY <1>b, <2>1
  <2>6. \A v \in Workers : /\ fd'[v] = NULL <=> wpc'[v] = "dequeue"
                           /\ fd'[v] = BADFD => wpc'[v] \in {"recv", "fail", "close"}
    BY <2>2, <2>5 DEF FdInv, AcceptFails
  <2>7. ~ AcceptFails' => \A v \in Workers : fd'[v] # BADFD
    BY <2>4, <2>5
  <2> QED
    BY <2>3, <2>4, <2>6, <2>7 DEF FdInv, AcceptFails
<1>6. ASSUME NEW w \in Workers, Handler(w) PROVE FdInv'
  <2>1. /\ UNCHANGED << newfd, wq, fd >>
        /\ wpc' = [wpc EXCEPT ![w] = wpc'[w]]
        /\ wpc[w] # "dequeue" /\ wpc'[w] # "dequeue"
        /\ AcceptFails => AcceptFails'
    BY <1>6, ServeFrame, SocketFrame DEF Handler, AcceptFails
  <2>2. fd[w] = BADFD => wpc'[w] \in {"fail", "close"}
    <3>1. Dispatch(w) => fd[w] \in Clients
      BY DEF Dispatch
    <3> QED
      BY <1>6, <1>a, <3>1, ServeFrame, SocketFrame DEF Handler, FdInv
  <2>3. \A v \in Workers : v # w => wpc'[v] = wpc[v]
    BY <1>b, <2>1
  <2> QED
    BY <2>1, <2>2, <2>3 DEF FdInv, AcceptFails
<1>7. ASSUME NEW w \in Workers, Close(w) PROVE FdInv'
  <2>1. UNCHANGED << newfd, wq, lpc, listening >>
    BY <1>7 DEF Close
  <2>2. \A v \in Workers : /\ fd'[v] = (IF v = w THEN NULL ELSE fd[v])
                           /\ wpc'[v] = (IF v = w THEN "dequeue" ELSE wpc[v])
    BY <1>b, <1>7 DEF Close, GoTo
  <2> QED
    BY <1>a, <2>1, <2>2 DEF FdInv, AcceptFails
<1>8. CASE Admin
  <2>1. AcceptFails => AcceptFails'
    BY <1>8 DEF Admin, ConsoleCommand, ConsoleCleanup, Sigint, Socket, Bind, CleanupClose, AcceptFails, TypeOK
  <2> QED
    BY <1>8, <2>1, ConsoleFrame DEF FdInv
<1> QED
  BY <1>1, <1>2, <1>3, <1>4, <1>5, <1>6, <1>7, <1>8 DEF Next, Listener, Admin, WorkerStep, Handler, Serve

LEMMA ClientNext ==
    ASSUME TypeOK, PlaceInv, FdInv, ClientInv, Next
    PROVE  ClientInv'
<1> USE DEF clientVars, socketVars, queueVars, workerVars, adminVars
<1>a. NULL # BADFD /\ NULL \notin Clients /\ BADFD \notin Clients
  BY ThreadsAssumption
<1>b. /\ wpc = [v \in Workers |-> wpc[v]] /\ fd = [v \in Workers |-> fd[v]]
      /\ cpc = [c \in Clients |-> cpc[c]] /\ req = [c \in Clients |-> req[c]]
      /\ conn = [c \in Clients |-> conn[c]] /\ hdr = [c \in Clients |-> hdr[c]]
      /\ up = [c \in Clients |-> up[c]] /\ answer = [c \in Clients |-> answer[c]]
  BY DEF TypeOK
<1>1. ASSUME NEW c \in Clients, NEW r \in Requests, Connect(c, r) PROVE ClientInv'
  <2>1. conn[c] = "none" /\ \A w \in Workers : fd[w] # c
    BY <1>1 DEF Connect, ClientInv, PlaceInv
  <2>2. /\ UNCHANGED << hdr, up, answer, fd, wpc >> /\ cpc[c] = "start"
        /\ \A d \in Clients :
              /\ cpc'[d] = (IF d = c THEN "header" ELSE cpc[d])
              /\ req'[d] = (IF d = c THEN r ELSE req[d])
              /\ conn'[d] = (IF d = c THEN "backlog" ELSE conn[d])
    BY <1>1, <1>b DEF Connect
  <2> QED
    BY <2>1, <2>2 DEF ClientInv
<1>2. ASSUME NEW c \in Clients, SendHeader(c) PROVE ClientInv'
  <2>1. /\ UNCHANGED << req, conn, up, answer, fd, wpc >> /\ cpc[c] = "header"
        /\ cpc'[c] = (IF req[c].op = "W" THEN "data" ELSE IF req[c].op = "Q" THEN "done" ELSE "reply")
        /\ \A d \in Clients \ {c} : cpc'[d] = cpc[d] /\ hdr'[d] = hdr[d]
    BY <1>2, <1>b DEF SendHeader
  <2>2. cpc'[c] \in {"data", "done", "reply"} /\ (cpc'[c] = "data" => req[c].op = "W")
    BY <2>1
  <2> QED
    BY <2>1, <2>2 DEF ClientInv
<1>3. ASSUME NEW c \in Clients, SendData(c) PROVE ClientInv'
  <2>1. /\ UNCHANGED << req, conn, hdr, answer, fd, wpc >> /\ cpc[c] = "data" /\ cpc'[c] = "reply"
        /\ \A d \in Clients \ {c} : cpc'[d] = cpc[d] /\ up'[d] = up[d]
    BY <1>3, <1>b DEF SendData
  <2> QED
    BY <2>1 DEF ClientInv
<1>4. ASSUME NEW c \in Clients, ReadReply(c) \/ ShortReply(c) \/ ReadBody(c) \/ Die(c) PROVE ClientInv'
  <2>1. /\ UNCHANGED << req, conn, hdr, up, fd, wpc >>
        /\ cpc[c] # "start" /\ cpc'[c] \in {"body", "done", "dead"}
        /\ \A d \in Clients \ {c} : cpc'[d] = cpc[d] /\ answer'[d] = answer[d]
    <3>1. CASE ReadReply(c)
      BY <1>b, <3>1 DEF ReadReply
    <3>2. CASE ReadBody(c)
      BY <1>b, <3>2 DEF ReadBody
    <3>3. CASE Die(c) \/ ShortReply(c)
      BY <1>b, <3>3 DEF Die, ShortReply
    <3> QED
      BY <1>4, <3>1, <3>2, <3>3
  <2>2. hdr[c] => cpc[c] \notin {"start", "header"}
    BY DEF ClientInv
  <2> QED
    BY <2>1, <2>2 DEF ClientInv
<1>5. CASE Accept
  <2>1. UNCHANGED << cpc, req, hdr, up, answer, fd, wpc >>
    BY <1>5 DEF Accept
  <2>2. \A c \in Clients : conn[c] = "none" => conn'[c] = "none"
    <3>1. CASE listening
      <4>1. /\ Head(backlog) \in Clients /\ Head(backlog) = backlog[1] /\ 1 \in 1 .. Len(backlog)
            /\ conn' = [conn EXCEPT ![Head(backlog)] = "open"]
        BY <1>5, <3>1 DEF Accept, TypeOK
      <4>2. conn[Head(backlog)] = "backlog"
        BY <4>1 DEF PlaceInv
      <4> QED
        BY <1>b, <4>1, <4>2
    <3>2. CASE ~ listening
      BY <1>5, <3>2 DEF Accept
    <3> QED
      BY <3>1, <3>2
  <2> QED
    BY <2>1, <2>2 DEF ClientInv
<1>6. CASE Enqueue
  BY <1>6 DEF Enqueue, ClientInv
<1>7. ASSUME NEW w \in Workers, Dequeue(w) PROVE ClientInv'
  <2>1. /\ UNCHANGED << cpc, req, conn, hdr, up, answer >>
        /\ \A v \in Workers \ {w} : fd'[v] = fd[v] /\ wpc'[v] = wpc[v]
        /\ wpc'[w] = "recv"
    BY <1>7, <1>b DEF Dequeue, GoTo
  <2> QED
    BY <2>1 DEF ClientInv
<1>8. ASSUME NEW w \in Workers, Dispatch(w) PROVE ClientInv'
  <2>1. UNCHANGED << cpc, req, conn, answer, fd, up >> /\ wpc' = [wpc EXCEPT ![w] = wpc'[w]]
    BY <1>8, SocketFrame DEF Dispatch
  <2>2. fd[w] \in Clients /\ hdr[fd[w]] /\ hdr' = [hdr EXCEPT ![fd[w]] = FALSE]
    BY <1>8 DEF Dispatch
  <2>3. \A c \in Clients : hdr'[c] => hdr[c]
    BY <1>b, <2>2
  <2>4. \A v \in Workers \ {w} : wpc'[v] = wpc[v]
    BY <1>b, <2>1
  <2>5. cpc[fd[w]] \notin {"start", "header"}
    BY <2>2 DEF ClientInv
  <2> QED
    BY <2>1, <2>3, <2>4, <2>5 DEF ClientInv
<1>9. ASSUME NEW w \in Workers, Receive(w) PROVE ClientInv'
  <2>1. UNCHANGED << cpc, req, conn, answer, fd, hdr >> /\ wpc' = [wpc EXCEPT ![w] = wpc'[w]]
    BY <1>9, SocketFrame DEF Receive
  <2>2. wpc[w] = "payload" /\ up[fd[w]] # << >>
    BY <1>9 DEF Receive, At
  <2>3. fd[w] \in Clients
    BY <2>2 DEF FdInv, TypeOK
  <2>4. \A c \in Clients \ {fd[w]} : up'[c] = up[c]
    BY <1>9, <1>b DEF Receive
  <2>5. cpc[fd[w]] \notin {"start", "header", "data"}
    BY <2>2, <2>3 DEF ClientInv
  <2>6. \A v \in Workers \ {w} : wpc'[v] = wpc[v]
    BY <1>b, <2>1
  <2> QED
    BY <2>1, <2>2, <2>3, <2>4, <2>5, <2>6 DEF ClientInv
<1>10. ASSUME NEW w \in Workers, Serve(w) \/ Okay(w) \/ OkayData(w) \/ Fail(w) PROVE ClientInv'
  <2>1. /\ UNCHANGED << cpc, req, conn, answer, fd, hdr, up >>
        /\ wpc' = [wpc EXCEPT ![w] = wpc'[w]]
        /\ wpc[w] = "recv" /\ fd[w] \in Clients => Hangup(fd[w]) \/ hdr[fd[w]]
    BY <1>10, ServeFrame, SocketFrame DEF Okay, OkayData, Fail
  <2>2. \A v \in Workers \ {w} : wpc'[v] = wpc[v]
    BY <1>b, <2>1
  <2>3. fd[w] \in Clients => cpc[fd[w]] \notin {"start", "header"}
    BY <2>1 DEF ClientInv, Hangup
  <2> QED
    BY <2>1, <2>2, <2>3 DEF ClientInv
<1>11. ASSUME NEW w \in Workers, Close(w) PROVE ClientInv'
  <2>1. UNCHANGED << cpc, req, hdr, up, answer >> /\ fd'[w] = NULL
        /\ \A v \in Workers \ {w} : fd'[v] = fd[v] /\ wpc'[v] = wpc[v]
    BY <1>11, <1>b DEF Close, GoTo
  <2>2. fd[w] \in Clients \cup {BADFD}
    BY <1>11 DEF FdInv, TypeOK, Close, At
  <2>3. \A c \in Clients : conn[c] = "none" => conn'[c] = "none"
    <3>1. fd[w] \in Clients => conn[fd[w]] = "open"
      BY DEF PlaceInv
    <3> QED
      BY <1>11, <1>b, <2>2, <3>1 DEF Close
  <2> QED
    BY <1>a, <2>1, <2>3 DEF ClientInv
<1>12. CASE Admin
  BY <1>12, ConsoleFrame DEF ClientInv
<1> QED
  BY <1>1, <1>2, <1>3, <1>4, <1>5, <1>6, <1>7, <1>8, <1>9, <1>10, <1>11, <1>12
  DEF Next, ClientStep, Listener, Admin, WorkerStep, Handler, Serve

-----------------------------------------------------------------------------
(***************************************************************************)
(* Who has been answered.                                                  *)
(***************************************************************************)
LEMMA ReplyNext ==
    ASSUME TypeOK, PlaceInv, FdInv, ClientInv, ReplyInv, Next
    PROVE  ReplyInv'
<1> USE DEF clientVars, socketVars, queueVars, workerVars, adminVars, Answered
<1>a. NULL # BADFD /\ NULL \notin Clients /\ BADFD \notin Clients /\ NULL # "K" /\ NULL # "X"
  BY ThreadsAssumption
<1>b. /\ wpc = [v \in Workers |-> wpc[v]] /\ fd = [v \in Workers |-> fd[v]]
      /\ cpc = [c \in Clients |-> cpc[c]] /\ req = [c \in Clients |-> req[c]]
      /\ conn = [c \in Clients |-> conn[c]] /\ rhdr = [c \in Clients |-> rhdr[c]]
      /\ answer = [c \in Clients |-> answer[c]]
  BY DEF TypeOK
<1>c. wq \in Seq(Clients \cup {BADFD}) /\ Len(wq) \in Nat /\ backlog \in Seq(Clients)
  BY DEF TypeOK
<1>1. ASSUME NEW c \in Clients, NEW r \in Requests, Connect(c, r) PROVE ReplyInv'
  <2>1. conn[c] = "none"
    BY <1>1 DEF Connect, ClientInv
  <2>2. /\ UNCHANGED << rhdr, answer, newfd, wq, fd, wpc, process >> /\ cpc'[c] = "header"
        /\ conn'[c] = "backlog"
        /\ \A d \in Clients \ {c} : cpc'[d] = cpc[d] /\ req'[d] = req[d] /\ conn'[d] = conn[d]
    BY <1>1, <1>b DEF Connect
  <2> QED
    BY <2>1, <2>2 DEF ReplyInv, Running
<1>2. ASSUME NEW c \in Clients, SendHeader(c) \/ SendData(c) PROVE ReplyInv'
  <2>1. /\ UNCHANGED << rhdr, answer, newfd, wq, fd, wpc, process, req, conn >>
        /\ cpc'[c] = "body" \/ cpc'[c] = "done" => req[c].op = "Q"
        /\ \A d \in Clients \ {c} : cpc'[d] = cpc[d]
    BY <1>2, <1>b DEF SendHeader, SendData
  <2> QED
    BY <2>1 DEF ReplyInv, Running
<1>3. ASSUME NEW c \in Clients, ReadReply(c) PROVE ReplyInv'
  <2>1. /\ UNCHANGED << newfd, wq, fd, wpc, process, req, conn >>
        /\ rhdr[c] # NULL \/ conn[c] = "closed" \/ ~ Running
        /\ rhdr'[c] = NULL /\ answer'[c] = rhdr[c]
        /\ \A d \in Clients \ {c} : cpc'[d] = cpc[d] /\ rhdr'[d] = rhdr[d] /\ answer'[d] = answer[d]
    BY <1>3, <1>b DEF ReadReply, ServerGone
  <2>2. answer[c] = NULL
    BY <1>3 DEF ReadReply, ClientInv
  <2>3. \A d \in Clients : Answered(d)' <=> Answered(d)
    BY <2>1, <2>2
  <2>4. Running => Answered(c)
    BY <2>1, <2>2 DEF ReplyInv
  <2>5. \A d \in Clients : rhdr'[d] = NULL \/ answer'[d] = NULL
    BY <2>1 DEF ReplyInv
  <2>6. \A d \in Clients : Running' /\ cpc'[d] \in {"body", "done"} /\ ~ Answered(d)' => req'[d].op = "Q"
    BY <2>1, <2>3, <2>4 DEF ReplyInv, Running
  <2>7. \A w \in Workers : fd[w] \in Clients => (Answered(fd[w])' <=> wpc[w] \in {"okaydata", "close"})
    BY <2>1, <2>3 DEF ReplyInv
  <2>8. /\ newfd \in Clients => ~ Answered(newfd)'
        /\ \A i \in 1 .. Len(wq) : wq[i] \in Clients => ~ Answered(wq[i])'
    BY <2>1, <2>3 DEF ReplyInv
  <2>9. \A d \in Clients : /\ conn[d] \in {"none", "backlog"} => ~ Answered(d)'
                           /\ conn[d] = "closed" => Answered(d)'
    BY <2>3 DEF ReplyInv
  <2> QED
    BY <2>1, <2>5, <2>6, <2>7, <2>8, <2>9 DEF ReplyInv
<1>4. ASSUME NEW c \in Clients, ShortReply(c) \/ ReadBody(c) \/ Die(c) PROVE ReplyInv'
  <2>1. /\ UNCHANGED << rhdr, answer, newfd, wq, fd, wpc, process, req, conn >>
        /\ cpc[c] = "body" \/ cpc'[c] = "dead" \/ rhdr[c] # NULL
        /\ \A d \in Clients \ {c} : cpc'[d] = cpc[d]
    BY <1>4, <1>b DEF ShortReply, ReadBody, Die
  <2> QED
    BY <2>1 DEF ReplyInv, Running, Answered
<1>5. CASE Accept
  <2>1. UNCHANGED << rhdr, answer, wq, fd, wpc, process, req, cpc >>
    BY <1>5 DEF Accept
  <2>2. CASE listening
    <3>1. /\ Head(backlog) \in Clients /\ Head(backlog) = backlog[1] /\ 1 \in 1 .. Len(backlog)
          /\ conn' = [conn EXCEPT ![Head(backlog)] = "open"]
          /\ newfd' = Head(backlog)
      BY <1>5, <1>c, <2>2 DEF Accept
    <3>2. ~ Answered(newfd')
      BY <3>1 DEF PlaceInv, ReplyInv
    <3>3. \A c \in Clients : conn'[c] = conn[c] \/ conn'[c] = "open"
      BY <1>b, <3>1
    <3> QED
      BY <2>1, <3>2, <3>3 DEF ReplyInv, Running
  <2>3. CASE ~ listening
    <3>1. conn' = conn /\ newfd' = BADFD
      BY <1>5, <2>3 DEF Accept
    <3> QED
      BY <1>a, <2>1, <3>1 DEF ReplyInv, Running
  <2> QED
    BY <2>2, <2>3
<1>6. CASE Enqueue
  <2>1. /\ UNCHANGED << rhdr, answer, conn, fd, wpc, process, req, cpc >>
        /\ newfd' = NULL /\ wq' = Append(wq, newfd)
    BY <1>6 DEF Enqueue
  <2>2. \A i \in 1 .. Len(wq') : wq'[i] = newfd \/ (i \in 1 .. Len(wq) /\ wq'[i] = wq[i])
    BY <1>c, <2>1 DEF TypeOK
  <2> QED
    BY <1>a, <2>1, <2>2 DEF ReplyInv, Running
<1>7. ASSUME NEW w \in Workers, Dequeue(w) PROVE ReplyInv'
  <2>1. /\ UNCHANGED << rhdr, answer, conn, newfd, process, req, cpc >>
        /\ wq # << >> /\ wq' = Tail(wq) /\ fd'[w] = Head(wq) /\ wpc'[w] = "recv"
        /\ \A v \in Workers \ {w} : fd'[v] = fd[v] /\ wpc'[v] = wpc[v]
    BY <1>7, <1>b DEF Dequeue, GoTo
  <2>2. /\ Head(wq) = wq[1] /\ 1 \in 1 .. Len(wq)
        /\ \A i \in 1 .. Len(wq') : i + 1 \in 1 .. Len(wq) /\ wq'[i] = wq[i + 1]
    BY <1>c, <2>1
  <2>3. \A i \in 1 .. Len(wq') : wq'[i] \in Clients => ~ Answered(wq'[i])
    BY <2>2 DEF ReplyInv
  <2>4. fd'[w] \in Clients => ~ Answered(fd'[w])
    BY <2>1, <2>2 DEF ReplyInv
  <2>5. \A v \in Workers : fd'[v] \in Clients => (Answered(fd'[v]) <=> wpc'[v] \in {"okaydata", "close"})
    BY <2>1, <2>4 DEF ReplyInv
  <2> QED
    BY <2>1, <2>3, <2>5 DEF ReplyInv, Running
<1>8. ASSUME NEW w \in Workers, Dispatch(w) \/ Receive(w) \/ Serve(w) \/ OkayData(w) PROVE ReplyInv'
  <2>1. /\ UNCHANGED << rhdr, answer, conn, newfd, wq, req, cpc, fd >>
        /\ wpc' = [wpc EXCEPT ![w] = wpc'[w]] /\ Running
        /\ wpc[w] \in {"okaydata", "close"} <=> wpc'[w] \in {"okaydata", "close"}
    BY <1>8, ServeFrame, SocketFrame DEF Dispatch, Receive, OkayData
  <2>2. \A v \in Workers \ {w} : wpc'[v] = wpc[v]
    BY <1>b, <2>1
  <2> QED
    BY <2>1, <2>2 DEF ReplyInv
<1>9. ASSUME NEW w \in Workers, Okay(w) \/ Fail(w) PROVE ReplyInv'
  <2>1. /\ UNCHANGED << answer, conn, newfd, wq, req, cpc, fd, process >>
        /\ wpc' = [wpc EXCEPT ![w] = wpc'[w]]
        /\ wpc[w] \in {"okay", "fail"} /\ wpc'[w] \in {"okaydata", "close"}
        /\ Okay(w) => wpc[w] = "okay"
    BY <1>9, SocketFrame
  <2>2. \A v \in Workers \ {w} : wpc'[v] = wpc[v]
    BY <1>b, <2>1
  <2>3. fd[w] \in Clients \cup {BADFD} /\ (Okay(w) => fd[w] \in Clients)
    BY <2>1 DEF FdInv, TypeOK
  <2>4. CASE fd[w] = BADFD
    <3>1. UNCHANGED rhdr
      BY <1>9, <1>a, <2>3, <2>4 DEF Fail
    <3> QED
      BY <1>a, <2>1, <2>2, <2>4, <3>1 DEF ReplyInv, Running
  <2>5. CASE fd[w] \in Clients
    <3>0. PICK c \in Clients : c = fd[w]
      BY <2>5
    <3>1. rhdr'[c] # NULL /\ \A d \in Clients \ {c} : rhdr'[d] = rhdr[d]
      BY <1>9, <1>a, <1>b, <3>0 DEF Okay, Fail
    <3>2. /\ ~ Answered(c) /\ conn[c] = "open" /\ newfd # c
          /\ \A i \in 1 .. Len(wq) : wq[i] # c
          /\ \A v \in Workers : fd[v] = c => v = w
      BY <2>1, <3>0 DEF ReplyInv, PlaceInv
    <3>3. Answered(c)' /\ answer'[c] = NULL
      BY <2>1, <3>1, <3>2
    <3>4. \A d \in Clients \ {c} : Answered(d)' <=> Answered(d)
      BY <2>1, <3>1
    <3>5. \A d \in Clients :
             /\ rhdr'[d] = NULL \/ answer'[d] = NULL
             /\ conn[d] \in {"none", "backlog"} => ~ Answered(d)'
             /\ conn[d] = "closed" => Answered(d)'
             /\ Running' /\ cpc[d] \in {"body", "done"} /\ ~ Answered(d)' => req[d].op = "Q"
      BY <2>1, <3>1, <3>2, <3>3, <3>4 DEF ReplyInv, Running
    <3>6. newfd \in Clients => ~ Answered(newfd)'
      BY <2>1, <3>2, <3>4 DEF ReplyInv
    <3>7. \A i \in 1 .. Len(wq) : wq[i] \in Clients => ~ Answered(wq[i])'
      BY <2>1, <3>2, <3>4 DEF ReplyInv
    <3>8. ASSUME NEW v \in Workers, fd[v] \in Clients
          PROVE  Answered(fd[v])' <=> wpc'[v] \in {"okaydata", "close"}
      <4>1. CASE v = w
        BY <2>1, <3>0, <3>3, <4>1
      <4>2. CASE v # w
        BY <2>1, <2>2, <3>0, <3>2, <3>4, <3>8, <4>2 DEF ReplyInv
      <4> QED
        BY <4>1, <4>2
    <3> QED
      BY <2>1, <3>5, <3>6, <3>7, <3>8 DEF ReplyInv
  <2> QED
    BY <2>3, <2>4, <2>5
<1>10. ASSUME NEW w \in Workers, Close(w) PROVE ReplyInv'
  <2>1. /\ UNCHANGED << rhdr, answer, newfd, wq, req, cpc, process >>
        /\ fd'[w] = NULL /\ \A v \in Workers \ {w} : fd'[v] = fd[v] /\ wpc'[v] = wpc[v]
    BY <1>10, <1>b DEF Close, GoTo
  <2>2. fd[w] \in Clients \cup {BADFD} /\ wpc[w] = "close"
    BY <1>10 DEF FdInv, TypeOK, Close, At
  <2>3. fd[w] \in Clients => Answered(fd[w])
    BY <2>2 DEF ReplyInv
  <2>4. \A c \in Clients : conn'[c] = conn[c] \/ (c = fd[w] /\ conn'[c] = "closed")
    BY <1>10, <1>b, <2>2 DEF Close
  <2>5. \A c \in Clients :
           /\ conn'[c] \in {"none", "backlog"} => ~ Answered(c)
           /\ conn'[c] = "closed" => Answered(c)
    BY <2>3, <2>4 DEF ReplyInv
  <2>6. \A v \in Workers : fd'[v] \in Clients => (Answered(fd'[v]) <=> wpc'[v] \in {"okaydata", "close"})
    BY <1>a, <2>1 DEF ReplyInv
  <2> QED
    BY <2>1, <2>5, <2>6 DEF ReplyInv, Running
<1>11. CASE Admin
  BY <1>11, ConsoleFrame DEF ReplyInv
<1> QED
  BY <1>1, <1>2, <1>3, <1>4, <1>5, <1>6, <1>7, <1>8, <1>9, <1>10, <1>11
  DEF Next, ClientStep, Listener, Admin, WorkerStep, Serve

-----------------------------------------------------------------------------
(***************************************************************************)
(* The bytes on their way.                                                 *)
(***************************************************************************)
LEMMA StringsMeaning ==
    ASSUME NEW s
    PROVE  s \in Strings <=> s \in Seq(Bytes \cup {JUNK}) /\ Len(s) <= 2
<1>1. ASSUME s \in Strings PROVE s \in Seq(Bytes \cup {JUNK}) /\ Len(s) <= 2
  <2>1. PICK n \in 0 .. 2 : s \in [1 .. n -> Bytes \cup {JUNK}]
    BY <1>1 DEF Strings
  <2>2. n \in Nat /\ n <= 2
    OBVIOUS
  <2>3. Len(s) = n /\ s \in Seq(Bytes \cup {JUNK})
    BY <2>1, <2>2
  <2> QED
    BY <2>2, <2>3
<1>2. ASSUME s \in Seq(Bytes \cup {JUNK}), Len(s) <= 2 PROVE s \in Strings
  <2>1. Len(s) \in Nat /\ s \in [1 .. Len(s) -> Bytes \cup {JUNK}]
    BY <1>2, LenProperties
  <2>2. Len(s) \in 0 .. 2
    BY <1>2, <2>1
  <2> QED
    BY <2>1, <2>2 DEF Strings
<1> QED
  BY <1>1, <1>2

LEMMA StringLength ==
    ASSUME NEW s \in Strings
    PROVE  /\ s \in Seq(Bytes \cup {JUNK}) /\ Len(s) \in 0 .. 2
           /\ Len(s) = 0 <=> s = << >>
<1>1. s \in Seq(Bytes \cup {JUNK}) /\ Len(s) <= 2
  BY StringsMeaning
<1>2. Len(s) \in Nat
  BY <1>1, LenProperties
<1>3. Len(s) = 0 <=> s = << >>
  BY <1>1, EmptySeq
<1>4. ASSUME NEW l \in Nat, l <= 2 PROVE l \in 0 .. 2
  BY <1>4
<1> QED
  BY <1>1, <1>2, <1>3, <1>4, Zenon

LEMMA EmptyString == << >> \in Strings
<1>1. << >> \in Seq(Bytes \cup {JUNK}) /\ Len(<< >>) = 0
  BY EmptySeq
<1>2. 0 <= 2
  OBVIOUS
<1> QED
  BY <1>1, <1>2, StringsMeaning, Zenon

LEMMA RequestType ==
    ASSUME NEW r \in Requests
    PROVE  /\ r.key \in Keys /\ r.data \in Strings
           /\ r.op \in {"W", "R", "D", "Q", "?"}
           /\ Len(r.data) \in 0 .. 2
<1>1. r.key \in Keys /\ r.data \in Strings /\ r.op \in {"W", "R", "D", "Q", "?"}
  BY RequestsAssumption
<1> QED
  BY <1>1, StringLength

\* What a read() leaves is the rest.
LEMMA ReadPart ==
    ASSUME NEW s \in Strings, s # << >>, NEW n \in ReadSizes(s)
    PROVE  /\ n \in 1 .. Len(s)
           /\ SubSeq(s, 1, n) \in Strings /\ Len(SubSeq(s, 1, n)) = n
           /\ SubSeq(s, n + 1, Len(s)) \in Strings
           /\ Len(SubSeq(s, n + 1, Len(s))) = Len(s) - n
<1>1. s \in Seq(Bytes \cup {JUNK}) /\ Len(s) \in 1 .. 2
  BY StringLength
<1>2. n \in 1 .. Len(s)
  BY <1>1 DEF ReadSizes
<1>3. /\ SubSeq(s, 1, n) \in Seq(Bytes \cup {JUNK}) /\ Len(SubSeq(s, 1, n)) = n
      /\ SubSeq(s, n + 1, Len(s)) \in Seq(Bytes \cup {JUNK})
      /\ Len(SubSeq(s, n + 1, Len(s))) = Len(s) - n
  BY <1>1, <1>2
<1>4. ASSUME NEW l \in 1 .. 2, NEW m \in 1 .. l PROVE m <= 2 /\ l - m <= 2
  OBVIOUS
<1> QED
  BY <1>1, <1>2, <1>3, <1>4, StringsMeaning, Zenon

LEMMA ReceivedType ==
    ASSUME NEW b \in Strings, NEW s \in Strings
    PROVE  Received(b, s) \in Strings /\ Len(Received(b, s)) = Len(b)
<1>1. /\ b \in Seq(Bytes \cup {JUNK}) /\ Len(b) \in 0 .. 2
      /\ s \in Seq(Bytes \cup {JUNK}) /\ Len(s) \in 0 .. 2
  BY StringLength
<1>2. \A i \in 1 .. Len(b) : (IF i <= Len(s) THEN s[i] ELSE b[i]) \in Bytes \cup {JUNK}
  BY <1>1
<1>3. Received(b, s) \in [1 .. Len(b) -> Bytes \cup {JUNK}]
  BY <1>2 DEF Received
<1>4. Received(b, s) \in Seq(Bytes \cup {JUNK}) /\ Len(Received(b, s)) = Len(b)
  BY <1>1, <1>3
<1> QED
  BY <1>1, <1>4, StringsMeaning

LEMMA PayloadNext ==
    ASSUME TypeOK, PlaceInv, FdInv, ClientInv, PayloadInv, Next
    PROVE  PayloadInv'
<1> USE DEF clientVars, socketVars, queueVars, workerVars, adminVars
<1>a. NULL # BADFD /\ NULL \notin Clients /\ BADFD \notin Clients
  BY ThreadsAssumption
<1>b. /\ wpc = [v \in Workers |-> wpc[v]] /\ fd = [v \in Workers |-> fd[v]]
      /\ buf = [v \in Workers |-> buf[v]] /\ got = [v \in Workers |-> got[v]]
      /\ cpc = [c \in Clients |-> cpc[c]] /\ req = [c \in Clients |-> req[c]]
      /\ up = [c \in Clients |-> up[c]]
  BY DEF TypeOK
<1>c. \A w \in Workers : wpc[w] = "payload" =>
         /\ fd[w] \in Clients /\ cpc[fd[w]] \notin {"start", "header"}
         /\ conn[fd[w]] = "open" /\ \A v \in Workers : fd[v] = fd[w] => v = w
  <2>1. \A w \in Workers : wpc[w] = "payload" => fd[w] \in Clients
    BY DEF FdInv, TypeOK
  <2> QED
    BY <2>1 DEF ClientInv, PlaceInv
<1>1. ASSUME NEW c \in Clients, NEW r \in Requests, Connect(c, r) PROVE PayloadInv'
  <2>1. conn[c] = "none" /\ up[c] = << >>
    BY <1>1 DEF Connect, ClientInv
  <2>2. /\ UNCHANGED << up, wpc, fd, buf, got >> /\ req'[c] = r /\ cpc'[c] = "header"
        /\ \A d \in Clients \ {c} : cpc'[d] = cpc[d] /\ req'[d] = req[d]
    BY <1>1, <1>b DEF Connect
  <2>3. \A w \in Workers : wpc[w] = "payload" => fd[w] \in Clients \ {c}
    BY <1>c, <2>1
  <2>4. Len(up[c]) <= Len(r.data)
    BY <2>1, RequestType
  <2> QED
    BY <2>2, <2>3, <2>4 DEF PayloadInv
<1>2. ASSUME NEW c \in Clients, SendHeader(c) PROVE PayloadInv'
  <2>1. /\ UNCHANGED << up, req, wpc, fd, buf, got >> /\ cpc[c] = "header"
        /\ \A d \in Clients \ {c} : cpc'[d] = cpc[d]
    BY <1>2, <1>b DEF SendHeader
  <2> QED
    BY <1>c, <2>1 DEF PayloadInv
<1>3. ASSUME NEW c \in Clients, SendData(c) PROVE PayloadInv'
  <2>1. /\ UNCHANGED << req, wpc, fd, buf, got >> /\ cpc[c] = "data" /\ cpc'[c] = "reply"
        /\ up'[c] = req[c].data
        /\ \A d \in Clients \ {c} : cpc'[d] = cpc[d] /\ up'[d] = up[d]
    BY <1>3, <1>b DEF SendData
  <2>2. Len(req[c].data) \in Nat
    BY <2>1, RequestType DEF ClientInv
  <2>3. \A w \in Workers : wpc[w] = "payload" /\ fd[w] = c =>
           got[w] = 0 /\ Len(buf[w]) = Len(req[c].data)
    BY <2>1 DEF PayloadInv
  <2>4. \A d \in Clients : cpc'[d] # "start" => Len(up'[d]) <= Len(req'[d].data)
    BY <2>1, <2>2 DEF PayloadInv
  <2>5. ASSUME NEW w \in Workers, wpc[w] = "payload"
        PROVE  /\ Len(buf[w]) = Len(req[fd[w]].data)
               /\ got[w] + Len(up'[fd[w]]) <= Len(buf[w])
               /\ cpc'[fd[w]] = "data" => got[w] = 0
    <3>1. CASE fd[w] = c
      BY <2>1, <2>2, <2>3, <2>5, <3>1
    <3>2. CASE fd[w] # c
      BY <1>c, <2>1, <2>5, <3>2 DEF PayloadInv
    <3> QED
      BY <3>1, <3>2
  <2> QED
    BY <2>1, <2>4, <2>5 DEF PayloadInv
<1>4. ASSUME NEW c \in Clients, ReadReply(c) \/ ShortReply(c) \/ ReadBody(c) \/ Die(c) PROVE PayloadInv'
  <2>1. /\ UNCHANGED << up, req, wpc, fd, buf, got >>
        /\ cpc[c] # "start" /\ cpc'[c] \in {"body", "done", "dead"}
        /\ \A d \in Clients \ {c} : cpc'[d] = cpc[d]
    BY <1>4, <1>b DEF ReadReply, ShortReply, ReadBody, Die
  <2> QED
    BY <1>c, <2>1 DEF PayloadInv
<1>5. CASE Accept \/ Enqueue
  BY <1>5 DEF Accept, Enqueue, PayloadInv
<1>6. ASSUME NEW w \in Workers, Dequeue(w) \/ Close(w) PROVE PayloadInv'
  <2>1. /\ UNCHANGED << up, req, cpc >> /\ wpc'[w] # "payload"
        /\ \A v \in Workers \ {w} : /\ fd'[v] = fd[v] /\ wpc'[v] = wpc[v]
                                    /\ buf'[v] = buf[v] /\ got'[v] = got[v]
    BY <1>6, <1>b DEF Dequeue, Close, GoTo
  <2> QED
    BY <2>1 DEF PayloadInv
<1>7. ASSUME NEW w \in Workers, Dispatch(w) PROVE PayloadInv'
  <2>1. PICK c \in Clients : c = fd[w] /\ hdr[c]
    BY <1>7 DEF Dispatch
  <2>2. UNCHANGED << up, req, cpc, fd >>
    BY <1>7 DEF Dispatch
  <2>3. \A v \in Workers \ {w} : wpc'[v] = wpc[v] /\ buf'[v] = buf[v] /\ got'[v] = got[v]
    BY <1>7, <1>b DEF Dispatch, GoTo
  <2>4. req[c] \in Requests /\ Len(req[c].data) \in Nat /\ Len(up[c]) <= Len(req[c].data)
    BY <2>1, RequestType DEF ClientInv, PayloadInv
  <2>5. wpc'[w] = "payload" =>
           got'[w] = 0 /\ buf'[w] = [i \in 1 .. Len(req[c].data) |-> JUNK]
    BY <1>7, <1>b, <2>1 DEF Dispatch, GoTo
  <2>6. wpc'[w] = "payload" => Len(buf'[w]) = Len(req[c].data)
    BY <2>4, <2>5
  <2>7. Len(up[c]) \in Nat
    BY StringLength DEF TypeOK
  <2>8. wpc'[w] = "payload" => /\ Len(buf'[w]) = Len(req[fd[w]].data)
                               /\ got'[w] + Len(up[fd[w]]) <= Len(buf'[w])
                               /\ got'[w] = 0
    BY <2>1, <2>4, <2>5, <2>6, <2>7
  <2> QED
    BY <2>2, <2>3, <2>8 DEF PayloadInv
<1>8. ASSUME NEW w \in Workers, Receive(w) PROVE PayloadInv'
  <2>1. /\ wpc[w] = "payload" /\ up[fd[w]] # << >>
        /\ UNCHANGED << req, cpc, fd >>
    BY <1>8 DEF Receive, At
  <2>2. PICK c \in Clients : c = fd[w]
    BY <1>c, <2>1
  <2>3. PICK n \in ReadSizes(up[c]) :
          /\ buf' = [buf EXCEPT ![w] = Received(@, SubSeq(up[c], 1, n))]
          /\ got' = [got EXCEPT ![w] = @ + n]
          /\ up' = [up EXCEPT ![c] = SubSeq(@, n + 1, Len(@))]
    BY <1>8, <2>2 DEF Receive
  <2>4. up[c] \in Strings /\ buf[w] \in Strings /\ got[w] \in Nat
    BY SMTT(30) DEF TypeOK
  <2>5. n \in 1 .. Len(up[c]) /\ Len(up'[c]) = Len(up[c]) - n /\ Len(up[c]) \in Nat
    BY <1>b, <2>1, <2>2, <2>3, <2>4, ReadPart, StringLength, SMTT(30)
  <2>6. got'[w] = got[w] + n /\ Len(buf'[w]) = Len(buf[w]) /\ Len(buf[w]) \in Nat
    BY <1>b, <2>1, <2>2, <2>3, <2>4, ReadPart, ReceivedType, StringLength
  <2>7. /\ \A v \in Workers \ {w} : buf'[v] = buf[v] /\ got'[v] = got[v] /\ wpc'[v] = wpc[v]
        /\ \A d \in Clients \ {c} : up'[d] = up[d]
    BY <1>8, <1>b, <2>3 DEF Receive, GoTo
  <2>8. cpc[c] \notin {"start", "data"} /\ Len(up[c]) <= Len(req[c].data)
    BY <2>1, <2>2 DEF ClientInv, PayloadInv
  <2>8a. Len(req[c].data) \in Nat
    BY <2>8, RequestType DEF ClientInv
  <2>9. \A d \in Clients : cpc[d] # "start" => Len(up'[d]) <= Len(req[d].data)
    BY <2>5, <2>7, <2>8, <2>8a, SMTT(30) DEF PayloadInv
  <2>10. /\ Len(buf'[w]) = Len(req[fd[w]].data)
         /\ got'[w] + Len(up'[fd[w]]) <= Len(buf'[w])
         /\ cpc[fd[w]] # "data"
    BY <2>1, <2>2, <2>4, <2>5, <2>6, <2>8, SMTT(30) DEF PayloadInv
  <2>11. ASSUME NEW v \in Workers, v # w, wpc'[v] = "payload"
         PROVE  /\ Len(buf'[v]) = Len(req[fd[v]].data)
                /\ got'[v] + Len(up'[fd[v]]) <= Len(buf'[v])
                /\ cpc[fd[v]] = "data" => got'[v] = 0
    <3>1. fd[v] \in Clients \ {c} /\ wpc[v] = "payload"
      BY <1>c, <2>1, <2>2, <2>7, <2>11
    <3> QED
      BY <2>7, <2>11, <3>1 DEF PayloadInv
  <2> QED
    BY <2>1, <2>9, <2>10, <2>11 DEF PayloadInv
<1>9. ASSUME NEW w \in Workers, Serve(w) \/ Okay(w) \/ OkayData(w) \/ Fail(w) PROVE PayloadInv'
  <2>1. /\ UNCHANGED << up, req, cpc, fd, buf, got >>
        /\ wpc' = [wpc EXCEPT ![w] = wpc'[w]] /\ wpc'[w] # "payload"
    BY <1>9, ServeFrame, SocketFrame DEF Okay, OkayData, Fail
  <2>2. \A v \in Workers \ {w} : wpc'[v] = wpc[v]
    BY <1>b, <2>1
  <2> QED
    BY <2>1, <2>2 DEF PayloadInv
<1>10. CASE Admin
  BY <1>10, ConsoleFrame DEF PayloadInv
<1> QED
  BY <1>1, <1>2, <1>3, <1>4, <1>5, <1>6, <1>7, <1>8, <1>9, <1>10
  DEF Next, ClientStep, Listener, Admin, WorkerStep, Serve

\* kv_write and kv_delete only turn pointers of other workers into dangling ones.
LEMMA ServePointers ==
    ASSUME TypeOK, NEW w \in Workers, Serve(w), NEW v \in Workers, v # w
    PROVE  ptr'[v] = ptr[v] \/ ptr'[v].freed
<1>1. ptr \in [Workers -> [key : Keys \cup {NULL}, val : Strings, freed : BOOLEAN]]
  BY DEF TypeOK
<1>2. \A k : LET p == Dangling(k)[v] IN p = ptr[v] \/ p.freed
  BY <1>1 DEF Dangling
<1>3. CASE KvWrite(w) \/ KvDelete(w)
  BY <1>2, <1>3 DEF KvWrite, KvDelete
<1>4. CASE KvRead(w)
  BY <1>1, <1>4 DEF KvRead
<1>5. CASE ShortRead(w) \/ ReceiveNothing(w) \/ ReceiveEmpty(w) \/ KvFull(w) \/ WorkerCleanup(w)
  BY <1>5 DEF ShortRead, ReceiveNothing, ReceiveEmpty, KvFull, WorkerCleanup
<1> QED
  BY <1>3, <1>4, <1>5 DEF Serve

LEMMA BodyNext ==
    ASSUME TypeOK, PlaceInv, FdInv, ClientInv, ReplyInv, BodyInv, Next
    PROVE  BodyInv'
<1> USE DEF clientVars, socketVars, queueVars, workerVars, adminVars
<1>a. NULL # BADFD /\ NULL \notin Clients /\ BADFD \notin Clients
  BY ThreadsAssumption
<1>b. /\ wpc = [v \in Workers |-> wpc[v]] /\ fd = [v \in Workers |-> fd[v]]
      /\ ptr = [v \in Workers |-> ptr[v]] /\ cpc = [c \in Clients |-> cpc[c]]
      /\ req = [c \in Clients |-> req[c]] /\ conn = [c \in Clients |-> conn[c]]
      /\ rhdr = [c \in Clients |-> rhdr[c]] /\ rlen = [c \in Clients |-> rlen[c]]
      /\ body = [c \in Clients |-> body[c]] /\ down = [c \in Clients |-> down[c]]
  BY DEF TypeOK
<1>c. wq \in Seq(Clients \cup {BADFD}) /\ Len(wq) \in Nat /\ backlog \in Seq(Clients)
  BY DEF TypeOK
<1>d. \A w \in Workers : wpc[w] \in {"okay", "okaydata"} =>
         /\ fd[w] \in Clients /\ cpc[fd[w]] \notin {"start", "header"}
         /\ conn[fd[w]] = "open" /\ \A v \in Workers : fd[v] = fd[w] => v = w
  <2>1. \A w \in Workers : wpc[w] \in {"okay", "okaydata"} => fd[w] \in Clients
    BY DEF FdInv, TypeOK
  <2> QED
    BY <2>1 DEF ClientInv, PlaceInv
<1>1. ASSUME NEW c \in Clients, NEW r \in Requests, Connect(c, r) PROVE BodyInv'
  <2>1. conn[c] = "none"
    BY <1>1 DEF Connect, ClientInv
  <2>2. /\ UNCHANGED << body, down, rlen, rhdr, newfd, wq, wpc, fd, ptr, process >>
        /\ \A d \in Clients \ {c} : cpc'[d] = cpc[d] /\ req'[d] = req[d] /\ conn'[d] = conn[d]
    BY <1>1, <1>b DEF Connect
  <2>3. \A w \in Workers : wpc[w] = "okaydata" => fd[w] \in Clients \ {c}
    BY <1>d, <2>1
  <2> QED
    BY <2>1, <2>2, <2>3 DEF BodyInv, Waiting, Running
<1>2. ASSUME NEW c \in Clients, SendHeader(c) \/ SendData(c) PROVE BodyInv'
  <2>1. /\ UNCHANGED << body, down, rlen, rhdr, req, conn, newfd, wq, wpc, fd, ptr, process >>
        /\ cpc[c] \in {"header", "data"}
        /\ \A d \in Clients \ {c} : cpc'[d] = cpc[d]
    BY <1>2, <1>b DEF SendHeader, SendData
  <2> QED
    BY <1>d, <2>1 DEF BodyInv, Waiting, Running
<1>3. ASSUME NEW c \in Clients, ReadReply(c) PROVE BodyInv'
  <2>1. /\ UNCHANGED << body, down, rlen, req, conn, newfd, wq, wpc, fd, ptr, process >>
        /\ req[c].op = "R" /\ rhdr[c] = "K" /\ rlen[c] > 0 => cpc'[c] = "body"
        /\ cpc[c] = "reply"
        /\ \A d \in Clients \ {c} : cpc'[d] = cpc[d] /\ rhdr'[d] = rhdr[d]
    BY <1>3, <1>b DEF ReadReply
  <2> QED
    BY <1>d, <2>1, ZenonT(60) DEF BodyInv, Waiting, Running
<1>4. ASSUME NEW c \in Clients, ReadBody(c) PROVE BodyInv'
  <2>1. /\ UNCHANGED << rlen, rhdr, req, conn, newfd, wq, wpc, fd, ptr, process >>
        /\ down[c] # << >>
        /\ \A d \in Clients \ {c} : cpc'[d] = cpc[d] /\ body'[d] = body[d] /\ down'[d] = down[d]
    BY <1>4, <1>b DEF ReadBody
  <2>2. down[c] \in Strings /\ body[c] \in Strings
    BY DEF TypeOK
  <2>3. PICK n \in ReadSizes(down[c]) :
           /\ body'[c] = body[c] \o SubSeq(down[c], 1, n)
           /\ down'[c] = SubSeq(down[c], n + 1, Len(down[c]))
    BY <1>4, <1>b DEF ReadBody
  <2>4. /\ SubSeq(down[c], 1, n) \in Strings /\ Len(SubSeq(down[c], 1, n)) = n
        /\ n \in 1 .. Len(down[c]) /\ Len(down'[c]) = Len(down[c]) - n
    BY <2>1, <2>2, <2>3, ReadPart
  <2>5. Len(body'[c]) = Len(body[c]) + n /\ Len(body[c]) \in Nat /\ Len(down[c]) \in Nat
    BY <2>2, <2>3, <2>4, StringLength, ConcatProperties
  <2>6. Len(body'[c]) + Len(down'[c]) = Len(body[c]) + Len(down[c])
    <3>1. ASSUME NEW i \in Nat, NEW j \in Nat, NEW m \in 1 .. j
          PROVE  (i + m) + (j - m) = i + j
      OBVIOUS
    <3> QED
      BY <2>4, <2>5, <3>1, Zenon
  <2>7. \A w \in Workers : fd[w] = c => wpc[w] = "close"
    BY <2>1 DEF BodyInv
  <2>8. newfd # c /\ conn[c] \notin {"none", "backlog"} /\ \A i \in 1 .. Len(wq) : wq[i] # c
    <3>1. conn[c] \in {"none", "backlog"} => down[c] = << >>
      BY DEF BodyInv
    <3>2. newfd = c => down[c] = << >>
      BY DEF BodyInv
    <3>3. \A i \in 1 .. Len(wq) : wq[i] = c => down[c] = << >>
      BY DEF BodyInv
    <3> QED
      BY ONLY <2>1, <3>1, <3>2, <3>3
  <2>9. \A d \in Clients : /\ Len(body'[d]) + Len(down'[d]) <= rlen[d]
                           /\ conn[d] \in {"none", "backlog"} => body'[d] = << >> /\ down'[d] = << >>
    BY <2>1, <2>6, <2>8 DEF BodyInv, Waiting
  <2>10. /\ newfd \in Clients => body'[newfd] = << >> /\ down'[newfd] = << >>
         /\ \A i \in 1 .. Len(wq) :
              wq[i] \in Clients => body'[wq[i]] = << >> /\ down'[wq[i]] = << >>
    BY <2>1, <2>8 DEF BodyInv, Waiting
  <2>11. \A w \in Workers : fd[w] \in Clients /\ wpc[w] # "close" =>
            body'[fd[w]] = << >> /\ down'[fd[w]] = << >>
    BY <2>1, <2>7 DEF BodyInv, Waiting
  <2>12. \A w \in Workers : wpc[w] = "okaydata" =>
          /\ rlen[fd[w]] > 0 /\ req[fd[w]].op = "R"
          /\ ~ ptr[w].freed => rlen[fd[w]] = Len(ptr[w].val)
          /\ Running' => \/ cpc'[fd[w]] \in {"body", "dead"}
                         \/ cpc'[fd[w]] \in Waiting /\ rhdr[fd[w]] = "K"
    BY <1>d, <2>1, <2>7 DEF BodyInv, Waiting, Running
  <2> QED
    BY <2>1, <2>9, <2>10, <2>11, <2>12 DEF BodyInv, Waiting
<1>5. ASSUME NEW c \in Clients, ShortReply(c) \/ Die(c) PROVE BodyInv'
  <2>1. /\ UNCHANGED << body, down, rlen, rhdr, req, conn, newfd, wq, wpc, fd, ptr, process >>
        /\ cpc'[c] = "dead" \/ (Fragmented /\ cpc[c] = "reply" /\ cpc'[c] = "done")
        /\ \A d \in Clients \ {c} : cpc'[d] = cpc[d]
    BY <1>5, <1>b DEF ShortReply, Die
  <2> QED
    BY <1>d, <2>1 DEF BodyInv, Waiting, Running
<1>6. CASE Accept
  <2>1. UNCHANGED << body, down, rlen, rhdr, req, cpc, wq, wpc, fd, ptr, process >>
    BY <1>6 DEF Accept
  <2>2. CASE listening
    <3>1. /\ Head(backlog) \in Clients /\ Head(backlog) = backlog[1] /\ 1 \in 1 .. Len(backlog)
          /\ conn' = [conn EXCEPT ![Head(backlog)] = "open"]
          /\ newfd' = Head(backlog)
      BY <1>6, <1>c, <2>2 DEF Accept
    <3>2. conn[newfd'] = "backlog"
      BY <3>1 DEF PlaceInv
    <3>2a. body[newfd'] = << >> /\ down[newfd'] = << >>
      BY <3>1, <3>2 DEF BodyInv, Waiting
    <3>3. \A c \in Clients : conn'[c] = conn[c] \/ conn'[c] = "open"
      BY <1>b, <3>1
    <3> QED
      BY <2>1, <3>2a, <3>3 DEF BodyInv, Waiting, Running
  <2>3. CASE ~ listening
    <3>1. conn' = conn /\ newfd' = BADFD
      BY <1>6, <2>3 DEF Accept
    <3> QED
      BY <1>a, <2>1, <3>1 DEF BodyInv, Waiting, Running
  <2> QED
    BY <2>2, <2>3
<1>7. CASE Enqueue
  <2>1. /\ UNCHANGED << body, down, rlen, rhdr, req, cpc, conn, wpc, fd, ptr, process >>
        /\ newfd' = NULL /\ wq' = Append(wq, newfd)
    BY <1>7 DEF Enqueue
  <2>2. \A i \in 1 .. Len(wq') : wq'[i] = newfd \/ (i \in 1 .. Len(wq) /\ wq'[i] = wq[i])
    BY <1>c, <2>1 DEF TypeOK
  <2>3. \A i \in 1 .. Len(wq') :
          wq'[i] \in Clients => body[wq'[i]] = << >> /\ down[wq'[i]] = << >>
    BY <2>2 DEF BodyInv, Waiting
  <2> QED
    BY <1>a, <2>1, <2>3 DEF BodyInv, Waiting, Running
<1>8. ASSUME NEW w \in Workers, Dequeue(w) PROVE BodyInv'
  <2>1. /\ UNCHANGED << body, down, rlen, rhdr, req, cpc, conn, newfd, ptr, process >>
        /\ wq # << >> /\ wq' = Tail(wq) /\ fd'[w] = Head(wq) /\ wpc'[w] = "recv"
        /\ \A v \in Workers \ {w} : fd'[v] = fd[v] /\ wpc'[v] = wpc[v]
    BY <1>8, <1>b DEF Dequeue, GoTo
  <2>2. /\ Head(wq) = wq[1] /\ 1 \in 1 .. Len(wq)
        /\ \A i \in 1 .. Len(wq') : i + 1 \in 1 .. Len(wq) /\ wq'[i] = wq[i + 1]
    BY <1>c, <2>1
  <2>3. \A i \in 1 .. Len(wq') :
          wq'[i] \in Clients => body[wq'[i]] = << >> /\ down[wq'[i]] = << >>
    BY <2>2 DEF BodyInv, Waiting
  <2>4. fd'[w] \in Clients => body[fd'[w]] = << >> /\ down[fd'[w]] = << >>
    BY <2>1, <2>2 DEF BodyInv, Waiting
  <2>5. \A v \in Workers : fd'[v] \in Clients /\ wpc'[v] # "close" =>
            body[fd'[v]] = << >> /\ down[fd'[v]] = << >>
    BY <2>1, <2>4 DEF BodyInv, Waiting
  <2> QED
    BY <2>1, <2>3, <2>5, ZenonT(60) DEF BodyInv, Waiting, Running
<1>9. ASSUME NEW w \in Workers, Dispatch(w) \/ Receive(w) \/ Serve(w) PROVE BodyInv'
  <2>1. /\ UNCHANGED << body, down, rlen, rhdr, conn, newfd, wq, req, cpc, fd >>
        /\ wpc' = [wpc EXCEPT ![w] = wpc'[w]] /\ Running
        /\ wpc[w] # "close" /\ wpc'[w] \notin {"okaydata", "close"}
    BY <1>9, ServeFrame, SocketFrame DEF Dispatch, Receive
  <2>2. \A v \in Workers \ {w} : wpc'[v] = wpc[v]
    BY <1>b, <2>1
  <2>3. \A v \in Workers \ {w} : ptr'[v] = ptr[v] \/ ptr'[v].freed
    BY <1>9, ServePointers, SocketFrame
  <2>4. \A v \in Workers : wpc'[v] = "okaydata" =>
          /\ rlen[fd[v]] > 0 /\ req[fd[v]].op = "R"
          /\ ~ ptr'[v].freed => rlen[fd[v]] = Len(ptr'[v].val)
          /\ \/ cpc[fd[v]] \in {"body", "dead"}
             \/ cpc[fd[v]] \in Waiting /\ rhdr[fd[v]] = "K"
    BY <2>1, <2>2, <2>3 DEF BodyInv, Waiting
  <2>5. \A v \in Workers : fd[v] \in Clients /\ wpc'[v] # "close" =>
            body[fd[v]] = << >> /\ down[fd[v]] = << >>
    BY <2>1, <2>2 DEF BodyInv, Waiting
  <2> QED
    BY <2>1, <2>4, <2>5 DEF BodyInv, Waiting
<1>10. ASSUME NEW w \in Workers, Okay(w) PROVE BodyInv'
  <2>1. /\ UNCHANGED << body, down, conn, newfd, wq, req, cpc, fd, ptr, process >> /\ Running
        /\ wpc' = [wpc EXCEPT ![w] = wpc'[w]]
        /\ wpc[w] = "okay" /\ wpc'[w] \in {"okaydata", "close"}
    BY <1>10, SocketFrame DEF Okay
  <2>2. PICK c \in Clients : c = fd[w]
    BY <1>d, <2>1
  <2>3. PICK n \in (IF req[c].op # "R" THEN {0}
                    ELSE IF ptr[w].freed THEN 0 .. 2 ELSE {Len(ptr[w].val)}) :
           /\ rlen' = [rlen EXCEPT ![c] = n]
           /\ wpc'[w] = IF n > 0 THEN "okaydata" ELSE "close"
    BY <1>10, <1>b, <2>2 DEF Okay, GoTo
  <2>4. Len(ptr[w].val) \in 0 .. 2
    BY StringLength DEF TypeOK
  <2>5. n \in 0 .. 2
    BY <2>3, <2>4, SMTT(30)
  <2>6. /\ rlen'[c] = n /\ rhdr'[c] = "K"
        /\ \A d \in Clients \ {c} : rlen'[d] = rlen[d] /\ rhdr'[d] = rhdr[d]
        /\ \A v \in Workers \ {w} : wpc'[v] = wpc[v]
    BY <1>10, <1>b, <2>1, <2>2, <2>3 DEF Okay
  <2>7. body[c] = << >> /\ down[c] = << >>
    BY <2>1, <2>2 DEF BodyInv, Waiting
  <2>8. n > 0 => req[c].op = "R" /\ (~ ptr[w].freed => n = Len(ptr[w].val))
    BY <2>3
  <2>9. req[c].op = "R" => cpc[c] \in {"reply", "dead"}
    <3>1. cpc[c] \notin {"start", "header"} /\ ~ Answered(c)
      BY <1>d, <2>1, <2>2 DEF ReplyInv
    <3>2. req[c].op = "R" => cpc[c] \notin {"data", "body", "done"}
      BY <2>1, <3>1 DEF ReplyInv, ClientInv
    <3> QED
      BY <3>1, <3>2 DEF TypeOK
  <2>10. \A d \in Clients : Len(body[d]) + Len(down[d]) <= rlen'[d]
    <3>1. Len(body[c]) = 0 /\ Len(down[c]) = 0 /\ 0 + 0 <= n
      BY <2>5, <2>7
    <3>2. \A d \in Clients \ {c} : Len(body[d]) + Len(down[d]) <= rlen'[d]
      BY <2>6 DEF BodyInv, Waiting
    <3> QED
      BY <2>6, <3>1, <3>2, Zenon
  <2>11. /\ wpc'[w] = "okaydata" =>
              /\ rlen'[c] > 0 /\ req[c].op = "R"
              /\ ~ ptr[w].freed => rlen'[c] = Len(ptr[w].val)
              /\ cpc[c] = "dead" \/ (cpc[c] = "reply" /\ rhdr'[c] = "K")
    BY <2>3, <2>6, <2>8, <2>9
  <2>12. \A v \in Workers \ {w} : wpc'[v] = "okaydata" =>
          /\ rlen'[fd[v]] > 0 /\ req[fd[v]].op = "R"
          /\ ~ ptr[v].freed => rlen'[fd[v]] = Len(ptr[v].val)
          /\ \/ cpc[fd[v]] \in {"body", "dead"}
             \/ cpc[fd[v]] \in Waiting /\ rhdr'[fd[v]] = "K"
    BY <1>d, <2>1, <2>2, <2>6 DEF BodyInv, Waiting
  <2>13. \A v \in Workers : fd[v] \in Clients /\ wpc'[v] # "close" =>
            body[fd[v]] = << >> /\ down[fd[v]] = << >>
    BY <2>2, <2>6, <2>7 DEF BodyInv, Waiting
  <2> QED
    BY <2>1, <2>2, <2>10, <2>11, <2>12, <2>13, ZenonT(60) DEF BodyInv, Waiting
<1>11. ASSUME NEW w \in Workers, OkayData(w) PROVE BodyInv'
  <2>1. /\ UNCHANGED << body, conn, newfd, wq, req, cpc, fd, ptr, rlen, rhdr >> /\ Running
        /\ wpc' = [wpc EXCEPT ![w] = wpc'[w]]
        /\ wpc[w] = "okaydata" /\ wpc'[w] = "close"
    BY <1>11, SocketFrame DEF OkayData
  <2>2. PICK c \in Clients : c = fd[w]
    BY <1>d, <2>1
  <2>3. /\ Len(down'[c]) = rlen[c]
        /\ \A d \in Clients \ {c} : down'[d] = down[d]
        /\ \A v \in Workers \ {w} : wpc'[v] = wpc[v]
    <3>1. /\ down'[c] = [i \in 1 .. rlen[c] |-> IF ptr[w].freed THEN JUNK ELSE ptr[w].val[i]]
          /\ \A d \in Clients \ {c} : down'[d] = down[d]
      BY <1>11, <1>b, <2>2 DEF OkayData
    <3>2. rlen[c] \in Nat
      BY DEF TypeOK
    <3> QED
      BY <1>b, <2>1, <3>1, <3>2
  <2>4. /\ body[c] = << >> /\ conn[c] = "open" /\ newfd # c
        /\ \A i \in 1 .. Len(wq) : wq[i] # c
        /\ \A v \in Workers : fd[v] = c => v = w
    BY <2>1, <2>2 DEF BodyInv, Waiting, PlaceInv
  <2>5. rlen[c] \in Nat
    BY DEF TypeOK
  <2>6. \A d \in Clients : /\ Len(body[d]) + Len(down'[d]) <= rlen[d]
                           /\ conn[d] \in {"none", "backlog"} => body[d] = << >> /\ down'[d] = << >>
    <3>1. Len(body[c]) = 0 /\ 0 + rlen[c] <= rlen[c]
      BY <2>4, <2>5
    <3>2. Len(body[c]) + Len(down'[c]) <= rlen[c]
      BY <2>3, <3>1, Zenon
    <3>3. \A d \in Clients \ {c} : Len(body[d]) + Len(down'[d]) <= rlen[d]
      BY <2>3 DEF BodyInv, Waiting
    <3>4. \A d \in Clients \ {c} :
             conn[d] \in {"none", "backlog"} => body[d] = << >> /\ down'[d] = << >>
      BY <2>3 DEF BodyInv, Waiting
    <3> QED
      BY <2>4, <3>2, <3>3, <3>4
  <2>7. /\ newfd \in Clients => body[newfd] = << >> /\ down'[newfd] = << >>
        /\ \A i \in 1 .. Len(wq) :
             wq[i] \in Clients => body[wq[i]] = << >> /\ down'[wq[i]] = << >>
    BY <2>3, <2>4 DEF BodyInv, Waiting
  <2>8. \A v \in Workers : fd[v] \in Clients /\ wpc'[v] # "close" =>
            body[fd[v]] = << >> /\ down'[fd[v]] = << >>
    BY <2>1, <2>3, <2>4 DEF BodyInv, Waiting
  <2>9. \A v \in Workers : wpc'[v] = "okaydata" => wpc[v] = "okaydata"
    BY <2>1, <2>3
  <2> QED
    BY <2>1, <2>6, <2>7, <2>8, <2>9 DEF BodyInv, Waiting
<1>12. ASSUME NEW w \in Workers, Fail(w) PROVE BodyInv'
  <2>1. /\ UNCHANGED << body, down, rlen, conn, newfd, wq, req, cpc, fd, ptr, process >>
        /\ wpc' = [wpc EXCEPT ![w] = wpc'[w]]
        /\ wpc[w] = "fail" /\ wpc'[w] = "close"
    BY <1>12, SocketFrame DEF Fail
  <2>2. \A v \in Workers \ {w} : wpc'[v] = wpc[v]
    BY <1>b, <2>1
  <2>3. \A v \in Workers : wpc[v] = "okaydata" => rhdr'[fd[v]] = rhdr[fd[v]]
    <3> SUFFICES ASSUME NEW v \in Workers, wpc[v] = "okaydata" PROVE rhdr'[fd[v]] = rhdr[fd[v]]
      OBVIOUS
    <3>1. fd[v] \in Clients /\ fd[v] # fd[w]
      BY <1>d, <2>1
    <3> QED
      BY <1>12, <1>b, <3>1 DEF Fail
  <2>4. \A v \in Workers : fd[v] \in Clients /\ wpc'[v] # "close" =>
            body[fd[v]] = << >> /\ down[fd[v]] = << >>
    BY <2>1, <2>2 DEF BodyInv, Waiting
  <2>5. \A v \in Workers : wpc'[v] = "okaydata" =>
          /\ rlen[fd[v]] > 0 /\ req[fd[v]].op = "R"
          /\ ~ ptr[v].freed => rlen[fd[v]] = Len(ptr[v].val)
          /\ Running => \/ cpc[fd[v]] \in {"body", "dead"}
                        \/ cpc[fd[v]] \in Waiting /\ rhdr'[fd[v]] = "K"
    BY <2>1, <2>2, <2>3 DEF BodyInv, Waiting
  <2> QED
    BY <2>1, <2>4, <2>5 DEF BodyInv, Waiting, Running
<1>13. ASSUME NEW w \in Workers, Close(w) PROVE BodyInv'
  <2>1. /\ UNCHANGED << body, down, rlen, rhdr, newfd, wq, req, cpc, process >>
        /\ fd'[w] = NULL /\ wpc'[w] = "dequeue"
        /\ \A v \in Workers \ {w} : fd'[v] = fd[v] /\ wpc'[v] = wpc[v] /\ ptr'[v] = ptr[v]
    BY <1>13, <1>b DEF Close, GoTo
  <2>2. fd[w] \in Clients \cup {BADFD}
    BY <1>13 DEF FdInv, TypeOK, Close, At
  <2>3. \A c \in Clients : conn'[c] = conn[c] \/ conn'[c] = "closed"
    BY <1>13, <1>b, <2>2 DEF Close
  <2>4. \A v \in Workers : fd'[v] \in Clients /\ wpc'[v] # "close" =>
            body[fd'[v]] = << >> /\ down[fd'[v]] = << >>
    BY <1>a, <2>1 DEF BodyInv, Waiting
  <2>5. \A v \in Workers : wpc'[v] = "okaydata" =>
          /\ rlen[fd'[v]] > 0 /\ req[fd'[v]].op = "R"
          /\ ~ ptr'[v].freed => rlen[fd'[v]] = Len(ptr'[v].val)
          /\ Running => \/ cpc[fd'[v]] \in {"body", "dead"}
                        \/ cpc[fd'[v]] \in Waiting /\ rhdr[fd'[v]] = "K"
    BY <2>1 DEF BodyInv, Waiting
  <2>6. \A c \in Clients : conn'[c] \in {"none", "backlog"} => body[c] = << >> /\ down[c] = << >>
    BY <2>3 DEF BodyInv, Waiting
  <2> QED
    BY <2>1, <2>4, <2>5, <2>6 DEF BodyInv, Waiting, Running
<1>14. CASE Admin
  BY <1>14, ConsoleFrame DEF BodyInv, Waiting
<1> QED
  BY <1>1, <1>2, <1>3, <1>4, <1>5, <1>6, <1>7, <1>8, <1>9, <1>10, <1>11, <1>12, <1>13, <1>14
  DEF Next, ClientStep, Listener, Admin, WorkerStep, Serve

-----------------------------------------------------------------------------
(***************************************************************************)
(* The table and the counters.                                             *)
(***************************************************************************)
\* Only the kv_* calls change the table.
LEMMA StoreFrame ==
    ASSUME TypeOK, Next
    PROVE  \/ \E w \in Workers : KvWrite(w) \/ KvDelete(w)
           \/ UNCHANGED << table, size, wanted >>
<1> USE DEF storeVars
<1>1. ASSUME NEW c \in Clients, NEW r \in Requests, Connect(c, r) PROVE UNCHANGED << table, size, wanted >>
  BY <1>1 DEF Connect
<1>2. ASSUME NEW c \in Clients, ClientStep(c) \/ Die(c) PROVE UNCHANGED << table, size, wanted >>
  BY <1>2, ClientFrame
<1>3. CASE Accept \/ Enqueue \/ Admin
  BY <1>3 DEF Accept, Enqueue, Admin, ConsoleCommand, ConsoleCleanup, Sigint, Socket, Bind
<1>4. ASSUME NEW w \in Workers, Dequeue(w) \/ Close(w) \/ Receive(w) \/ ReceiveEmpty(w)
      PROVE  UNCHANGED << table, size, wanted >>
  BY <1>4 DEF Dequeue, Close, Receive, ReceiveEmpty
<1>5. ASSUME NEW w \in Workers, Dispatch(w) \/ ShortRead(w) \/ ReceiveNothing(w) \/ KvFull(w) \/ KvRead(w)
      PROVE  UNCHANGED << table, size, wanted >>
  BY <1>5 DEF Dispatch, ShortRead, ReceiveNothing, KvFull, KvRead
<1>6. ASSUME NEW w \in Workers, Okay(w) \/ OkayData(w) \/ Fail(w) \/ WorkerCleanup(w)
      PROVE  UNCHANGED << table, size, wanted >>
  BY <1>6 DEF Okay, OkayData, Fail, WorkerCleanup
<1> QED
  BY <1>1, <1>2, <1>3, <1>4, <1>5, <1>6 DEF Next, Listener, Admin, WorkerStep

\* A worker in a kv_* call serves a request of its client.
LEMMA KvRequest ==
    ASSUME TypeOK, FdInv, ClientInv, NEW w \in Workers,
           wpc[w] \in {"payload", "kv_write", "kv_read", "kv_delete", "okay", "okaydata"}
    PROVE  /\ fd[w] \in Clients /\ req[fd[w]] \in Requests
           /\ req[fd[w]].key \in Keys /\ req[fd[w]].data \in Strings
<1>1. fd[w] \in Clients
  BY DEF FdInv, TypeOK
<1>2. req[fd[w]] \in Requests
  BY <1>1 DEF ClientInv
<1> QED
  BY <1>1, <1>2, RequestType

LEMMA StoreNext ==
    ASSUME TypeOK, FdInv, ClientInv, StoreInv, Next
    PROVE  StoreInv' /\ table' \in Table /\ size' \in 0 .. TABLE_MAX
<1>a. /\ table \in Table /\ WellFormed(table) /\ size \in 0 .. TABLE_MAX
      /\ \A k \in Keys : ValueOf(table, k) \in Strings \cup {NULL}
      /\ Cardinality(Stored(table)) \in Nat /\ Cardinality(Stored(table)) <= size
  BY StoredFinite DEF TypeOK, StoreInv
<1>b. TABLE_MAX \in Nat /\ Strings \subseteq Vals
  BY SizesAssumption, RequestsAssumption
<1>1. ASSUME NEW w \in Workers, KvWrite(w) PROVE StoreInv' /\ table' \in Table /\ size' \in 0 .. TABLE_MAX
  <2> DEFINE k == req[fd[w]].key
  <2>1. k \in Keys /\ buf[w] \in Strings /\ buf[w] \in Vals
    BY <1>1, <1>b, KvRequest DEF KvWrite, At, TypeOK
  <2>2. /\ table' = Written(table, k, buf[w])
        /\ k \in Stored(table) => size' = size
        /\ k \notin Stored(table) => size' = size + 1 /\ size # TABLE_MAX
    BY <1>1, <2>1 DEF KvWrite, Stored
  <2> HIDE DEF k
  <2>3. /\ table' \in Table /\ WellFormed(table')
        /\ Stored(table') = Stored(table) \cup {k}
        /\ \A x \in Keys : ValueOf(table', x) = IF x = k THEN buf[w] ELSE ValueOf(table, x)
    BY <1>a, <2>1, <2>2, WrittenProperties
  <2>4. \A x \in Keys : ValueOf(table', x) \in Strings \cup {NULL}
    BY <1>a, <2>1, <2>3
  <2>5. Cardinality(Stored(table')) <= size' /\ size' \in 0 .. TABLE_MAX
    <3>1. CASE k \in Stored(table)
      <4>1. Stored(table') = Stored(table)
        BY <2>3, <3>1
      <4> QED
        BY <1>a, <2>2, <3>1, <4>1
    <3>2. CASE k \notin Stored(table)
      <4>1. Cardinality(Stored(table')) = Cardinality(Stored(table)) + 1
        BY <2>3, <3>2, StoredFinite, FS_AddElement
      <4> QED
        BY <1>a, <1>b, <2>2, <3>2, <4>1
    <3> QED
      BY <3>1, <3>2
  <2>6. StoreInv'
    BY <2>3, <2>4, <2>5 DEF StoreInv
  <2> QED
    BY <2>3, <2>5, <2>6
<1>2. ASSUME NEW w \in Workers, KvDelete(w) PROVE StoreInv' /\ table' \in Table /\ size' \in 0 .. TABLE_MAX
  <2> DEFINE k == req[fd[w]].key
  <2>1. k \in Keys
    BY <1>2, KvRequest DEF KvDelete, At
  <2>2. /\ table' = Deleted(table, k)
        /\ k \in Stored(table) => size' = size - 1
        /\ k \notin Stored(table) => size' = size
    BY <1>2, <2>1 DEF KvDelete, Stored
  <2> HIDE DEF k
  <2>3. /\ table' \in Table /\ WellFormed(table')
        /\ Stored(table') \subseteq Stored(table) \ {k}
        /\ k \notin Stored(table) => table' = table
    BY <1>a, <2>1, <2>2, DeletedProperties
  <2>4. \A x \in Keys : ValueOf(table', x) \in Strings \cup {NULL}
    <3>1. \A x \in Keys : ValueOf(table', x) \in {ValueOf(table, x), NULL}
      BY <1>a, <2>1, <2>2, DeletedProperties
    <3> QED
      BY <1>a, <3>1
  <2>5. Cardinality(Stored(table')) <= size' /\ size' \in 0 .. TABLE_MAX
    <3>1. CASE k \in Stored(table)
      <4>1. /\ Cardinality(Stored(table) \ {k}) = Cardinality(Stored(table)) - 1
            /\ IsFiniteSet(Stored(table) \ {k})
        BY <3>1, StoredFinite, FS_RemoveElement
      <4>2. Cardinality(Stored(table')) <= Cardinality(Stored(table)) - 1
        BY <2>3, <4>1, FS_Subset
      <4>3. Cardinality(Stored(table')) \in Nat
        BY StoredFinite
      <4> QED
        BY <1>a, <1>b, <2>2, <3>1, <4>2, <4>3
    <3>2. CASE k \notin Stored(table)
      BY <1>a, <2>2, <2>3, <3>2
    <3> QED
      BY <3>1, <3>2
  <2>6. StoreInv'
    BY <2>3, <2>4, <2>5 DEF StoreInv
  <2> QED
    BY <2>3, <2>5, <2>6
<1>3. CASE UNCHANGED << table, size, wanted >>
  BY <1>3, <1>a DEF StoreInv
<1> QED
  BY <1>1, <1>2, <1>3, StoreFrame

\* n_fails goes up with every step to resp_fail, and with no other.
LEMMA CountStep ==
    ASSUME TypeOK, Next
    PROVE  /\ stat' \in [Counters -> Nat]
           /\ \/ /\ stat'["fail"] = stat["fail"]
                 /\ \A w \in Workers : wpc'[w] = "fail" <=> wpc[w] = "fail"
              \/ \E w \in Workers :
                   /\ stat'["fail"] = stat["fail"] + 1
                   /\ UNCHANGED << answer, rhdr >>
                   /\ wpc[w] # "fail" /\ wpc'[w] = "fail"
                   /\ \A v \in Workers \ {w} : wpc'[v] = wpc[v]
              \/ \E w \in Workers : Fail(w) /\ stat' = stat
<1> USE DEF clientVars, socketVars, workerVars, storeVars, adminVars, At, GoTo
<1>a. /\ wpc = [v \in Workers |-> wpc[v]] /\ stat \in [Counters -> Nat]
      /\ "fail" \in Counters /\ "W" \in Counters /\ "R" \in Counters /\ "D" \in Counters
  BY DEF TypeOK, Counters
<1>b. \A n \in Counters : Count(n) => /\ stat' \in [Counters -> Nat]
                                      /\ stat'["fail"] = IF n = "fail" THEN stat["fail"] + 1 ELSE stat["fail"]
  BY <1>a DEF Count
<1> DEFINE Quiet == /\ stat' \in [Counters -> Nat] /\ stat'["fail"] = stat["fail"]
                    /\ \A v \in Workers : wpc'[v] = "fail" <=> wpc[v] = "fail"
           Up(w) == /\ stat' \in [Counters -> Nat]
                    /\ stat'["fail"] = stat["fail"] + 1
                    /\ UNCHANGED << answer, rhdr >>
                    /\ wpc[w] # "fail" /\ wpc'[w] = "fail"
                    /\ \A v \in Workers \ {w} : wpc'[v] = wpc[v]
<1>1. ASSUME NEW c \in Clients, NEW r \in Requests, Connect(c, r) PROVE Quiet
  BY <1>1, <1>a DEF Connect
<1>2. ASSUME NEW c \in Clients, ClientStep(c) \/ Die(c) PROVE Quiet
  BY <1>2, <1>a, ClientFrame
<1>3. CASE Accept \/ Enqueue \/ Admin
  <2>1. Quiet
    BY <1>3, <1>a DEF Accept, Enqueue, Admin, ConsoleCommand, ConsoleCleanup, Sigint, Socket, Bind
  <2> QED
    BY <2>1
<1>4. ASSUME NEW w \in Workers, Dequeue(w) \/ Close(w) \/ Receive(w) \/ ReceiveEmpty(w) PROVE Quiet
  BY <1>4, <1>a DEF Dequeue, Close, Receive, ReceiveEmpty
<1>5. ASSUME NEW w \in Workers, Dispatch(w) PROVE Quiet \/ Up(w)
  BY <1>5, <1>a, <1>b DEF Dispatch
<1>6. ASSUME NEW w \in Workers, ShortRead(w) \/ ReceiveNothing(w) \/ KvFull(w) PROVE Up(w)
  BY <1>6, <1>a, <1>b DEF ShortRead, ReceiveNothing, KvFull
<1>7. ASSUME NEW w \in Workers, KvRead(w) PROVE Quiet \/ Up(w)
  BY <1>7, <1>a, <1>b DEF KvRead
<1>8. ASSUME NEW w \in Workers, KvWrite(w) \/ KvDelete(w) PROVE Quiet
  BY <1>8, <1>a DEF KvWrite, KvDelete
<1>9. ASSUME NEW w \in Workers, OkayData(w) \/ WorkerCleanup(w) PROVE Quiet
  BY <1>9, <1>a DEF OkayData, WorkerCleanup
<1>10. ASSUME NEW w \in Workers, Okay(w) PROVE Quiet
  <2>1. wpc[w] = "okay" /\ wpc'[w] # "fail" /\ wpc' = [wpc EXCEPT ![w] = wpc'[w]] /\ stat' = stat
    BY <1>10, SocketFrame DEF Okay
  <2> QED
    BY <1>a, <2>1
<1>11. ASSUME NEW w \in Workers, Fail(w) PROVE stat' = stat
  BY <1>11 DEF Fail
<1> QED
  BY <1>1, <1>2, <1>3, <1>4, <1>5, <1>6, <1>7, <1>8, <1>9, <1>10, <1>11, <1>a
  DEF Next, Listener, Admin, WorkerStep

Failed == {c \in Clients : rhdr[c] = "X" \/ answer[c] = "X"}
Failing == {w \in Workers : wpc[w] = "fail"}

LEMMA FailedMeaning ==
    /\ Failed = {c \in Clients : "X" \in Told(c)}
    /\ IsFiniteSet(Failed) /\ Cardinality(Failed) \in Nat
    /\ IsFiniteSet(Failing) /\ Cardinality(Failing) \in Nat
<1>1. NULL # "X" /\ IsFiniteSet(Clients) /\ IsFiniteSet(Workers)
  BY ThreadsAssumption
<1>2. \A c \in Clients : "X" \in Told(c) <=> rhdr[c] = "X" \/ answer[c] = "X"
  BY <1>1 DEF Told
<1>3. Failed \in SUBSET Clients /\ Failing \in SUBSET Workers
  BY DEF Failed, Failing
<1>4. /\ IsFiniteSet(Failed) /\ Cardinality(Failed) \in Nat
      /\ IsFiniteSet(Failing) /\ Cardinality(Failing) \in Nat
  BY <1>1, <1>3, FS_Subset, FS_CardinalityType
<1>5. Failed = {c \in Clients : "X" \in Told(c)}
  BY <1>2 DEF Failed
<1> QED
  BY <1>4, <1>5

\* Nobody but resp_fail makes a client one that failed.
LEMMA FailedFrame ==
    ASSUME TypeOK, PlaceInv, FdInv, ClientInv, ReplyInv, Next, ~ \E w \in Workers : Fail(w)
    PROVE  Failed' = Failed
<1> USE DEF clientVars, socketVars
<1>a. rhdr = [c \in Clients |-> rhdr[c]] /\ answer = [c \in Clients |-> answer[c]]
  BY DEF TypeOK
<1>b. NULL # "X" /\ NULL # "K"
  BY ThreadsAssumption
<1>1. ASSUME NEW c \in Clients, NEW r \in Requests, Connect(c, r) PROVE Failed' = Failed
  BY <1>1 DEF Connect, Failed
<1>2. ASSUME NEW c \in Clients, SendHeader(c) \/ SendData(c) \/ ShortReply(c) \/ ReadBody(c) \/ Die(c)
      PROVE  Failed' = Failed
  BY <1>2 DEF SendHeader, SendData, ShortReply, ReadBody, Die, Failed
<1>3. ASSUME NEW c \in Clients, ReadReply(c) PROVE Failed' = Failed
  <2>1. /\ rhdr'[c] = NULL /\ answer'[c] = rhdr[c] /\ answer[c] = NULL
        /\ \A d \in Clients \ {c} : rhdr'[d] = rhdr[d] /\ answer'[d] = answer[d]
    BY <1>3, <1>a DEF ReadReply, ClientInv
  <2> QED
    BY <1>b, <2>1 DEF Failed
<1>4. CASE Accept \/ Enqueue \/ Admin
  BY <1>4 DEF Accept, Enqueue, Admin, ConsoleCommand, ConsoleCleanup, Sigint, Socket, Bind, Failed
<1>5. ASSUME NEW w \in Workers, Dequeue(w) \/ Close(w) \/ Dispatch(w) \/ Receive(w) PROVE Failed' = Failed
  BY <1>5 DEF Dequeue, Close, Dispatch, Receive, Failed
<1>6. ASSUME NEW w \in Workers, Serve(w) PROVE Failed' = Failed
  BY <1>6, ServeFrame DEF Failed
<1>7. ASSUME NEW w \in Workers, Okay(w) PROVE Failed' = Failed
  <2>1. wpc[w] = "okay" /\ answer' = answer /\ rhdr' = [rhdr EXCEPT ![fd[w]] = "K"]
    BY <1>7 DEF Okay, At
  <2>2. fd[w] \in Clients
    BY <2>1 DEF FdInv, TypeOK
  <2>3. rhdr[fd[w]] = NULL /\ answer[fd[w]] = NULL
    BY <2>1, <2>2 DEF ReplyInv, Answered
  <2> QED
    BY <1>a, <1>b, <2>1, <2>2, <2>3 DEF Failed
<1>8. ASSUME NEW w \in Workers, OkayData(w) PROVE Failed' = Failed
  BY <1>8 DEF OkayData, Failed
<1> QED
  BY <1>1, <1>2, <1>3, <1>4, <1>5, <1>6, <1>7, <1>8
  DEF Next, ClientStep, Listener, Admin, WorkerStep, Serve

\* Once accept fails it fails for good: socket() is called once.
LEMMA AcceptFrame ==
    ASSUME TypeOK, Next
    PROVE  AcceptFails => AcceptFails'
<1> USE DEF adminVars, AcceptFails
<1>a. listening \in BOOLEAN
  BY DEF TypeOK
<1>1. ASSUME NEW c \in Clients, NEW r \in Requests, Connect(c, r) PROVE AcceptFails => AcceptFails'
  BY <1>1 DEF Connect
<1>2. ASSUME NEW c \in Clients, ClientStep(c) \/ Die(c) PROVE AcceptFails => AcceptFails'
  BY <1>2, ClientFrame
<1>3. CASE Accept \/ Enqueue
  BY <1>3 DEF Accept, Enqueue
<1>4. CASE Admin
  BY <1>4, <1>a DEF Admin, ConsoleCommand, ConsoleCleanup, Sigint, Socket, Bind, CleanupClose
<1>5. ASSUME NEW w \in Workers, Dequeue(w) \/ Close(w) PROVE AcceptFails => AcceptFails'
  BY <1>5 DEF Dequeue, Close
<1>6. ASSUME NEW w \in Workers, Handler(w) PROVE AcceptFails => AcceptFails'
  BY <1>6, ServeFrame, SocketFrame DEF Handler
<1> QED
  BY <1>1, <1>2, <1>3, <1>4, <1>5, <1>6
  DEF Next, Listener, Admin, WorkerStep, Handler, Serve

LEMMA FailuresNext ==
    ASSUME TypeOK, PlaceInv, FdInv, ClientInv, ReplyInv, FailuresMatchReplies, Next
    PROVE  FailuresMatchReplies'
<1>0. Failed' = {c \in Clients : "X" \in Told(c)'}
  <2>1. \A c \in Clients : "X" \in Told(c)' <=> rhdr'[c] = "X" \/ answer'[c] = "X"
    BY ThreadsAssumption DEF Told
  <2> QED
    BY <2>1 DEF Failed
<1> SUFFICES ASSUME ~ AcceptFails'
             PROVE  stat'["fail"] = Cardinality(Failed') + Cardinality(Failing')
  BY <1>0 DEF FailuresMatchReplies, Failing
<1>1. ~ AcceptFails /\ stat["fail"] = Cardinality(Failed) + Cardinality(Failing)
  BY AcceptFrame, FailedMeaning DEF FailuresMatchReplies, Failing
<1>2. ASSUME NEW w \in Workers, Fail(w), stat' = stat
      PROVE  stat'["fail"] = Cardinality(Failed') + Cardinality(Failing')
  <2>1. wpc[w] = "fail" /\ answer' = answer
    BY <1>2 DEF Fail, At, clientVars
  <2>2. fd[w] \in Clients
    BY <1>1, <2>1 DEF FdInv, TypeOK
  <2>3. rhdr' = [rhdr EXCEPT ![fd[w]] = "X"] /\ wpc' = [wpc EXCEPT ![w] = "close"]
    BY <1>2, <2>2, ThreadsAssumption DEF Fail, GoTo
  <2>4. rhdr[fd[w]] = NULL /\ answer[fd[w]] = NULL /\ NULL # "X"
    BY <2>1, <2>2, ThreadsAssumption DEF ReplyInv, Answered
  <2>5. Failed' = Failed \cup {fd[w]} /\ fd[w] \notin Failed
    BY <2>1, <2>2, <2>3, <2>4 DEF Failed, TypeOK
  <2>6. Failing' = Failing \ {w} /\ w \in Failing
    BY <2>1, <2>3 DEF Failing, TypeOK
  <2>7. Cardinality(Failed') = Cardinality(Failed) + 1
    BY <2>5, FailedMeaning, FS_AddElement
  <2>8. Cardinality(Failing') = Cardinality(Failing) - 1
    BY <2>6, FailedMeaning, FS_RemoveElement
  <2> QED
    BY <1>1, <1>2, <2>7, <2>8, FailedMeaning
<1>3. CASE ~ \E w \in Workers : Fail(w)
  <2>1. Failed' = Failed
    BY <1>3, FailedFrame
  <2>2. CASE /\ stat'["fail"] = stat["fail"]
             /\ \A w \in Workers : wpc'[w] = "fail" <=> wpc[w] = "fail"
    <3>1. Failing' = Failing
      BY <2>2 DEF Failing
    <3> QED
      BY <1>1, <2>1, <2>2, <3>1
  <2>3. ASSUME NEW w \in Workers, stat'["fail"] = stat["fail"] + 1,
               wpc[w] # "fail" /\ wpc'[w] = "fail",
               \A v \in Workers \ {w} : wpc'[v] = wpc[v]
        PROVE  stat'["fail"] = Cardinality(Failed') + Cardinality(Failing')
    <3>1. Failing' = Failing \cup {w} /\ w \notin Failing
      BY <2>3 DEF Failing
    <3>2. Cardinality(Failing') = Cardinality(Failing) + 1
      BY <3>1, FailedMeaning, FS_AddElement
    <3> QED
      BY <1>1, <2>1, <2>3, <3>2, FailedMeaning
  <2> QED
    BY <1>3, <2>2, <2>3, CountStep
<1>4. \A w \in Workers : Fail(w) => stat' = stat
  BY DEF Fail, storeVars
<1> QED
  BY <1>2, <1>3, <1>4

-----------------------------------------------------------------------------
(***************************************************************************)
(* The shutdown.                                                           *)
(***************************************************************************)
LEMMA ExitNext ==
    ASSUME TypeOK, FdInv, ClientInv, BodyInv, ExitInv, Next
    PROVE  ExitInv'
<1> USE DEF clientVars, socketVars, workerVars, adminVars
<1>a. /\ wpc = [v \in Workers |-> wpc[v]] /\ cpc = [c \in Clients |-> cpc[c]]
      /\ rhdr = [c \in Clients |-> rhdr[c]]
      /\ req = [c \in Clients |-> req[c]] /\ listening \in BOOLEAN
  BY DEF TypeOK
<1>1. ASSUME NEW c \in Clients, NEW r \in Requests, Connect(c, r) PROVE ExitInv'
  <2>1. /\ UNCHANGED << wpc, console, lpc, listening, process, rhdr >> /\ cpc[c] = "start"
        /\ \A d \in Clients \ {c} : cpc'[d] = cpc[d] /\ req'[d] = req[d]
    BY <1>1, <1>a DEF Connect
  <2> QED
    BY <2>1 DEF ExitInv
<1>2. ASSUME NEW c \in Clients, ClientStep(c) \/ Die(c) PROVE ExitInv'
  <2>1. UNCHANGED << wpc, console, lpc, listening, process, req >>
    BY <1>2, ClientFrame
  <2>2. /\ cpc[c] \notin {"dead", "done"}
        /\ \A d \in Clients \ {c} : cpc'[d] = cpc[d] /\ rhdr'[d] = rhdr[d]
    BY <1>2, <1>a DEF ClientStep, SendHeader, SendData, ReadReply, ShortReply, ReadBody, Die
  <2> QED
    BY <2>1, <2>2 DEF ExitInv
<1>3. CASE Accept \/ Enqueue
  BY <1>3 DEF Accept, Enqueue, ExitInv
<1>4. ASSUME NEW w \in Workers, Dequeue(w) \/ Close(w) PROVE ExitInv'
  <2>1. /\ UNCHANGED << cpc, req, rhdr, console, lpc, listening, process >>
        /\ wpc[w] # "exit" /\ \A v \in Workers \ {w} : wpc'[v] = wpc[v]
    BY <1>4, <1>a DEF Dequeue, Close, At, GoTo
  <2> QED
    BY <2>1 DEF ExitInv
<1>5. ASSUME NEW w \in Workers, Dispatch(w) \/ Receive(w) \/ Okay(w) \/ Fail(w) PROVE ExitInv'
  <2>1. /\ UNCHANGED << cpc, req, console, lpc, listening >> /\ process' = process
        /\ wpc[w] # "exit" /\ wpc' = [wpc EXCEPT ![w] = wpc'[w]]
    <3>1. ~ OkayData(w)
      BY <1>5 DEF Dispatch, Receive, Okay, Fail, OkayData, At
    <3> QED
      BY <1>5, <3>1, SocketFrame
  <2>2. \A v \in Workers \ {w} : wpc'[v] = wpc[v]
    BY <1>a, <2>1
  <2>3. Running
    BY <1>5, SocketFrame
  <2> QED
    BY <2>1, <2>2, <2>3 DEF ExitInv, Running
<1>6. ASSUME NEW w \in Workers, OkayData(w) PROVE ExitInv'
  <2>1. /\ UNCHANGED << cpc, req, rhdr, console, lpc, listening >> /\ Running
        /\ wpc[w] = "okaydata" /\ wpc' = [wpc EXCEPT ![w] = wpc'[w]]
    BY <1>6, SocketFrame DEF OkayData
  <2>2. \A v \in Workers \ {w} : wpc'[v] = wpc[v]
    BY <1>a, <2>1
  <2>3. fd[w] \in Clients
    BY <2>1, ZenonT(60) DEF FdInv, TypeOK
  <2>4. process' = process \/ (process' = "sigpipe" /\ cpc[fd[w]] \in {"done", "dead"})
    BY <1>6 DEF OkayData, Hangup
  <2>5. /\ req[fd[w]].op = "R"
        /\ cpc[fd[w]] = "done" => Fragmented /\ rhdr[fd[w]] = "K"
    BY <2>1, <2>3 DEF BodyInv, Waiting
  <2> QED
    BY <2>1, <2>2, <2>3, <2>4, <2>5 DEF ExitInv, Running
<1>7. ASSUME NEW w \in Workers, Serve(w), ~ WorkerCleanup(w) PROVE ExitInv'
  <2>1. /\ UNCHANGED << cpc, req, rhdr, console, lpc, listening, process >>
        /\ wpc[w] # "exit" /\ \A v \in Workers \ {w} : wpc'[v] = wpc[v]
    <3>1. UNCHANGED << cpc, req, rhdr, console, lpc >> /\ wpc' = [wpc EXCEPT ![w] = wpc'[w]]
      BY <1>7, ServeFrame
    <3>2. wpc[w] # "exit" /\ UNCHANGED << listening, process >>
      BY <1>7 DEF Serve, ShortRead, ReceiveNothing, ReceiveEmpty, KvWrite, KvFull, KvRead, KvDelete, At
    <3> QED
      BY <1>a, <3>1, <3>2
  <2> QED
    BY <2>1 DEF ExitInv
<1>8. ASSUME NEW w \in Workers, WorkerCleanup(w) PROVE ExitInv'
  <2>1. UNCHANGED << cpc, req, rhdr, console, lpc >> /\ process = "running"
    BY <1>8 DEF WorkerCleanup, At, Running
  <2>2. CASE wpc[w] = "cleanup"
    <3>1. wpc'[w] = "exit" /\ \A v \in Workers \ {w} : wpc'[v] = wpc[v]
      BY <1>8, <1>a, <2>2 DEF WorkerCleanup, At, GoTo
    <3>2. \/ listening /\ process' = process
          \/ ~ listening /\ process' = "exit1"
      BY <1>8, <2>2 DEF WorkerCleanup, At, CleanupClose
    <3> QED
      BY <2>1, <2>2, <3>1, <3>2 DEF ExitInv
  <2>3. CASE wpc[w] = "exit"
    BY <1>8, <2>1, <2>3 DEF WorkerCleanup, At, ExitInv
  <2> QED
    BY <1>8, <2>2, <2>3 DEF WorkerCleanup, At
<1>9. CASE ConsoleCommand \/ Sigint
  BY <1>9 DEF ConsoleCommand, Sigint, ExitInv, Running
<1>10. CASE ConsoleCleanup
  BY <1>10, <1>a DEF ConsoleCleanup, CleanupClose, ExitInv, Running
<1>11. CASE Socket \/ Bind
  BY <1>11 DEF Socket, Bind, ExitInv, Running
<1> QED
  BY <1>1, <1>2, <1>3, <1>4, <1>5, <1>6, <1>7, <1>8, <1>9, <1>10, <1>11
  DEF Next, Listener, Admin, WorkerStep, Serve

-----------------------------------------------------------------------------
(***************************************************************************)
(* Types.                                                                  *)
(***************************************************************************)
ClientTypes ==
    /\ cpc \in [Clients -> {"start", "header", "data", "reply", "body", "done", "dead"}]
    /\ req \in [Clients -> Requests \cup {NULL}]
    /\ answer \in [Clients -> {NULL, "K", "X"}]
    /\ body \in [Clients -> Strings]

SocketTypes ==
    /\ conn \in [Clients -> {"none", "backlog", "open", "closed"}]
    /\ hdr \in [Clients -> BOOLEAN]
    /\ up \in [Clients -> Strings]
    /\ rhdr \in [Clients -> {NULL, "K", "X"}]
    /\ rlen \in [Clients -> 0 .. 2]
    /\ down \in [Clients -> Strings]

QueueTypes ==
    /\ backlog \in Seq(Clients)
    /\ newfd \in Clients \cup {NULL, BADFD}
    /\ wq \in Seq(Clients \cup {BADFD})

WorkerTypes ==
    /\ wpc \in [Workers -> {"dequeue", "recv", "payload", "kv_write", "kv_read",
                            "kv_delete", "okay", "okaydata", "fail", "close",
                            "cleanup", "exit"}]
    /\ fd \in [Workers -> Clients \cup {NULL, BADFD}]
    /\ buf \in [Workers -> Strings]
    /\ got \in [Workers -> 0 .. 2]
    /\ ptr \in [Workers -> [key : Keys \cup {NULL}, val : Strings, freed : BOOLEAN]]

AdminTypes ==
    /\ console \in {"prompt", "cleanup", "exit", "handler", "handled"}
    /\ lpc \in {"socket", "bind", "failed", "accept"}
    /\ listening \in BOOLEAN
    /\ process \in {"running", "exit0", "exit1", "sigpipe"}

LEMMA ClientTypesNext ==
    ASSUME TypeOK, PlaceInv, BodyInv, Next
    PROVE  ClientTypes'
<1> USE DEF clientVars
<1>a. ClientTypes
  BY DEF TypeOK, ClientTypes
<1>1. ASSUME NEW c \in Clients, NEW r \in Requests, Connect(c, r) PROVE ClientTypes'
  BY <1>1, <1>a DEF Connect, ClientTypes
<1>2. ASSUME NEW c \in Clients, SendHeader(c) \/ SendData(c) \/ ShortReply(c) \/ Die(c) PROVE ClientTypes'
  BY <1>2, <1>a DEF SendHeader, SendData, ShortReply, Die, ClientTypes
<1>3. ASSUME NEW c \in Clients, ReadReply(c) PROVE ClientTypes'
  <2>1. rhdr[c] \in {NULL, "K", "X"}
    BY DEF TypeOK
  <2> QED
    BY <1>3, <1>a, <2>1 DEF ReadReply, ClientTypes
<1>4. ASSUME NEW c \in Clients, ReadBody(c) PROVE ClientTypes'
  <2>1. PICK n \in ReadSizes(down[c]) : body' = [body EXCEPT ![c] = @ \o SubSeq(down[c], 1, n)]
    BY <1>4 DEF ReadBody
  <2>2. /\ down[c] \in Strings /\ body[c] \in Strings /\ rlen[c] \in 0 .. 2 /\ down[c] # << >>
        /\ Len(body[c]) + Len(down[c]) <= rlen[c]
    BY <1>4 DEF TypeOK, BodyInv, ReadBody
  <2> DEFINE s == SubSeq(down[c], 1, n)
  <2>3. s \in Strings /\ Len(s) = n /\ n \in 1 .. Len(down[c])
    BY <2>2, ReadPart
  <2> HIDE DEF s
  <2>4. /\ body[c] \in Seq(Bytes \cup {JUNK}) /\ s \in Seq(Bytes \cup {JUNK})
        /\ Len(body[c]) \in Nat /\ Len(down[c]) \in Nat
    BY <2>2, <2>3, StringLength
  <2>5. body[c] \o s \in Seq(Bytes \cup {JUNK}) /\ Len(body[c] \o s) = Len(body[c]) + n
    BY <2>3, <2>4, ConcatProperties
  <2>6. ASSUME NEW i \in Nat, NEW j \in Nat, NEW m \in 1 .. j, NEW l \in 0 .. 2, i + j <= l
        PROVE  i + m <= 2
    BY <2>6
  <2>7. Len(body[c]) + n <= 2
    BY <2>2, <2>3, <2>4, <2>6, Zenon
  <2>8. body[c] \o s \in Strings
    BY <2>5, <2>7, StringsMeaning
  <2>9. body' \in [Clients -> Strings]
    BY <1>a, <2>1, <2>8 DEF ClientTypes, s
  <2>10. /\ cpc' \in [Clients -> {"start", "header", "data", "reply", "body", "done", "dead"}]
         /\ UNCHANGED << req, answer >>
    BY <1>4, <1>a DEF ReadBody, ClientTypes
  <2> QED
    BY <1>a, <2>9, <2>10 DEF ClientTypes
<1>5. CASE Accept \/ Enqueue \/ Admin
  BY <1>5, <1>a DEF Accept, Enqueue, Admin, ConsoleCommand, ConsoleCleanup, Sigint, Socket, Bind, ClientTypes
<1>6. ASSUME NEW w \in Workers, Dequeue(w) \/ Close(w) PROVE ClientTypes'
  BY <1>6, <1>a DEF Dequeue, Close, ClientTypes
<1>7. ASSUME NEW w \in Workers, Handler(w) PROVE ClientTypes'
  BY <1>7, <1>a, HandlerFrame DEF ClientTypes
<1> QED
  BY <1>1, <1>2, <1>3, <1>4, <1>5, <1>6, <1>7
  DEF Next, ClientStep, Listener, Admin, WorkerStep, Handler, Serve

LEMMA SocketTypesNext ==
    ASSUME TypeOK, PlaceInv, FdInv, ClientInv, BodyInv, Next
    PROVE  SocketTypes'
<1> USE DEF socketVars
<1>a. SocketTypes
  BY DEF TypeOK, SocketTypes
<1>1. ASSUME NEW c \in Clients, NEW r \in Requests, Connect(c, r) PROVE SocketTypes'
  BY <1>1, <1>a DEF Connect, SocketTypes
<1>2. ASSUME NEW c \in Clients, SendHeader(c) \/ ReadReply(c) \/ ShortReply(c) \/ Die(c) PROVE SocketTypes'
  BY <1>2, <1>a DEF SendHeader, ReadReply, ShortReply, Die, SocketTypes
<1>3. ASSUME NEW c \in Clients, SendData(c) PROVE SocketTypes'
  <2>1. req[c].data \in Strings
    BY <1>3, RequestType DEF SendData, ClientInv
  <2> QED
    BY <1>3, <1>a, <2>1 DEF SendData, SocketTypes
<1>4. ASSUME NEW c \in Clients, ReadBody(c) PROVE SocketTypes'
  <2>1. PICK n \in ReadSizes(down[c]) : down' = [down EXCEPT ![c] = SubSeq(@, n + 1, Len(@))]
    BY <1>4 DEF ReadBody
  <2>2. down[c] \in Strings /\ down[c] # << >>
    BY <1>4 DEF TypeOK, ReadBody
  <2>3. SubSeq(down[c], n + 1, Len(down[c])) \in Strings
    BY <2>2, ReadPart
  <2>4. down' \in [Clients -> Strings]
    BY <1>a, <2>1, <2>3 DEF SocketTypes
  <2> QED
    BY <1>4, <1>a, <2>4 DEF ReadBody, SocketTypes
<1>5. CASE Accept
  <2>1. listening => Head(backlog) \in Clients
    BY <1>5 DEF Accept, TypeOK
  <2> QED
    BY <1>5, <1>a, <2>1 DEF Accept, SocketTypes
<1>6. CASE Enqueue \/ Admin
  BY <1>6, <1>a DEF Enqueue, Admin, ConsoleCommand, ConsoleCleanup, Sigint, Socket, Bind, SocketTypes
<1>7. ASSUME NEW w \in Workers, Dequeue(w) \/ Serve(w) PROVE SocketTypes'
  BY <1>7, <1>a, ServeFrame DEF Dequeue, SocketTypes
<1>8. ASSUME NEW w \in Workers, Dispatch(w) PROVE SocketTypes'
  BY <1>8, <1>a DEF Dispatch, SocketTypes
<1>9. ASSUME NEW w \in Workers, Receive(w) PROVE SocketTypes'
  <2>1. fd[w] \in Clients
    BY <1>9, KvRequest DEF Receive, At
  <2>2. PICK n \in ReadSizes(up[fd[w]]) : up' = [up EXCEPT ![fd[w]] = SubSeq(@, n + 1, Len(@))]
    BY <1>9 DEF Receive
  <2>3. up[fd[w]] \in Strings /\ up[fd[w]] # << >>
    BY <1>9, <2>1 DEF TypeOK, Receive
  <2>4. SubSeq(up[fd[w]], n + 1, Len(up[fd[w]])) \in Strings
    BY <2>3, ReadPart
  <2>5. up' \in [Clients -> Strings]
    BY <1>a, <2>1, <2>2, <2>4 DEF SocketTypes
  <2> QED
    BY <1>9, <1>a, <2>5 DEF Receive, SocketTypes
<1>10. ASSUME NEW w \in Workers, Okay(w) PROVE SocketTypes'
  <2>1. Len(ptr[w].val) \in 0 .. 2
    BY StringLength DEF TypeOK
  <2>2. rlen' \in [Clients -> 0 .. 2]
    <3>1. PICK n \in (IF req[fd[w]].op # "R" THEN {0}
                      ELSE IF ptr[w].freed THEN 0 .. 2 ELSE {Len(ptr[w].val)}) :
             rlen' = [rlen EXCEPT ![fd[w]] = n]
      BY <1>10 DEF Okay
    <3>2. n \in {0} \/ n \in 0 .. 2 \/ n \in {Len(ptr[w].val)}
      BY <3>1
    <3>3. n \in 0 .. 2
      <4>1. 0 \in 0 .. 2
        OBVIOUS
      <4> QED
        BY <2>1, <3>2, <4>1, Zenon
    <3> QED
      BY <1>a, <3>1, <3>3 DEF SocketTypes
  <2> QED
    BY <1>10, <1>a, <2>2 DEF Okay, SocketTypes
<1>11. ASSUME NEW w \in Workers, OkayData(w) PROVE SocketTypes'
  <2>1. wpc[w] = "okaydata"
    BY <1>11 DEF OkayData, At
  <2>2. fd[w] \in Clients
    BY <2>1, KvRequest
  <2> DEFINE s == [i \in 1 .. rlen[fd[w]] |-> IF ptr[w].freed THEN JUNK ELSE ptr[w].val[i]]
  <2>3. down' = [down EXCEPT ![fd[w]] = s]
    BY <1>11 DEF OkayData
  <2>4. rlen[fd[w]] \in 0 .. 2 /\ (~ ptr[w].freed => rlen[fd[w]] = Len(ptr[w].val))
    BY <2>1, <2>2 DEF BodyInv, Waiting, TypeOK
  <2>5. ptr[w].val \in Seq(Bytes \cup {JUNK})
    BY StringLength DEF TypeOK
  <2>6. \A i \in 1 .. rlen[fd[w]] :
           (IF ptr[w].freed THEN JUNK ELSE ptr[w].val[i]) \in Bytes \cup {JUNK}
    BY <2>4, <2>5
  <2>7. s \in [1 .. rlen[fd[w]] -> Bytes \cup {JUNK}]
    BY <2>6
  <2>8. s \in Strings
    BY <2>4, <2>7 DEF Strings
  <2> HIDE DEF s
  <2>9. down' \in [Clients -> Strings]
    BY <1>a, <2>2, <2>3, <2>8 DEF SocketTypes
  <2> QED
    BY <1>11, <1>a, <2>9 DEF OkayData, SocketTypes
<1>12. ASSUME NEW w \in Workers, Fail(w) \/ Close(w) PROVE SocketTypes'
  BY <1>12, <1>a DEF Fail, Close, SocketTypes
<1> QED
  BY <1>1, <1>2, <1>3, <1>4, <1>5, <1>6, <1>7, <1>8, <1>9, <1>10, <1>11, <1>12
  DEF Next, ClientStep, Listener, Admin, WorkerStep, Serve

LEMMA QueueTypesNext ==
    ASSUME TypeOK, Next
    PROVE  QueueTypes'
<1> USE DEF queueVars
<1>a. QueueTypes
  BY DEF TypeOK, QueueTypes
<1>1. ASSUME NEW c \in Clients, NEW r \in Requests, Connect(c, r) PROVE QueueTypes'
  BY <1>1, <1>a DEF Connect, QueueTypes
<1>2. ASSUME NEW c \in Clients, ClientStep(c) \/ Die(c) PROVE QueueTypes'
  BY <1>2, <1>a, ClientFrame DEF QueueTypes
<1>3. CASE Accept
  <2>1. backlog # << >> => Head(backlog) \in Clients /\ Tail(backlog) \in Seq(Clients)
    BY <1>a, HeadTailProperties DEF QueueTypes
  <2> QED
    BY <1>3, <1>a, <2>1 DEF Accept, QueueTypes
<1>4. CASE Enqueue
  BY <1>4, <1>a DEF Enqueue, QueueTypes
<1>5. ASSUME NEW w \in Workers, Dequeue(w) \/ Close(w) PROVE QueueTypes'
  <2>1. wq # << >> => Tail(wq) \in Seq(Clients \cup {BADFD})
    BY <1>a, HeadTailProperties DEF QueueTypes
  <2> QED
    BY <1>5, <1>a, <2>1 DEF Dequeue, Close, QueueTypes
<1>6. ASSUME NEW w \in Workers, Handler(w) PROVE QueueTypes'
  BY <1>6, <1>a, HandlerFrame DEF QueueTypes
<1>7. CASE Admin
  BY <1>7, <1>a, ConsoleFrame DEF QueueTypes
<1> QED
  BY <1>1, <1>2, <1>3, <1>4, <1>5, <1>6, <1>7
  DEF Next, Listener, Admin, WorkerStep, Handler, Serve

LEMMA WorkerTypesNext ==
    ASSUME TypeOK, PlaceInv, FdInv, ClientInv, PayloadInv, StoreInv, Next
    PROVE  WorkerTypes'
<1> USE DEF workerVars, At, GoTo
<1>a. WorkerTypes
  BY DEF TypeOK, WorkerTypes
<1>1. ASSUME NEW c \in Clients, NEW r \in Requests, Connect(c, r) PROVE WorkerTypes'
  BY <1>1, <1>a DEF Connect, WorkerTypes
<1>2. ASSUME NEW c \in Clients, ClientStep(c) \/ Die(c) PROVE WorkerTypes'
  BY <1>2, <1>a, ClientFrame DEF WorkerTypes
<1>3. CASE Accept \/ Enqueue \/ Admin
  BY <1>3, <1>a DEF Accept, Enqueue, Admin, ConsoleCommand, ConsoleCleanup, Sigint, Socket, Bind, WorkerTypes
<1>4. ASSUME NEW w \in Workers, Dequeue(w) PROVE WorkerTypes'
  <2>1. Head(wq) \in Clients \cup {BADFD}
    BY <1>4 DEF Dequeue, TypeOK
  <2> QED
    BY <1>4, <1>a, <2>1 DEF Dequeue, WorkerTypes
<1>5. ASSUME NEW w \in Workers, Close(w) PROVE WorkerTypes'
  <2>1. << >> \in Strings
    BY EmptyString
  <2>2. NoPointer \in [key : Keys \cup {NULL}, val : Strings, freed : BOOLEAN]
    BY <2>1 DEF NoPointer
  <2> QED
    BY <1>5, <1>a, <2>1, <2>2 DEF Close, WorkerTypes
<1>6. ASSUME NEW w \in Workers, Dispatch(w) PROVE WorkerTypes'
  <2>1. fd[w] \in Clients /\ hdr[fd[w]]
    BY <1>6 DEF Dispatch
  <2>2. Len(req[fd[w]].data) \in 0 .. 2
    BY <2>1, RequestType DEF ClientInv
  <2> DEFINE junk == [i \in 1 .. Len(req[fd[w]].data) |-> JUNK]
  <2>3. junk \in Strings
    <3>1. junk \in [1 .. Len(req[fd[w]].data) -> Bytes \cup {JUNK}]
      OBVIOUS
    <3> QED
      BY <2>2, <3>1 DEF Strings
  <2>4. buf' \in [Workers -> Strings] /\ got' \in [Workers -> 0 .. 2]
    <3>1. \/ UNCHANGED << buf, got >>
          \/ buf' = [buf EXCEPT ![w] = junk] /\ got' = [got EXCEPT ![w] = 0]
      BY <1>6 DEF Dispatch
    <3>2. 0 \in 0 .. 2
      OBVIOUS
    <3> HIDE DEF junk
    <3> QED
      BY <1>a, <2>3, <3>1, <3>2 DEF WorkerTypes
  <2>5. /\ wpc' = [wpc EXCEPT ![w] = wpc'[w]] /\ UNCHANGED << fd, ptr >>
        /\ wpc'[w] \in {"payload", "kv_read", "kv_delete", "cleanup", "fail"}
    BY <1>6, SocketFrame
  <2> QED
    BY <1>a, <2>4, <2>5 DEF WorkerTypes
<1>7. ASSUME NEW w \in Workers, Receive(w) PROVE WorkerTypes'
  <2>1. wpc[w] = "payload" /\ up[fd[w]] # << >> /\ UNCHANGED << fd, ptr >>
    BY <1>7 DEF Receive
  <2>2. fd[w] \in Clients
    BY <2>1, KvRequest
  <2>3. PICK n \in ReadSizes(up[fd[w]]) :
          /\ buf' = [buf EXCEPT ![w] = Received(@, SubSeq(up[fd[w]], 1, n))]
          /\ got' = [got EXCEPT ![w] = @ + n]
    BY <1>7 DEF Receive
  <2>a. got[w] \in 0 .. 2
    BY DEF TypeOK
  <2>4. up[fd[w]] \in Strings /\ buf[w] \in Strings /\ got[w] \in Nat
    BY <2>2, <2>a DEF TypeOK
  <2>5. SubSeq(up[fd[w]], 1, n) \in Strings /\ n \in 1 .. Len(up[fd[w]])
    BY <2>1, <2>4, ReadPart
  <2>6. Received(buf[w], SubSeq(up[fd[w]], 1, n)) \in Strings
    BY <2>4, <2>5, ReceivedType
  <2>7. /\ got[w] + Len(up[fd[w]]) <= Len(buf[w])
        /\ Len(buf[w]) \in 0 .. 2 /\ Len(up[fd[w]]) \in Nat
    BY <2>1, <2>4, StringLength DEF PayloadInv
  <2>8. ASSUME NEW i \in Nat, NEW j \in Nat, NEW m \in 1 .. j, NEW l \in 0 .. 2, i + j <= l
        PROVE  i + m \in 0 .. 2
    BY <2>8
  <2>9. got[w] + n \in 0 .. 2
    BY <2>4, <2>5, <2>7, <2>8, Zenon
  <2>10. buf' \in [Workers -> Strings] /\ got' \in [Workers -> 0 .. 2]
    BY <1>a, <2>3, <2>6, <2>9 DEF WorkerTypes
  <2>11. wpc' = [wpc EXCEPT ![w] = wpc'[w]] /\ wpc'[w] \in {"payload", "kv_write"}
    BY <1>7, SocketFrame
  <2> QED
    BY <1>a, <2>1, <2>10, <2>11 DEF WorkerTypes
<1>8. ASSUME NEW w \in Workers, Okay(w) \/ OkayData(w) \/ Fail(w) PROVE WorkerTypes'
  <2>1. /\ UNCHANGED << fd, buf, got, ptr >> /\ wpc' = [wpc EXCEPT ![w] = wpc'[w]]
        /\ wpc'[w] \in {"okaydata", "close"}
    BY <1>8, SocketFrame DEF Okay, OkayData, Fail
  <2> QED
    BY <1>a, <2>1 DEF WorkerTypes
<1>9. ASSUME NEW w \in Workers, Serve(w) PROVE WorkerTypes'
  <2>1. /\ UNCHANGED << fd, buf, got >> /\ wpc' = [wpc EXCEPT ![w] = wpc'[w]]
        /\ wpc'[w] \in {"fail", "kv_write", "okay", "exit"}
    BY <1>9, ServeFrame
  <2> DEFINE Ptr == [key : Keys \cup {NULL}, val : Strings, freed : BOOLEAN]
  <2>2. ptr' \in [Workers -> Ptr]
    <3>a. ptr \in [Workers -> Ptr]
      BY DEF TypeOK
    <3>1. CASE KvWrite(w) \/ KvDelete(w)
      <4>1. ASSUME NEW k PROVE Dangling(k) \in [Workers -> Ptr]
        <5>1. \A v \in Workers : ptr[v] \in Ptr /\ [ptr[v] EXCEPT !.freed = TRUE] \in Ptr
          BY <3>a
        <5> HIDE DEF Ptr
        <5> QED
          BY <5>1 DEF Dangling
      <4> HIDE DEF Ptr
      <4> QED
        BY <3>1, <3>a, <4>1 DEF KvWrite, KvDelete
    <3>2. CASE KvRead(w)
      <4> DEFINE k == req[fd[w]].key
      <4>1. k \in Keys
        BY <3>2, KvRequest DEF KvRead
      <4>2. Find(table, k) # 0 => ValueOf(table, k) \in Strings
        <5>1. table \in Table /\ WellFormed(table)
          BY DEF TypeOK, StoreInv
        <5>2. Find(table, k) # 0 => ValueOf(table, k) # NULL
          BY <4>1, <5>1, ValueOfMeaning DEF Stored
        <5> QED
          BY <4>1, <5>2 DEF StoreInv
      <4>3. Find(table, k) # 0 => [key |-> k, val |-> ValueOf(table, k), freed |-> FALSE] \in Ptr
        BY <4>1, <4>2
      <4> HIDE DEF Ptr
      <4> QED
        BY <3>2, <3>a, <4>3 DEF KvRead
    <3>3. CASE ShortRead(w) \/ ReceiveNothing(w) \/ ReceiveEmpty(w) \/ KvFull(w) \/ WorkerCleanup(w)
      BY <3>3, <3>a DEF ShortRead, ReceiveNothing, ReceiveEmpty, KvFull, WorkerCleanup
    <3> QED
      BY <1>9, <3>1, <3>2, <3>3 DEF Serve
  <2> QED
    BY <1>a, <2>1, <2>2 DEF WorkerTypes
<1> QED
  BY <1>1, <1>2, <1>3, <1>4, <1>5, <1>6, <1>7, <1>8, <1>9
  DEF Next, Listener, Admin, WorkerStep, Serve

LEMMA AdminTypesNext ==
    ASSUME TypeOK, Next
    PROVE  AdminTypes'
<1> USE DEF adminVars
<1>a. AdminTypes
  BY DEF TypeOK, AdminTypes
<1>1. ASSUME NEW c \in Clients, NEW r \in Requests, Connect(c, r) PROVE AdminTypes'
  BY <1>1, <1>a DEF Connect, AdminTypes
<1>2. ASSUME NEW c \in Clients, ClientStep(c) \/ Die(c) PROVE AdminTypes'
  BY <1>2, <1>a, ClientFrame DEF AdminTypes
<1>3. CASE Accept \/ Enqueue
  BY <1>3, <1>a DEF Accept, Enqueue, AdminTypes
<1>4. CASE Admin
  BY <1>4, <1>a DEF Admin, ConsoleCommand, ConsoleCleanup, Sigint, Socket, Bind, CleanupClose, AdminTypes
<1>5. ASSUME NEW w \in Workers, Dequeue(w) \/ Close(w) PROVE AdminTypes'
  BY <1>5, <1>a DEF Dequeue, Close, AdminTypes
<1>6. ASSUME NEW w \in Workers, Dispatch(w) \/ Receive(w) \/ Okay(w) \/ OkayData(w) \/ Fail(w) PROVE AdminTypes'
  BY <1>6, <1>a, SocketFrame DEF AdminTypes
<1>7. ASSUME NEW w \in Workers, Serve(w), ~ WorkerCleanup(w) PROVE AdminTypes'
  BY <1>7, <1>a DEF Serve, ShortRead, ReceiveNothing, ReceiveEmpty, KvWrite, KvFull, KvRead,
                    KvDelete, AdminTypes
<1>8. ASSUME NEW w \in Workers, WorkerCleanup(w) PROVE AdminTypes'
  BY <1>8, <1>a DEF WorkerCleanup, CleanupClose, AdminTypes
<1> QED
  BY <1>1, <1>2, <1>3, <1>4, <1>5, <1>6, <1>7, <1>8
  DEF Next, Listener, Admin, WorkerStep, Serve

LEMMA WantedNext ==
    ASSUME TypeOK, FdInv, ClientInv, Next
    PROVE  wanted' \in [Keys -> Strings \cup {NULL}]
<1>a. wanted \in [Keys -> Strings \cup {NULL}]
  BY DEF TypeOK
<1>1. ASSUME NEW w \in Workers, KvWrite(w) \/ KvDelete(w)
      PROVE  wanted' \in [Keys -> Strings \cup {NULL}]
  <2>1. req[fd[w]].data \in Strings
    BY <1>1, KvRequest DEF KvWrite, KvDelete, At
  <2> QED
    BY <1>1, <1>a, <2>1 DEF KvWrite, KvDelete
<1> QED
  BY <1>1, <1>a, StoreFrame

LEMMA TypeNext ==
    ASSUME Inv, Next
    PROVE  TypeOK'
<1>1. ClientTypes' /\ SocketTypes' /\ QueueTypes' /\ WorkerTypes' /\ AdminTypes'
  BY ClientTypesNext, SocketTypesNext, QueueTypesNext, WorkerTypesNext, AdminTypesNext DEF Inv
<1>2. table' \in Table /\ size' \in 0 .. TABLE_MAX
  BY StoreNext DEF Inv
<1>3. stat' \in [Counters -> Nat]
  BY CountStep DEF Inv
<1>4. wanted' \in [Keys -> Strings \cup {NULL}]
  BY WantedNext DEF Inv
<1> QED
  BY <1>1, <1>2, <1>3, <1>4
  DEF TypeOK, ClientTypes, SocketTypes, QueueTypes, WorkerTypes, AdminTypes

-----------------------------------------------------------------------------
(***************************************************************************)
(* The invariant holds.                                                    *)
(***************************************************************************)
LEMMA EmptyTableProperties ==
    /\ EmptyTable \in Table /\ WellFormed(EmptyTable)
    /\ Stored(EmptyTable) = {} /\ \A k \in Keys : ValueOf(EmptyTable, k) = NULL
<1>1. EmptyTable \in Table /\ \A b \in Buckets : EmptyTable[b] = << >>
  BY DEF EmptyTable, Table
<1>2. WellFormed(EmptyTable)
  BY <1>1 DEF WellFormed
<1>3. ASSUME NEW k \in Keys PROVE k \notin Stored(EmptyTable)
  <2>1. Hash[k] \in Buckets
    BY HashAssumption
  <2> QED
    BY <1>1, <2>1, StoredMeaning
<1>4. Stored(EmptyTable) = {}
  BY <1>3 DEF Stored
<1> QED
  BY <1>1, <1>2, <1>4, ValueOfMeaning

LEMMA InvInit == Init => Inv
<1> SUFFICES ASSUME Init PROVE Inv
  OBVIOUS
<1> USE DEF Init
<1>a. /\ NULL \notin Clients /\ NULL # BADFD /\ NULL # "X" /\ NULL # "K"
      /\ IsFiniteSet(Clients) /\ IsFiniteSet(Workers)
  BY ThreadsAssumption
<1>b. << >> \in Strings /\ Len(<< >>) = 0
  BY EmptyString, EmptySeq
<1>1. TypeOK
  <2>1. ClientTypes
    BY <1>b DEF ClientTypes
  <2>2. SocketTypes
    BY <1>b DEF SocketTypes
  <2>3. QueueTypes
    BY EmptySeq DEF QueueTypes
  <2>4. WorkerTypes
    <3>1. NoPointer \in [key : Keys \cup {NULL}, val : Strings, freed : BOOLEAN]
      BY <1>b DEF NoPointer
    <3>2. ptr \in [Workers -> [key : Keys \cup {NULL}, val : Strings, freed : BOOLEAN]]
      BY <3>1
    <3> QED
      BY <1>b, <3>2 DEF WorkerTypes
  <2>5. AdminTypes
    BY DEF AdminTypes
  <2>6. /\ table \in Table /\ size \in 0 .. TABLE_MAX /\ stat \in [Counters -> Nat]
        /\ wanted \in [Keys -> Strings \cup {NULL}]
    BY EmptyTableProperties, SizesAssumption
  <2> QED
    BY <2>1, <2>2, <2>3, <2>4, <2>5, <2>6
    DEF TypeOK, ClientTypes, SocketTypes, QueueTypes, WorkerTypes, AdminTypes
<1>2. PlaceInv
  BY <1>a, <1>b DEF PlaceInv
<1>3. FdInv
  BY <1>a, <1>b DEF FdInv
<1>4. ClientInv
  BY <1>a DEF ClientInv
<1>5. ReplyInv
  BY <1>a, <1>b DEF ReplyInv, Answered
<1>6. PayloadInv
  BY DEF PayloadInv
<1>7. BodyInv
  BY <1>a, <1>b DEF BodyInv, Waiting
<1>8. StoreInv
  BY EmptyTableProperties, FS_EmptySet DEF StoreInv
<1>9. FailuresMatchReplies
  <2>1. Failed = {} /\ Failing = {}
    BY <1>a DEF Failed, Failing
  <2>2. Cardinality(Failed) = 0 /\ Cardinality(Failing) = 0
    BY <2>1, FS_EmptySet
  <2> QED
    BY <2>2, FailedMeaning DEF FailuresMatchReplies, Failing, Counters
<1>10. ExitInv
  BY DEF ExitInv
<1> QED
  BY <1>1, <1>2, <1>3, <1>4, <1>5, <1>6, <1>7, <1>8, <1>9, <1>10 DEF Inv

LEMMA InvStutter == Inv /\ UNCHANGED vars => Inv'
<1> SUFFICES ASSUME Inv, UNCHANGED vars PROVE Inv'
  OBVIOUS
<1> USE DEF Inv, vars, clientVars, socketVars, queueVars, workerVars, storeVars, adminVars
<1>1. TypeOK'
  BY DEF TypeOK
<1>2. PlaceInv' /\ FdInv'
  BY DEF PlaceInv, FdInv, AcceptFails
<1>3. ClientInv' /\ ReplyInv'
  BY DEF ClientInv, ReplyInv, Answered, Running
<1>4. PayloadInv' /\ BodyInv'
  BY DEF PayloadInv, BodyInv, Running
<1>5. StoreInv' /\ FailuresMatchReplies' /\ ExitInv'
  BY DEF StoreInv, FailuresMatchReplies, AcceptFails, Told, ExitInv
<1> QED
  BY <1>1, <1>2, <1>3, <1>4, <1>5

LEMMA InvNext == Inv /\ [Next]_vars => Inv'
<1> SUFFICES ASSUME Inv, Next PROVE Inv'
  BY InvStutter
<1>1. TypeOK'
  BY TypeNext
<1>2. PlaceInv' /\ FdInv' /\ ClientInv'
  BY PlaceNext, FdNext, ClientNext DEF Inv
<1>3. ReplyInv' /\ PayloadInv' /\ BodyInv'
  BY ReplyNext, PayloadNext, BodyNext DEF Inv
<1>4. StoreInv' /\ FailuresMatchReplies' /\ ExitInv'
  BY StoreNext, FailuresNext, ExitNext DEF Inv
<1> QED
  BY <1>1, <1>2, <1>3, <1>4 DEF Inv

LEMMA InvAlways == Spec => []Inv
BY InvInit, InvNext, PTL DEF Spec

\* Every variable of the server and its clients keeps its type: buffers and
\* replies stay within the lengths their headers announce (worker.c's reads and
\* writes, do_get's), size within the capacity of the table.
THEOREM ServerTypeCorrect == Spec => []TypeOK
<1>1. Inv => TypeOK
  BY DEF Inv
<1> QED
  BY <1>1, InvAlways, PTL

\* A connection is in the backlog, with the listener, in the work queue or with
\* one worker (listen_thread, enqueue_task, dequeue_task and worker pass it on),
\* and in one of them only, until dispatch closes it.
THEOREM ConnectionsCorrect == Spec => []HeldOnce
<1>1. ASSUME Inv PROVE HeldOnce
  <2> SUFFICES ASSUME NEW c \in Clients
               PROVE  Cardinality({i \in 1 .. Len(backlog) : backlog[i] = c}) + Count01(newfd = c)
                        + Cardinality({i \in 1 .. Len(wq) : wq[i] = c})
                        + Cardinality({w \in Workers : fd[w] = c})
                      = Count01(conn[c] \in {"backlog", "open"})
    BY DEF HeldOnce
  <2> DEFINE B == {i \in 1 .. Len(backlog) : backlog[i] = c}
             N == Count01(newfd = c)
             Q == {i \in 1 .. Len(wq) : wq[i] = c}
             F == {w \in Workers : fd[w] = c}
             O == Count01(conn[c] \in {"backlog", "open"})
             Goal == Cardinality(B) + N + Cardinality(Q) + Cardinality(F) = O
  <2>a. PlaceInv /\ conn[c] \in {"none", "backlog", "open", "closed"}
    BY <1>1 DEF Inv, TypeOK
  <2>b. Cardinality({}) = 0 /\ \A x : Cardinality({x}) = 1
    BY FS_EmptySet, FS_Singleton
  <2>1. ASSUME conn[c] \in {"none", "closed"} PROVE Goal
    <3>1. B = {} /\ Q = {} /\ F = {} /\ newfd # c
      BY <2>a, <2>1 DEF PlaceInv
    <3>2. N = 0 /\ O = 0
      BY <2>1, <3>1 DEF Count01
    <3> HIDE DEF B, N, Q, F, O
    <3> QED
      BY <2>b, <3>1, <3>2
  <2>2. ASSUME conn[c] = "backlog" PROVE Goal
    <3>1. PICK i \in 1 .. Len(backlog) : backlog[i] = c
      BY <2>a, <2>2 DEF PlaceInv
    <3>2. B = {i}
      BY <2>a, <3>1 DEF PlaceInv
    <3>3. Q = {} /\ F = {} /\ newfd # c
      BY <2>a, <2>2 DEF PlaceInv
    <3>4. N = 0 /\ O = 1
      BY <2>2, <3>3 DEF Count01
    <3>5. Cardinality(B) = 1
      BY <2>b, <3>2, Zenon
    <3> HIDE DEF B, N, Q, F, O
    <3> QED
      BY <2>b, <3>3, <3>4, <3>5
  <2>3. ASSUME conn[c] = "open" /\ newfd = c PROVE Goal
    <3>1. B = {} /\ Q = {} /\ F = {}
      BY <2>a, <2>3 DEF PlaceInv
    <3>2. N = 1 /\ O = 1
      BY <2>3 DEF Count01
    <3> HIDE DEF B, N, Q, F, O
    <3> QED
      BY <2>b, <3>1, <3>2
  <2>4. ASSUME conn[c] = "open" /\ \E i \in 1 .. Len(wq) : wq[i] = c PROVE Goal
    <3>1. PICK i \in 1 .. Len(wq) : wq[i] = c
      BY <2>4
    <3>2. Q = {i}
      BY <2>a, <3>1 DEF PlaceInv
    <3>3. B = {} /\ F = {} /\ newfd # c
      BY <2>a, <2>4, <3>1 DEF PlaceInv
    <3>4. N = 0 /\ O = 1
      BY <2>4, <3>3 DEF Count01
    <3>5. Cardinality(Q) = 1
      BY <2>b, <3>2, Zenon
    <3> HIDE DEF B, N, Q, F, O
    <3> QED
      BY <2>b, <3>3, <3>4, <3>5
  <2>5. ASSUME conn[c] = "open" /\ \E w \in Workers : fd[w] = c PROVE Goal
    <3>1. PICK w \in Workers : fd[w] = c
      BY <2>5
    <3>2. F = {w}
      BY <2>a, <3>1 DEF PlaceInv
    <3>3. B = {} /\ Q = {} /\ newfd # c
      BY <2>a, <2>5, <3>1 DEF PlaceInv
    <3>4. N = 0 /\ O = 1
      BY <2>5, <3>3 DEF Count01
    <3> HIDE DEF B, N, Q, F, O
    <3> QED
      BY <2>b, <3>2, <3>3, <3>4
  <2>6. conn[c] = "open" =>
           newfd = c \/ (\E i \in 1 .. Len(wq) : wq[i] = c) \/ \E w \in Workers : fd[w] = c
    BY <2>a DEF PlaceInv
  <2>7. Goal
    BY <2>a, <2>1, <2>2, <2>3, <2>4, <2>5, <2>6
  <2> QED
    BY <2>7
<1> QED
  BY <1>1, InvAlways, PTL

\* dispatch never closes a connection whose client has no reply, and no handler
\* sent it two different ones.
THEOREM AnswersCorrect == Spec => []AnsweredBeforeClose
<1>1. ASSUME Inv PROVE AnsweredBeforeClose
  <2> SUFFICES ASSUME NEW c \in Clients, conn[c] = "closed" PROVE Cardinality(Told(c)) = 1
    BY DEF AnsweredBeforeClose
  <2>1. (rhdr[c] = NULL \/ answer[c] = NULL) /\ (rhdr[c] # NULL \/ answer[c] # NULL)
    BY <1>1 DEF Inv, ReplyInv, Answered
  <2>2. Told(c) = {rhdr[c]} \/ Told(c) = {answer[c]}
    BY <2>1 DEF Told
  <2> QED
    BY <2>2, FS_Singleton
<1> QED
  BY <1>1, InvAlways, PTL

\* Until accept fails, n_fails (stats.c) is the number of 'X'
\* replies sent and of workers about to send one.
THEOREM FailuresCorrect == Spec => []FailuresMatchReplies
<1>1. Inv => FailuresMatchReplies
  BY DEF Inv
<1> QED
  BY <1>1, InvAlways, PTL

\* The process ends with an error only when bind or listen failed or a second
\* call of cleanup found listen_sock closed, and with a SIGPIPE only when a
\* do_get hung up before the second write of its reply.
THEOREM ExitCorrect == Spec => []ExitIsCaused
<1>1. ASSUME Inv PROVE ExitIsCaused
  <2> DEFINE E == {w \in Workers : wpc[w] = "exit"}
  <2>1. E \in SUBSET Workers
    OBVIOUS
  <2>2. IsFiniteSet(E) /\ Cardinality(E) \in Nat
    BY <2>1, ThreadsAssumption, FS_Subset, FS_CardinalityType
  <2>3. ASSUME NEW w \in E PROVE Cardinality(E) >= 1
    BY <2>2, FS_EmptySet
  <2>4. ASSUME NEW v \in E, NEW w \in E, v # w PROVE Cardinality(E) >= 2
    <3>1. Cardinality(E \ {v}) = Cardinality(E) - 1 /\ IsFiniteSet(E \ {v})
      BY <2>2, FS_RemoveElement
    <3>2. w \in E \ {v}
      BY <2>4
    <3>3. Cardinality(E \ {v}) # 0 /\ Cardinality(E \ {v}) \in Nat
      BY <3>1, <3>2, FS_EmptySet, FS_CardinalityType
    <3> QED
      BY <2>2, <3>1, <3>3
  <2>5. process = "exit1" /\ lpc # "failed" => Cardinality(E) + ConsoleCleanups > 1
    <3> SUFFICES ASSUME process = "exit1", lpc # "failed" PROVE Cardinality(E) + ConsoleCleanups > 1
      OBVIOUS
    <3>1. \/ console = "handled"
          \/ \E v, w \in E : v # w
          \/ console \in {"exit", "handler"} /\ \E w \in E : TRUE
      BY <1>1 DEF Inv, ExitInv
    <3>2. CASE \E v, w \in E : v # w
      <4>1. Cardinality(E) >= 2
        BY <2>4, <3>2
      <4>2. ConsoleCleanups \in {0, 1, 2}
        BY DEF ConsoleCleanups, Count01
      <4> HIDE DEF E
      <4> QED
        BY <2>2, <4>1, <4>2
    <3>3. CASE console \in {"exit", "handler"} /\ \E w \in E : TRUE
      <4>1. Cardinality(E) >= 1
        BY <2>3, <3>3
      <4>2. ConsoleCleanups = 1
        BY <3>3 DEF ConsoleCleanups, Count01
      <4> HIDE DEF E
      <4> QED
        BY <2>2, <4>1, <4>2
    <3>4. CASE console = "handled"
      <4>1. ConsoleCleanups = 2
        BY <3>4 DEF ConsoleCleanups
      <4> HIDE DEF E
      <4> QED
        BY <2>2, <4>1
    <3> QED
      BY <3>1, <3>2, <3>3, <3>4
  <2> QED
    BY <1>1, <2>5 DEF Inv, ExitInv, ExitIsCaused
<1> QED
  BY <1>1, InvAlways, PTL

\* resp_okay and resp_fail write a header only to a client that has none: what
\* a client was told is never changed.
THEOREM RepliesCorrect == Spec => OneReply
<1> DEFINE A == \A c \in Clients : Told(c) # {} => rhdr'[c] \in {rhdr[c], NULL}
<1>1. ASSUME Inv, [Next]_vars PROVE [A]_vars
  <2> SUFFICES ASSUME Next, NEW c \in Clients, Told(c) # {} PROVE rhdr'[c] \in {rhdr[c], NULL}
    BY <1>1
  <2> USE DEF clientVars, socketVars
  <2>a. rhdr = [d \in Clients |-> rhdr[d]] /\ Answered(c)
    BY <1>1 DEF Inv, TypeOK, Told, Answered
  <2>1. ASSUME NEW d \in Clients, NEW r \in Requests, Connect(d, r) PROVE rhdr' = rhdr
    BY <2>1 DEF Connect
  <2>2. ASSUME NEW d \in Clients, SendHeader(d) \/ SendData(d) \/ ShortReply(d) \/ ReadBody(d) \/ Die(d)
        PROVE  rhdr' = rhdr
    BY <2>2 DEF SendHeader, SendData, ShortReply, ReadBody, Die
  <2>3. ASSUME NEW d \in Clients, ReadReply(d) PROVE rhdr'[c] \in {rhdr[c], NULL}
    BY <2>a, <2>3 DEF ReadReply
  <2>4. CASE Accept \/ Enqueue \/ Admin
    BY <2>4 DEF Accept, Enqueue, Admin, ConsoleCommand, ConsoleCleanup, Sigint, Socket, Bind
  <2>5. ASSUME NEW w \in Workers, Dequeue(w) \/ Close(w) \/ Dispatch(w) \/ Receive(w) \/ OkayData(w)
        PROVE  rhdr' = rhdr
    BY <2>5 DEF Dequeue, Close, Dispatch, Receive, OkayData
  <2>6. ASSUME NEW w \in Workers, Serve(w) PROVE rhdr' = rhdr
    BY <1>1, <2>6, ServeFrame DEF Inv
  <2>7. ASSUME NEW w \in Workers, Okay(w) \/ Fail(w) PROVE rhdr'[c] = rhdr[c]
    <3>1. wpc[w] \in {"okay", "fail"}
      BY <2>7 DEF Okay, Fail, At
    <3>2. fd[w] \in Clients => ~ Answered(fd[w])
      BY <1>1, <3>1 DEF Inv, ReplyInv
    <3>3. fd[w] # c
      BY <2>a, <3>2
    <3>4. rhdr' = rhdr \/ \E v : rhdr' = [rhdr EXCEPT ![fd[w]] = v]
      BY <2>7 DEF Okay, Fail
    <3> QED
      BY <2>a, <3>3, <3>4
  <2> QED
    BY <2>1, <2>2, <2>3, <2>4, <2>5, <2>6, <2>7
    DEF Next, ClientStep, Listener, Admin, WorkerStep, Serve
<1> QED
  BY <1>1, InvAlways, PTL DEF Spec, OneReply

-----------------------------------------------------------------------------
(***************************************************************************)
(* When read() returns all that was sent, the table holds what the clients *)
(* set.  MCDbServerFragments shows that it need not when read() returns    *)
(* less, so that this is an assumption the theorem cannot do without.      *)
(***************************************************************************)
LEMMA ReceivedAll ==
    ASSUME NEW b \in Strings, NEW s \in Strings, Len(b) = Len(s)
    PROVE  Received(b, SubSeq(s, 1, Len(s))) = s
<1>1. /\ b \in Seq(Bytes \cup {JUNK}) /\ s \in Seq(Bytes \cup {JUNK})
      /\ Len(s) \in Nat
  BY StringLength
<1>2. SubSeq(s, 1, Len(s)) = s
  BY <1>1
<1>3. Received(b, s) = [i \in 1 .. Len(s) |-> s[i]]
  BY <1>1 DEF Received
<1>4. s = [i \in 1 .. Len(s) |-> s[i]]
  BY <1>1
<1> QED
  BY <1>2, <1>3, <1>4, Zenon

LEMMA DataNext ==
    ASSUME ~ Fragmented, Inv, DataInv, Next
    PROVE  DataInv'
<1> USE DEF clientVars, socketVars, queueVars, workerVars, adminVars
<1>i. TypeOK /\ PlaceInv /\ FdInv /\ ClientInv /\ PayloadInv
  BY DEF Inv
<1>b. /\ wpc = [v \in Workers |-> wpc[v]] /\ fd = [v \in Workers |-> fd[v]]
      /\ buf = [v \in Workers |-> buf[v]] /\ got = [v \in Workers |-> got[v]]
      /\ req = [c \in Clients |-> req[c]] /\ up = [c \in Clients |-> up[c]]
  BY <1>i DEF TypeOK
<1>c. \A w \in Workers : wpc[w] \in {"payload", "kv_write"} =>
         /\ fd[w] \in Clients /\ conn[fd[w]] = "open"
         /\ req[fd[w]] \in Requests /\ req[fd[w]].data \in Strings
  BY <1>i, KvRequest DEF PlaceInv
<1>1. ASSUME NEW c \in Clients, NEW r \in Requests, Connect(c, r) PROVE DataInv'
  <2>1. conn[c] = "none" /\ up[c] = << >>
    BY <1>1, <1>i DEF Connect, ClientInv
  <2>2. /\ UNCHANGED << up, wpc, fd, buf, got >>
        /\ \A d \in Clients \ {c} : req'[d] = req[d]
    BY <1>1, <1>b DEF Connect
  <2>3. \A w \in Workers : wpc[w] = "kv_write" => fd[w] \in Clients \ {c}
    BY <1>c, <2>1
  <2> QED
    BY <2>1, <2>2, <2>3 DEF DataInv
<1>2. ASSUME NEW c \in Clients, SendData(c) PROVE DataInv'
  <2>1. /\ UNCHANGED << req, wpc, fd, buf, got >> /\ up'[c] = req[c].data
        /\ \A d \in Clients \ {c} : up'[d] = up[d]
    BY <1>2, <1>b DEF SendData
  <2> QED
    BY <2>1 DEF DataInv
<1>3. ASSUME NEW c \in Clients, SendHeader(c) \/ ReadReply(c) \/ ShortReply(c) \/ ReadBody(c) \/ Die(c) PROVE DataInv'
  BY <1>3 DEF SendHeader, ReadReply, ShortReply, ReadBody, Die, DataInv
<1>4. CASE Accept \/ Enqueue
  BY <1>4 DEF Accept, Enqueue, DataInv
<1>5. ASSUME NEW w \in Workers, Dequeue(w) \/ Close(w) PROVE DataInv'
  <2>1. /\ UNCHANGED << up, req >> /\ wpc'[w] \notin {"payload", "kv_write"}
        /\ \A v \in Workers \ {w} : /\ fd'[v] = fd[v] /\ wpc'[v] = wpc[v]
                                    /\ buf'[v] = buf[v] /\ got'[v] = got[v]
    BY <1>5, <1>b DEF Dequeue, Close, GoTo
  <2> QED
    BY <2>1 DEF DataInv
<1>6. ASSUME NEW w \in Workers, Dispatch(w) PROVE DataInv'
  <2>1. UNCHANGED << up, req, fd >>
    BY <1>6 DEF Dispatch
  <2>2. \A v \in Workers \ {w} : wpc'[v] = wpc[v] /\ buf'[v] = buf[v] /\ got'[v] = got[v]
    BY <1>6, <1>b DEF Dispatch, GoTo
  <2>3. wpc'[w] # "kv_write" /\ (wpc'[w] = "payload" => got'[w] = 0)
    BY <1>6, <1>b DEF Dispatch, GoTo
  <2> QED
    BY <2>1, <2>2, <2>3 DEF DataInv
<1>7. ASSUME NEW w \in Workers, Receive(w) PROVE DataInv'
  <2>1. wpc[w] = "payload" /\ up[fd[w]] # << >> /\ UNCHANGED << req, fd >>
    BY <1>7 DEF Receive, At
  <2>2. PICK c \in Clients : c = fd[w]
    BY <1>c, <2>1
  <2>3. PICK n \in ReadSizes(up[c]) :
          /\ buf' = [buf EXCEPT ![w] = Received(@, SubSeq(up[c], 1, n))]
          /\ got' = [got EXCEPT ![w] = @ + n]
          /\ up' = [up EXCEPT ![c] = SubSeq(@, n + 1, Len(@))]
    BY <1>7, <2>2 DEF Receive
  <2>4. up[c] \in Strings /\ buf[w] \in Strings
    BY <1>i DEF TypeOK
  <2>5. n = Len(up[c])
    BY <2>3 DEF ReadSizes
  <2>6. up[c] = req[c].data /\ got[w] = 0 /\ Len(buf[w]) = Len(up[c])
    BY <1>i, <2>1, <2>2 DEF DataInv, PayloadInv
  <2>7. buf'[w] = req[c].data
    <3>1. buf'[w] = Received(buf[w], SubSeq(up[c], 1, Len(up[c])))
      BY <1>b, <2>3, <2>5
    <3> QED
      BY <2>4, <2>6, <3>1, ReceivedAll
  <2>8. up'[c] = << >>
    <3>1. up'[c] \in Strings /\ Len(up'[c]) = Len(up[c]) - n /\ Len(up[c]) \in Nat
      BY <1>b, <2>1, <2>2, <2>3, <2>4, ReadPart, StringLength
    <3>2. Len(up'[c]) = 0
      BY <2>5, <3>1
    <3> QED
      BY <3>1, <3>2, StringLength
  <2>9. wpc'[w] = "kv_write"
    <3>1. wpc'[w] = IF got'[w] = Len(buf[w]) THEN "kv_write" ELSE "payload"
      BY <1>7, <1>b DEF Receive, GoTo
    <3>2. got'[w] = 0 + Len(up[c]) /\ Len(up[c]) \in Nat
      BY <1>b, <2>3, <2>4, <2>5, <2>6, StringLength
    <3> QED
      BY <2>6, <3>1, <3>2
  <2>10. /\ \A v \in Workers \ {w} : buf'[v] = buf[v] /\ got'[v] = got[v] /\ wpc'[v] = wpc[v]
         /\ \A d \in Clients \ {c} : up'[d] = up[d]
    BY <1>7, <1>b, <2>3 DEF Receive, GoTo
  <2> QED
    BY <2>1, <2>2, <2>7, <2>8, <2>9, <2>10 DEF DataInv
<1>8. ASSUME NEW w \in Workers, Serve(w) \/ Okay(w) \/ OkayData(w) \/ Fail(w) PROVE DataInv'
  <2>1. /\ UNCHANGED << up, req, fd, buf, got >>
        /\ wpc' = [wpc EXCEPT ![w] = wpc'[w]] /\ wpc'[w] # "payload"
        /\ wpc'[w] = "kv_write" => wpc[w] = "payload" /\ buf[w] = << >>
    BY <1>8, <1>i, ServeFrame, SocketFrame DEF Okay, OkayData, Fail
  <2>2. \A v \in Workers \ {w} : wpc'[v] = wpc[v]
    BY <1>b, <2>1
  <2>3. wpc'[w] = "kv_write" => buf[w] = req[fd[w]].data
    <3> SUFFICES ASSUME wpc'[w] = "kv_write" PROVE buf[w] = req[fd[w]].data
      OBVIOUS
    <3>1. buf[w] = << >> /\ Len(buf[w]) = Len(req[fd[w]].data)
      BY <1>i, <2>1 DEF PayloadInv
    <3>2. req[fd[w]].data \in Strings /\ Len(req[fd[w]].data) = 0
      BY <1>c, <2>1, <3>1
    <3> QED
      BY <3>1, <3>2, StringLength
  <2> QED
    BY <2>1, <2>2, <2>3 DEF DataInv
<1>9. CASE Admin
  BY <1>9, ConsoleFrame DEF DataInv
<1> QED
  BY <1>1, <1>2, <1>3, <1>4, <1>5, <1>6, <1>7, <1>8, <1>9
  DEF Next, ClientStep, Listener, Admin, WorkerStep, Serve

\* No two keys share a bucket: then a kv_delete takes no other key along.
NoCollisions == \A j, k \in Keys : Hash[j] = Hash[k] => j = k

LEMMA MatchNext ==
    ASSUME NoCollisions, Inv, DataInv, StoreMatchesRequests, Next
    PROVE  StoreMatchesRequests'
<1>a. /\ table \in Table /\ WellFormed(table) /\ wanted = [k \in Keys |-> wanted[k]]
      /\ TypeOK /\ FdInv /\ ClientInv /\ Strings \subseteq Vals
  BY RequestsAssumption DEF Inv, TypeOK, StoreInv
<1>1. ASSUME NEW w \in Workers, KvWrite(w) PROVE StoreMatchesRequests'
  <2>1. PICK k \in Keys : k = req[fd[w]].key
    BY <1>1, <1>a, KvRequest DEF KvWrite, At
  <2>2. PICK v \in Strings : v = req[fd[w]].data
    BY <1>1, <1>a, KvRequest DEF KvWrite, At
  <2>3. buf[w] = v
    BY <1>1, <2>2 DEF KvWrite, At, DataInv
  <2>4. table' = Written(table, k, v) /\ wanted' = [wanted EXCEPT ![k] = v]
    BY <1>1, <2>1, <2>2, <2>3 DEF KvWrite
  <2>5. \A x \in Keys : ValueOf(table', x) = IF x = k THEN v ELSE ValueOf(table, x)
    BY <1>a, <2>4, WrittenProperties
  <2>6. \A x \in Keys : wanted'[x] = IF x = k THEN v ELSE wanted[x]
    BY <1>a, <2>4
  <2> QED
    BY <2>5, <2>6 DEF StoreMatchesRequests
<1>2. ASSUME NEW w \in Workers, KvDelete(w) PROVE StoreMatchesRequests'
  <2>1. PICK k \in Keys : k = req[fd[w]].key
    BY <1>2, <1>a, KvRequest DEF KvDelete, At
  <2>2. table' = Deleted(table, k) /\ wanted' = [wanted EXCEPT ![k] = NULL]
    BY <1>2, <2>1 DEF KvDelete
  <2>3. \A x \in Keys : ValueOf(table', x) = IF x = k THEN NULL ELSE ValueOf(table, x)
    BY <1>a, <2>2, DeletedProperties DEF NoCollisions
  <2>4. \A x \in Keys : wanted'[x] = IF x = k THEN NULL ELSE wanted[x]
    BY <1>a, <2>2
  <2> QED
    BY <2>3, <2>4 DEF StoreMatchesRequests
<1>3. CASE UNCHANGED << table, size, wanted >>
  BY <1>3 DEF StoreMatchesRequests
<1> QED
  BY <1>a, <1>1, <1>2, <1>3, StoreFrame

\* The table holds for every key what the last request served for it asked
\* (handle_write and handle_delete), for a hash without collisions and reads
\* that are not split.  Both are needed: worker.c:43 stores junk after a short
\* read, kvstore.c:185 loses the keys of a chain whose head is deleted.
THEOREM StoreCorrect ==
    ASSUME ~ Fragmented, NoCollisions
    PROVE  Spec => []StoreMatchesRequests
<1>1. Init => DataInv /\ StoreMatchesRequests
  BY EmptyTableProperties DEF Init, DataInv, StoreMatchesRequests
<1>2. ASSUME Inv, DataInv, StoreMatchesRequests, [Next]_vars
      PROVE  DataInv' /\ StoreMatchesRequests'
  <2>1. CASE Next
    BY <1>2, <2>1, DataNext, MatchNext
  <2>2. CASE UNCHANGED vars
    BY <1>2, <2>2
    DEF vars, clientVars, socketVars, workerVars, storeVars, DataInv, StoreMatchesRequests
  <2> QED
    BY <1>2, <2>1, <2>2
<1> QED
  BY <1>1, <1>2, InvAlways, PTL DEF Spec
=============================================================================
