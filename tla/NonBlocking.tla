----------------------------- MODULE NonBlocking -----------------------------
(***************************************************************************)
(* The epoll server src/network/nonblocking: ServerImpl (Start, Stop, Join *)
(* on the main thread) and its Workers, each a thread that waits on an     *)
(* epoll instance of its own and shares the listening socket with the      *)
(* others.                                                                 *)
(*                                                                         *)
(* Descriptors are numbers, and the kernel hands out the lowest free one,  *)
(* so a number that was closed soon names something else.  An epoll        *)
(* instance watches open files, not numbers: what is closed is no longer   *)
(* watched.  Clients and kernel are external.  A client's data is a count  *)
(* of unread chunks; what a chunk means is chosen when it is parsed.       *)
(***************************************************************************)
EXTENDS Integers, FiniteSets, FiniteSetsExt

CONSTANTS
  n_workers,   \* Start's second argument
  MaxFd,       \* bound: size of the descriptor table
  MaxClients,  \* bound: clients that ever connect
  MaxSends     \* bound: chunks a client has sent and the server not read

ASSUME NonBlockingAssumption ==
  /\ n_workers \in Nat \ {0} /\ MaxFd \in Nat \ {0}
  /\ MaxClients \in Nat /\ MaxSends \in Nat \ {0}

Worker == 1..n_workers
Client == 1..MaxClients
Fd == 1..MaxFd

server_socket == 1

Free == <<"free", 0>>
Listening == <<"listen", 0>>
Epoll(w) == <<"epoll", w>>
Conn(c) == <<"conn", c>>
Connection == {Conn(c) : c \in Client}

VARIABLES
  main,               \* where Start, Stop and Join are: pc, worker, sockets still to close
  running,            \* Worker::running
  connection_sockets, \* Worker::connection_sockets
  thread,             \* per worker: pc, unhandled events, client_socket, epoll_fd
  interest,           \* per worker: the files its epoll instance was told to watch
  file,               \* the process's descriptor table
  shut,               \* shutdown() was called on the listening socket
  client              \* per client: its connection, its end of it, its unread chunks

nvars == <<main, running, connection_sockets, thread, interest, file, shut, client>>

(* Where ConnectionWork and the code after it use thread[w].fd. *)
InConnection == {"read", "error", "execute", "finish"}

Event == [fd : Fd, hup : BOOLEAN]

NTypeOK ==
  /\ main \in [pc : {"init", "start", "run", "stop", "close", "join", "joined", "failed"},
               w : 1..(n_workers + 1), todo : SUBSET Fd]
  /\ running \in [Worker -> BOOLEAN]
  /\ connection_sockets \in [Worker -> SUBSET Fd]
  /\ thread \in [Worker -> [pc : {"none", "setup", "wait", "batch", "done"} \cup InConnection,
                            batch : SUBSET Event, fd : Fd, epoll_fd : Fd]]
  /\ interest \in [Worker -> SUBSET ({Listening} \cup Connection)]
  /\ file \in [Fd -> {Free, Listening} \cup Connection \cup {Epoll(w) : w \in Worker}]
  /\ shut \in BOOLEAN
  /\ client \in [Client -> [link : {"new", "backlog", "accepted", "closed"},
                            end : {"open", "fin", "rst"}, unread : 0..MaxSends]]

NInit ==
  /\ main = [pc |-> "init", w |-> 1, todo |-> {}]
  /\ running = [w \in Worker |-> FALSE]
  /\ connection_sockets = [w \in Worker |-> {}]
  /\ thread = [w \in Worker |-> [pc |-> "none", batch |-> {}, fd |-> 1, epoll_fd |-> 1]]
  /\ interest = [w \in Worker |-> {}]
  /\ file = [f \in Fd |-> Free]
  /\ shut = FALSE
  /\ client = [c \in Client |-> [link |-> "new", end |-> "open", unread |-> 0]]

FreeFds == {f \in Fd : file[f] = Free}

Hidden == [link |-> "closed", end |-> "open", unread |-> 0]

(* close(f): no epoll instance watches the file any more.  What the client   *)
(* of a closed connection does is of no interest.                            *)
Close(f) ==
  /\ file' = [file EXCEPT ![f] = Free]
  /\ interest' = [w \in Worker |-> interest[w] \ {file[f]}]
  /\ client' = IF file[f] \in Connection THEN [client EXCEPT ![file[f][2]] = Hidden] ELSE client

-----------------------------------------------------------------------------
(* The main thread. *)

(* Start up to listen(); every call in it may fail, and then closes. *)
StartServer ==
  /\ main.pc = "init"
  /\ \/ main' = [main EXCEPT !.pc = "start"] /\ file' = [file EXCEPT ![server_socket] = Listening]
     \/ main' = [main EXCEPT !.pc = "failed"] /\ UNCHANGED file
  /\ UNCHANGED <<running, connection_sockets, thread, interest, shut, client>>

(* The loop of Start with Worker::Start. *)
StartWorker ==
  /\ main.pc = "start"
  /\ running' = [running EXCEPT ![main.w] = TRUE]
  /\ thread' = [thread EXCEPT ![main.w].pc = "setup"]
  /\ main' = IF main.w = n_workers THEN [main EXCEPT !.pc = "run", !.w = 1]
                                   ELSE [main EXCEPT !.w = @ + 1]
  /\ UNCHANGED <<connection_sockets, interest, file, shut, client>>

(* Worker::Stop of the next worker, called by ServerImpl::Stop.  It walks    *)
(* connection_sockets without a lock: what is inserted meanwhile is met or   *)
(* not (see Accept).                                                         *)
StopWorker ==
  /\ main.pc \in {"run", "stop"}
  /\ running' = [running EXCEPT ![main.w] = FALSE]
  /\ main' = [main EXCEPT !.pc = "close", !.todo = connection_sockets[main.w]]
  /\ UNCHANGED <<connection_sockets, thread, interest, file, shut, client>>

(* close(socket), whatever that number names by now *)
StopClose ==
  /\ main.pc = "close"
  /\ \E f \in main.todo : Close(f) /\ main' = [main EXCEPT !.todo = @ \ {f}]
  /\ UNCHANGED <<running, connection_sockets, thread, shut>>

(* Mutant: the listening socket is not shut down. *)
StopShutdown_Forgets ==
  /\ main.pc = "close" /\ main.todo = {}
  /\ main' = IF main.w = n_workers THEN [main EXCEPT !.pc = "join"]
                                   ELSE [main EXCEPT !.pc = "stop", !.w = @ + 1]
  /\ UNCHANGED <<running, connection_sockets, thread, interest, file, shut, client>>

(* shutdown(server_socket), pthread_detach(worker.thread) *)
StopShutdown ==
  /\ main.pc = "close" /\ main.todo = {}
  /\ shut' = (shut \/ file[server_socket] = Listening)
  /\ main' = IF main.w = n_workers THEN [main EXCEPT !.pc = "join"]
                                   ELSE [main EXCEPT !.pc = "stop", !.w = @ + 1]
  /\ UNCHANGED <<running, connection_sockets, thread, interest, file, client>>

(* pthread_join of the threads, all of them detached: it waits for none. *)
Join ==
  /\ main.pc = "join"
  /\ main' = [main EXCEPT !.pc = "joined"]
  /\ UNCHANGED <<running, connection_sockets, thread, interest, file, shut, client>>

Main == StartServer \/ StartWorker \/ StopWorker \/ StopClose \/ StopShutdown \/ Join

-----------------------------------------------------------------------------
(* The thread of worker w: OnRun. *)

At(w, pc) == thread[w].pc = pc

Goes(w, pc) == thread' = [thread EXCEPT ![w].pc = pc]

(* OnRun is left, by an exception that OnRunProxy catches or at its end. *)
Ends(w) ==
  thread' = [thread EXCEPT ![w] = [pc |-> "done", batch |-> {}, fd |-> 1, epoll_fd |-> 1]]

(* epoll_create and the registration of the listening socket *)
Setup(w) ==
  /\ At(w, "setup")
  /\ \/ Ends(w) /\ UNCHANGED <<interest, file>>
     \/ /\ FreeFds # {}
        /\ file' = [file EXCEPT ![Min(FreeFds)] = Epoll(w)]
        /\ IF file'[server_socket] = Listening
           THEN /\ interest' = [interest EXCEPT ![w] = {Listening}]
                /\ thread' = [thread EXCEPT ![w].pc = "batch", ![w].epoll_fd = Min(FreeFds)]
           ELSE Ends(w) /\ UNCHANGED interest
  /\ UNCHANGED <<main, running, connection_sockets, shut, client>>

(* All events are handled: while (running.load()), and epoll_wait, which     *)
(* fails if the number is no longer the worker's epoll instance.             *)
Loop(w) ==
  /\ At(w, "batch") /\ thread[w].batch = {}
  /\ \/ running[w] /\ file[thread[w].epoll_fd] = Epoll(w) /\ Goes(w, "wait") /\ UNCHANGED <<interest, file, client>>
     \/ running[w] /\ file[thread[w].epoll_fd] # Epoll(w) /\ Ends(w) /\ UNCHANGED <<interest, file, client>>
     \/ ~running[w] /\ Ends(w) /\ Close(thread[w].epoll_fd)
  /\ UNCHANGED <<main, running, connection_sockets, shut>>

Backlog == {c \in Client : client[c].link = "backlog"}

(* What epoll reports for an open file it watches; EPOLLHUP of a client is   *)
(* reported once the connection is gone both ways.                           *)
Reported(o) ==
  IF o = Listening
  THEN {h \in BOOLEAN : h = shut /\ (shut \/ Backlog # {})}
  ELSE LET p == client[o[2]]
       IN  {h \in BOOLEAN : h = (p.end = "rst") /\ (p.end # "open" \/ p.unread > 0)}

Ready(w) == {e \in Event : file[e.fd] \in interest[w] /\ e.hup \in Reported(file[e.fd])}

EpollWait(w) ==
  /\ At(w, "wait") /\ Ready(w) # {}
  /\ thread' = [thread EXCEPT ![w].pc = "batch", ![w].batch = Ready(w)]
  /\ UNCHANGED <<main, running, connection_sockets, interest, file, shut, client>>

Handled(w, e) == thread[w].batch \ {e}

(* EPOLLHUP or EPOLLERR on the listening socket *)
ServerHup(w, e) ==
  /\ e.fd = server_socket /\ e.hup
  /\ Close(server_socket)
  /\ Ends(w)
  /\ UNCHANGED <<main, connection_sockets>>

(* accept() finds no client, because another worker was faster. *)
AcceptAgain(w, e) ==
  /\ e.fd = server_socket /\ ~e.hup
  /\ file[server_socket] = Listening /\ ~shut
  /\ Backlog = {}
  /\ thread' = [thread EXCEPT ![w].batch = Handled(w, e)]
  /\ UNCHANGED <<main, connection_sockets, interest, file, client>>

(* Any other failure: server_socket is closed, and the next call throws. *)
AcceptFails(w, e) ==
  /\ e.fd = server_socket /\ ~e.hup
  /\ Close(server_socket)
  /\ Ends(w)
  /\ UNCHANGED <<main, connection_sockets>>

Accept(w, e) ==
  /\ e.fd = server_socket /\ ~e.hup
  /\ file[server_socket] = Listening /\ ~shut /\ FreeFds # {}
  /\ Backlog # {}
  /\ LET c == Min(Backlog) IN
       /\ file' = [file EXCEPT ![Min(FreeFds)] = Conn(c)]
       /\ connection_sockets' = [connection_sockets EXCEPT ![w] = @ \cup {Min(FreeFds)}]
       /\ interest' = [interest EXCEPT ![w] = @ \cup {Conn(c)}]
       /\ client' = [client EXCEPT ![c].link = "accepted"]
       /\ thread' = [thread EXCEPT ![w].batch = Handled(w, e)]
  /\ \/ UNCHANGED main
     \/ main.pc = "close" /\ main.w = w /\ main' = [main EXCEPT !.todo = @ \cup {Min(FreeFds)}]

(* EPOLLHUP or EPOLLERR on a client socket; epoll_ctl fails if it has been   *)
(* closed meanwhile                                                          *)
ClientHup(w, e) ==
  /\ e.fd # server_socket /\ e.hup /\ e.fd \in connection_sockets[w]
  /\ connection_sockets' = [connection_sockets EXCEPT ![w] = @ \ {e.fd}]
  /\ IF file[e.fd] \in interest[w]
     THEN /\ Close(e.fd)
          /\ thread' = [thread EXCEPT ![w].batch = Handled(w, e)]
     ELSE Ends(w) /\ UNCHANGED <<interest, file, client>>
  /\ UNCHANGED main

(* EPOLLIN on a client socket: ConnectionWork is called. *)
ClientIn(w, e) ==
  /\ e.fd # server_socket /\ ~e.hup /\ e.fd \in connection_sockets[w]
  /\ thread' = [thread EXCEPT ![w].pc = "read", ![w].fd = e.fd, ![w].batch = Handled(w, e)]
  /\ UNCHANGED <<main, connection_sockets, interest, file, client>>

(* The body of the loop over the events.  Its last branch, "Unknown event",   *)
(* is never taken: an event's number leaves connection_sockets only with it. *)
HandleEvent(w) ==
  /\ At(w, "batch")
  /\ \E e \in thread[w].batch :
       \/ ServerHup(w, e) \/ AcceptAgain(w, e) \/ AcceptFails(w, e) \/ Accept(w, e)
       \/ ClientHup(w, e) \/ ClientIn(w, e)
  /\ UNCHANGED <<running, shut>>

-----------------------------------------------------------------------------
(* ConnectionWork(client_socket): what it reads and writes is whatever the   *)
(* number names.                                                             *)

Named(w) == file[thread[w].fd]

Chunk(w) == Named(w) \in Connection /\ client[Named(w)[2]].unread > 0

TakeChunk(w) == Chunk(w) /\ client' = [client EXCEPT ![Named(w)[2]].unread = @ - 1]

(* read() returns 0: parsing nothing finds nothing, and the loop goes on as  *)
(* long as the worker runs, which is a stuttering step.                      *)
AtEof(w) == Named(w) \in Connection /\ ~Chunk(w) /\ client[Named(w)[2]].end = "fin"

SendFails(w) == Named(w) \notin Connection \/ client[Named(w)[2]].end = "rst"

(* Mutant: EAGAIN does not end the loop. *)
Read_Spins(w) ==
  /\ At(w, "read")
  /\ \/ ~running[w] /\ Goes(w, "finish") /\ UNCHANGED client
     \/ /\ running[w] /\ TakeChunk(w)
        /\ Ends(w) \/ \E pc \in {"read", "error", "execute"} : Goes(w, pc)
     \/ /\ running[w] /\ ~Chunk(w) /\ ~(Named(w) \in Connection /\ client[Named(w)[2]].end # "rst")
        /\ Goes(w, "finish") /\ UNCHANGED client
  /\ UNCHANGED <<main, running, connection_sockets, interest, file, shut>>

(* while (running.load()) with read, Parse and Build, which may throw.  On   *)
(* any error, no data yet included, the connection is finished.              *)
Read(w) ==
  /\ At(w, "read")
  /\ \/ ~running[w] /\ Goes(w, "finish") /\ UNCHANGED client
     \/ /\ running[w] /\ TakeChunk(w)
        /\ Ends(w) \/ \E pc \in {"read", "error", "execute"} : Goes(w, pc)
     \/ running[w] /\ ~Chunk(w) /\ ~AtEof(w) /\ Goes(w, "finish") /\ UNCHANGED client
  /\ UNCHANGED <<main, running, connection_sockets, interest, file, shut>>

(* Mutant: the socket is closed here and again after ConnectionWork. *)
ParseError_ClosesTwice(w) ==
  /\ At(w, "error")
  /\ Close(thread[w].fd)
  /\ IF SendFails(w) THEN Ends(w) ELSE Goes(w, "finish")
  /\ UNCHANGED <<main, running, connection_sockets, shut>>

(* "PARSE ERROR" is sent. *)
ParseError(w) ==
  /\ At(w, "error")
  /\ IF SendFails(w) THEN Close(thread[w].fd) /\ Ends(w)
                     ELSE Goes(w, "finish") /\ UNCHANGED <<interest, file, client>>
  /\ UNCHANGED <<main, running, connection_sockets, shut>>

(* Mutant: a chunk is taken that is not there. *)
Execute_NoCheck(w) ==
  /\ At(w, "execute")
  /\ \/ UNCHANGED client
     \/ Named(w) \in Connection /\ client' = [client EXCEPT ![Named(w)[2]].unread = @ - 1]
  /\ IF SendFails(w) THEN Ends(w) ELSE Goes(w, "read")
  /\ UNCHANGED <<main, running, connection_sockets, interest, file, shut>>

(* The data block is collected, the command executed, the result sent.  The  *)
(* loop around the first ignores what read() returns: when there is no data  *)
(* it appends the buffer's old contents until there are enough bytes.  The   *)
(* exception after a failed send leaves OnRun with the socket still open.    *)
Execute(w) ==
  /\ At(w, "execute")
  /\ UNCHANGED client \/ TakeChunk(w)
  /\ IF SendFails(w) THEN Ends(w) ELSE Goes(w, "read")
  /\ UNCHANGED <<main, running, connection_sockets, interest, file, shut>>

(* ConnectionWork returned true: EPOLL_CTL_DEL and close.  The number stays  *)
(* in connection_sockets.                                                    *)
Finish(w) ==
  /\ At(w, "finish")
  /\ Close(thread[w].fd)
  /\ thread' = [thread EXCEPT ![w].pc = "batch", ![w].fd = 1]
  /\ UNCHANGED <<main, running, connection_sockets, shut>>

OnRun(w) ==
  \/ Setup(w) \/ Loop(w) \/ EpollWait(w) \/ HandleEvent(w)
  \/ Read(w) \/ ParseError(w) \/ Execute(w) \/ Finish(w)

-----------------------------------------------------------------------------
(* The clients, numbered in the order in which they connect. *)

ClientConnects(c) ==
  /\ client[c].link = "new" /\ \A d \in 1..(c - 1) : client[d].link # "new"
  /\ file[server_socket] = Listening /\ ~shut
  /\ client' = [client EXCEPT ![c].link = "backlog"]
  /\ UNCHANGED <<main, running, connection_sockets, thread, interest, file, shut>>

(* What a client does before it is accepted is seen only afterwards. *)
Connected(c) == client[c].link = "accepted"

ClientSends(c) ==
  /\ Connected(c) /\ client[c].end = "open" /\ client[c].unread < MaxSends
  /\ client' = [client EXCEPT ![c].unread = @ + 1]
  /\ UNCHANGED <<main, running, connection_sockets, thread, interest, file, shut>>

(* The client closes its end; later, or at once, the connection is reset. *)
ClientCloses(c) ==
  /\ Connected(c)
  /\ \/ client[c].end = "open" /\ client' = [client EXCEPT ![c].end = "fin"]
     \/ client[c].end # "rst" /\ client' = [client EXCEPT ![c].end = "rst"]
  /\ UNCHANGED <<main, running, connection_sockets, thread, interest, file, shut>>

NNext ==
  \/ Main
  \/ \E w \in Worker : OnRun(w)
  \/ \E c \in Client : ClientConnects(c) \/ ClientSends(c) \/ ClientCloses(c)

NSpec == NInit /\ [][NNext]_nvars

(* The worker threads are scheduled, and a Start or Stop that was begun goes  *)
(* on.  Clients owe nothing, and nobody has to call Stop.  The subscripts    *)
(* name what each of these steps changes.                                    *)
NFairSpec ==
  /\ NSpec
  /\ \A w \in Worker : WF_<<thread[w], client>>(OnRun(w))
  /\ WF_main(main.pc \notin {"init", "run"} /\ Main)

-----------------------------------------------------------------------------
(* Properties. *)

BeforeStop == main.pc \in {"start", "run"}

(* Until Stop, every open client socket is watched by exactly one worker and *)
(* is in its connection_sockets, where Stop will look for it; and the client *)
(* socket a worker works on, and those its unhandled events name, are open   *)
(* and its own: no worker reads, writes or closes a descriptor of another,   *)
(* although numbers are used again and stale ones stay in the sets.          *)
OwnDescriptors ==
  BeforeStop =>
    /\ \A f \in Fd : file[f] \in Connection =>
         \E w \in Worker : /\ {v \in Worker : file[f] \in interest[v]} = {w}
                          /\ f \in connection_sockets[w]
    /\ \A w \in Worker :
         /\ thread[w].pc \in InConnection => Named(w) \in interest[w] \cap Connection
         /\ \A e \in thread[w].batch :
              e.fd # server_socket => /\ file[e.fd] \in interest[w] \cap Connection
                                      /\ e.fd \in connection_sockets[w]

(* A worker that can take no new client: its thread has ended, or it reads   *)
(* the end of a stream again and again.                                      *)
Captured(w) == At(w, "done") \/ (At(w, "read") /\ AtEof(w))

NobodySends == [][\A c \in Client : client'[c].unread <= client[c].unread]_client

(* If clients do not send for ever, the backlog is emptied, unless the       *)
(* server is stopped, the listening socket has been closed by a worker, or   *)
(* every worker is captured: a client that is merely silent does not hold up *)
(* the accept, because ConnectionWork gives up when there is nothing to read.*)
BacklogDrained ==
  <>NobodySends =>
    ((Backlog # {} /\ BeforeStop)
       ~> \/ Backlog = {} \/ ~BeforeStop
          \/ file[server_socket] # Listening
          \/ \A w \in Worker : Captured(w))

(* After Stop every thread ends, with one exception: a worker inside         *)
(* epoll_wait whose listening socket another worker has closed.              *)
StopEndsWorkers ==
  main.pc = "joined" ~>
    \A w \in Worker : At(w, "done") \/ (At(w, "wait") /\ file[server_socket] # Listening)
=============================================================================
