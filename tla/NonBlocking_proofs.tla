------------------------- MODULE NonBlocking_proofs -------------------------
(***************************************************************************)
(* Proofs about the epoll server, for any number of workers, clients and   *)
(* descriptors.                                                            *)
(***************************************************************************)
EXTENDS NonBlocking, FiniteSetTheorems, WellFoundedInduction, TLAPS

MainRec == [pc : {"init", "start", "run", "stop", "close", "join", "joined", "failed"},
            w : 1..(n_workers + 1), todo : SUBSET Fd]
ThreadRec == [pc : {"none", "setup", "wait", "batch", "done"} \cup InConnection,
              batch : SUBSET Event, fd : Fd, epoll_fd : Fd]
File == {Free, Listening} \cup Connection \cup {Epoll(w) : w \in Worker}
ClientRec == [link : {"new", "backlog", "accepted", "closed"},
              end : {"open", "fin", "rst"}, unread : 0..MaxSends]

-----------------------------------------------------------------------------
(* Descriptors and files. *)

(* The files are told apart by what they are. *)
LEMMA Files ==
  /\ \A c \in Client : Conn(c) \in Connection /\ Conn(c)[2] = c
  /\ \A o \in Connection : o[2] \in Client /\ o = Conn(o[2])
  /\ Free \notin Connection /\ Listening \notin Connection /\ Free # Listening
  /\ \A w : Epoll(w) \notin Connection /\ Epoll(w) # Listening /\ Epoll(w) # Free
BY DEF Connection, Conn, Free, Listening, Epoll

(* A set of natural numbers that is not empty has a least element. *)
LEMMA LeastElement ==
  ASSUME NEW S \in SUBSET Nat, S # {}
  PROVE  Min(S) \in S
<1> DEFINE R == {p \in Nat \X Nat : p[1] < p[2]}
<1>1. IsWellFoundedOn(R, Nat)
  BY NatLessThanWellFounded DEF OpToRel
<1>2. \E x \in S : \A y \in S : ~(<<y, x>> \in R)
  BY <1>1, WFMin
<1>3. PICK x \in S : \A y \in S : ~(<<y, x>> \in R)
  BY <1>2
<1>4. \A y \in S : x =< y
  <2> TAKE y \in S
  <2>1. <<y, x>> \in Nat \X Nat /\ ~(y < x)
    BY <1>3
  <2>2. QED
    BY <2>1
<1>5. QED
  BY <1>4 DEF Min

(* The number the kernel hands out is free. *)
LEMMA LowestFree == ASSUME FreeFds # {} PROVE Min(FreeFds) \in Fd /\ file[Min(FreeFds)] = Free
<1>1. FreeFds \in SUBSET Nat
  BY DEF FreeFds, Fd
<1>2. Min(FreeFds) \in FreeFds
  BY <1>1, LeastElement
<1>3. QED
  BY <1>2 DEF FreeFds

(* The client that has waited longest. *)
LEMMA FirstWaiting ==
  ASSUME Backlog # {}
  PROVE  Min(Backlog) \in Client /\ client[Min(Backlog)].link = "backlog"
<1>1. Backlog \in SUBSET Nat
  BY DEF Backlog, Client
<1>2. Min(Backlog) \in Backlog
  BY <1>1, LeastElement
<1>3. QED
  BY <1>2 DEF Backlog

(* The types, by their names. *)
LEMMA NTypes ==
  NTypeOK <=>
    /\ main \in MainRec /\ running \in [Worker -> BOOLEAN]
    /\ connection_sockets \in [Worker -> SUBSET Fd] /\ thread \in [Worker -> ThreadRec]
    /\ interest \in [Worker -> SUBSET ({Listening} \cup Connection)]
    /\ file \in [Fd -> File] /\ shut \in BOOLEAN /\ client \in [Client -> ClientRec]
BY DEF NTypeOK, MainRec, ThreadRec, File, ClientRec

(* The same of the next state. *)
LEMMA NTypesNext ==
  NTypeOK' <=>
    /\ main' \in MainRec /\ running' \in [Worker -> BOOLEAN]
    /\ connection_sockets' \in [Worker -> SUBSET Fd] /\ thread' \in [Worker -> ThreadRec]
    /\ interest' \in [Worker -> SUBSET ({Listening} \cup Connection)]
    /\ file' \in [Fd -> File] /\ shut' \in BOOLEAN /\ client' \in [Client -> ClientRec]
BY DEF NTypeOK, MainRec, ThreadRec, File, ClientRec

(* Numbers and records that the steps assign are of their types. *)
LEMMA Constants ==
  /\ 1 \in Fd /\ server_socket \in Fd /\ 0 \in 0..MaxSends /\ Hidden \in ClientRec
  /\ n_workers \in Nat /\ n_workers > 0
BY NonBlockingAssumption DEF Fd, server_socket, Hidden, ClientRec

(* What close() does to the table, the epoll instances and the client. *)
LEMMA CloseType ==
  ASSUME NTypeOK, NEW f \in Fd, Close(f)
  PROVE  /\ file' \in [Fd -> File] /\ client' \in [Client -> ClientRec]
         /\ interest' \in [Worker -> SUBSET ({Listening} \cup Connection)]
         /\ \A g \in Fd : file'[g] = IF g = f THEN Free ELSE file[g]
         /\ \A w \in Worker : interest'[w] = interest[w] \ {file[f]}
         /\ \A c \in Client : client'[c] = IF file[f] = Conn(c) THEN Hidden ELSE client[c]
<1>0. /\ file \in [Fd -> File] /\ client \in [Client -> ClientRec]
      /\ interest \in [Worker -> SUBSET ({Listening} \cup Connection)]
  BY NTypes
<1>1. /\ file' = [file EXCEPT ![f] = Free] /\ Free \in File
      /\ interest' = [w \in Worker |-> interest[w] \ {file[f]}]
  BY DEF Close, File
<1>2. /\ client' \in [Client -> ClientRec]
      /\ \A c \in Client : client'[c] = IF file[f] = Conn(c) THEN Hidden ELSE client[c]
  <2>1. CASE file[f] \in Connection
    <3>1. client' = [client EXCEPT ![file[f][2]] = Hidden]
      BY <2>1 DEF Close
    <3>2. file[f][2] \in Client /\ file[f] = Conn(file[f][2])
      BY <2>1, Files
    <3>3. \A c \in Client : file[f] = Conn(c) <=> c = file[f][2]
      BY <3>2, Files
    <3>4. QED
      BY <1>0, <3>1, <3>2, <3>3, Constants
  <2>2. CASE file[f] \notin Connection
    BY <1>0, <2>2, Files DEF Close
  <2>3. QED
    BY <2>1, <2>2
<1>3. QED
  BY <1>0, <1>1, <1>2
-----------------------------------------------------------------------------
(* The inductive invariant. *)

(* What a worker knows of its own descriptors. *)
WorkerInv(w) ==
  /\ thread[w].pc \in {"none", "setup"} => interest[w] = {} /\ thread[w].batch = {}
  /\ thread[w].pc # "none" => running[w]
  /\ thread[w].pc \in InConnection =>
       /\ Named(w) \in interest[w] \cap Connection
       /\ \A e \in thread[w].batch : e.fd # thread[w].fd
  /\ \A e \in thread[w].batch :
       e.fd # server_socket => file[e.fd] \in interest[w] \cap Connection
  /\ \A d, e \in thread[w].batch : d.fd = e.fd => d = e

(* Each connection has one number and one worker that watches it, and only a *)
(* watched connection is open.                                               *)
TableInv ==
  /\ \A f, g \in Fd : file[f] \in Connection /\ file[f] = file[g] => f = g
  /\ \A f \in Fd : file[f] \in Connection => client[file[f][2]].link = "accepted"
  /\ \A w \in Worker : \A o \in interest[w] \cap Connection :
       (\E f \in Fd : file[f] = o) /\ \A v \in Worker : o \in interest[v] => v = w
  /\ \A f \in Fd : file[f] \in Connection =>
       \E w \in Worker : file[f] \in interest[w] /\ f \in connection_sockets[w]
  /\ file[server_socket] \notin Connection
  /\ \A f \in Fd : file[f] = Listening => f = server_socket

(* Start has not yet reached these workers. *)
StartInv ==
  main.pc \in {"init", "start"} => \A w \in Worker : w >= main.w => thread[w].pc = "none"

DescInv == TableInv /\ StartInv /\ \A w \in Worker : WorkerInv(w)

Early == main.pc \in {"init", "start", "run"}

NInv == NTypeOK /\ main.w \in Worker /\ (Early => DescInv)

(* The invariant gives the property. *)
LEMMA OwnFromInv == NInv => OwnDescriptors
<1> SUFFICES ASSUME NInv, BeforeStop PROVE OwnDescriptors
  BY DEF OwnDescriptors
<1>0. TableInv /\ (\A w \in Worker : WorkerInv(w)) /\ NTypeOK
  BY DEF NInv, Early, BeforeStop, DescInv
<1>1. ASSUME NEW f \in Fd, file[f] \in Connection
      PROVE  \E w \in Worker : /\ {v \in Worker : file[f] \in interest[v]} = {w}
                              /\ f \in connection_sockets[w]
  <2>1. PICK w \in Worker : file[f] \in interest[w] /\ f \in connection_sockets[w]
    BY <1>0, <1>1 DEF TableInv
  <2>2. \A v \in Worker : file[f] \in interest[v] => v = w
    BY <1>0, <1>1, <2>1 DEF TableInv
  <2>3. {v \in Worker : file[f] \in interest[v]} = {w}
    BY <2>1, <2>2
  <2>4. QED
    BY <2>1, <2>3
<1>2. ASSUME NEW w \in Worker, NEW e \in thread[w].batch, e.fd # server_socket
      PROVE  file[e.fd] \in interest[w] \cap Connection /\ e.fd \in connection_sockets[w]
  <2>1. file[e.fd] \in interest[w] \cap Connection
    BY <1>0, <1>2 DEF WorkerInv
  <2>2. thread[w] \in ThreadRec
    BY <1>0, NTypes
  <2>3. e.fd \in Fd
    BY <1>2, <2>2 DEF ThreadRec, Event
  <2>4. PICK v \in Worker : file[e.fd] \in interest[v] /\ e.fd \in connection_sockets[v]
    BY <1>0, <2>1, <2>3 DEF TableInv
  <2>5. v = w
    BY <1>0, <2>1, <2>4 DEF TableInv
  <2>6. QED
    BY <2>1, <2>4, <2>5
<1>3. \A w \in Worker : thread[w].pc \in InConnection => Named(w) \in interest[w] \cap Connection
  BY <1>0 DEF WorkerInv
<1>4. QED
  BY <1>1, <1>2, <1>3 DEF OwnDescriptors

(* The initial state: nothing is open and no thread runs. *)
LEMMA NInitInv == NInit => NInv
<1> SUFFICES ASSUME NInit PROVE NInv
  OBVIOUS
<1>1. NTypeOK
  <2>1. main \in MainRec /\ main.w \in Worker
    BY Constants DEF NInit, MainRec, Worker
  <2>2. \A w \in Worker : thread[w] \in ThreadRec
    BY Constants DEF NInit, ThreadRec
  <2>3. thread \in [Worker -> ThreadRec]
    BY <2>2 DEF NInit
  <2>4. client \in [Client -> ClientRec]
    BY Constants DEF NInit, ClientRec
  <2>5. file \in [Fd -> File]
    BY DEF NInit, File
  <2>6. QED
    BY <2>1, <2>3, <2>4, <2>5, NTypes DEF NInit
<1>2. main.w \in Worker
  BY Constants DEF NInit, Worker
<1>3. TableInv
  BY Files, Constants DEF NInit, TableInv
<1>4. StartInv
  BY DEF NInit, StartInv
<1>5. ASSUME NEW w \in Worker PROVE WorkerInv(w)
  BY DEF NInit, WorkerInv, InConnection
<1>6. QED
  BY <1>1, <1>2, <1>3, <1>4, <1>5 DEF NInv, DescInv
-----------------------------------------------------------------------------
(* Type correctness. *)

(* Worker w goes to another place in its code. *)
LEMMA ThreadGoes ==
  ASSUME NTypeOK, NEW w \in Worker,
         NEW pc \in {"none", "setup", "wait", "batch", "done"} \cup InConnection, Goes(w, pc)
  PROVE  /\ thread' \in [Worker -> ThreadRec] /\ \A v \in Worker \ {w} : thread'[v] = thread[v]
         /\ thread'[w].pc = pc /\ thread'[w].batch = thread[w].batch
         /\ thread'[w].fd = thread[w].fd
<1>1. thread \in [Worker -> ThreadRec]
  BY NTypes
<1>2. QED
  BY <1>1 DEF Goes, ThreadRec

(* One thread's record is replaced. *)
LEMMA ThreadUpdate ==
  ASSUME NTypeOK, NEW w \in Worker, NEW r \in ThreadRec, thread' = [thread EXCEPT ![w] = r]
  PROVE  /\ thread' \in [Worker -> ThreadRec] /\ \A v \in Worker \ {w} : thread'[v] = thread[v]
         /\ thread'[w] = r
<1>1. thread \in [Worker -> ThreadRec]
  BY NTypes
<1>2. QED
  BY <1>1

(* OnRun is left. *)
LEMMA ThreadEnds ==
  ASSUME NTypeOK, NEW w \in Worker, Ends(w)
  PROVE  /\ thread' \in [Worker -> ThreadRec] /\ \A v \in Worker \ {w} : thread'[v] = thread[v]
         /\ thread'[w].pc = "done" /\ thread'[w].batch = {}
<1>1. thread \in [Worker -> ThreadRec]
  BY NTypes
<1>2. [pc |-> "done", batch |-> {}, fd |-> 1, epoll_fd |-> 1] \in ThreadRec
  BY Constants DEF ThreadRec
<1>3. QED
  BY <1>1, <1>2 DEF Ends

(* One event is done with. *)
LEMMA ThreadHandles ==
  ASSUME NTypeOK, NEW w \in Worker, NEW e \in Event,
         thread' = [thread EXCEPT ![w].batch = Handled(w, e)]
  PROVE  /\ thread' \in [Worker -> ThreadRec] /\ \A v \in Worker \ {w} : thread'[v] = thread[v]
         /\ thread'[w].pc = thread[w].pc /\ thread'[w].batch = thread[w].batch \ {e}
         /\ thread'[w].fd = thread[w].fd
<1>1. thread \in [Worker -> ThreadRec]
  BY NTypes
<1>2. Handled(w, e) = thread[w].batch \ {e} /\ Handled(w, e) \in SUBSET Event
  BY <1>1 DEF Handled, ThreadRec
<1>3. QED
  BY <1>1, <1>2 DEF ThreadRec

(* A chunk is read from the connection a number names. *)
LEMMA ChunkType ==
  ASSUME NTypeOK, NEW w \in Worker, TakeChunk(w)
  PROVE  /\ client' \in [Client -> ClientRec]
         /\ \A c \in Client : client'[c].link = client[c].link
<1>1. client \in [Client -> ClientRec]
  BY NTypes
<1>2. PICK c \in Client : c = Named(w)[2]
  BY Files DEF TakeChunk, Chunk
<1>3. client[c].unread > 0 /\ client' = [client EXCEPT ![c].unread = client[c].unread - 1]
  BY <1>1, <1>2 DEF TakeChunk, Chunk
<1>4. client[c].unread - 1 \in 0..MaxSends
  BY <1>1, <1>3, NonBlockingAssumption DEF ClientRec
<1>5. QED
  BY <1>1, <1>3, <1>4 DEF ClientRec

(* The main thread. *)
LEMMA MainType == ASSUME NTypeOK, main.w \in Worker, Main PROVE NTypeOK' /\ main'.w \in Worker
<1>0. /\ main \in MainRec /\ running \in [Worker -> BOOLEAN]
      /\ connection_sockets \in [Worker -> SUBSET Fd] /\ thread \in [Worker -> ThreadRec]
      /\ interest \in [Worker -> SUBSET ({Listening} \cup Connection)]
      /\ file \in [Fd -> File] /\ shut \in BOOLEAN /\ client \in [Client -> ClientRec]
  BY NTypes
<1>1. ASSUME NEW p \in {"start", "run", "stop", "close", "join", "joined", "failed"},
             main' = [main EXCEPT !.pc = p]
      PROVE  main' \in MainRec /\ main'.w \in Worker
  BY <1>0, <1>1 DEF MainRec
<1>2. CASE StartServer
  <2>1. main' \in MainRec /\ main'.w \in Worker
    BY <1>1, <1>2 DEF StartServer
  <2>2. file' \in [Fd -> File]
    BY <1>0, <1>2 DEF StartServer, File
  <2>3. QED
    BY <1>0, <1>2, <2>1, <2>2, NTypesNext DEF StartServer
<1>3. CASE StartWorker
  <2>1. main' \in MainRec /\ main'.w \in Worker
    <3>1. CASE main.w = n_workers
      <4>1. main' = [main EXCEPT !.pc = "run", !.w = 1]
        BY <1>3, <3>1 DEF StartWorker
      <4>2. 1 \in 1..(n_workers + 1) /\ 1 \in Worker
        BY Constants DEF Worker
      <4>3. QED
        BY <1>0, <4>1, <4>2 DEF MainRec
    <3>2. CASE main.w # n_workers
      <4>1. main' = [main EXCEPT !.w = main.w + 1] /\ main.w + 1 \in Worker
        BY <1>0, <1>3, <3>2, Constants DEF StartWorker, Worker, MainRec
      <4>2. main.w + 1 \in 1..(n_workers + 1)
        BY <4>1, Constants DEF Worker
      <4>3. QED
        BY <1>0, <4>1, <4>2 DEF MainRec
    <3>3. QED
      BY <3>1, <3>2
  <2>2. thread' \in [Worker -> ThreadRec] /\ running' \in [Worker -> BOOLEAN]
    BY <1>0, <1>3 DEF StartWorker, ThreadRec
  <2>3. QED
    BY <1>0, <1>3, <2>1, <2>2, NTypesNext DEF StartWorker
<1>4. CASE StopWorker
  <2>1. connection_sockets[main.w] \in SUBSET Fd
    BY <1>0
  <2>2. main' \in MainRec /\ main'.w \in Worker
    BY <1>0, <1>4, <2>1 DEF StopWorker, MainRec
  <2>3. running' \in [Worker -> BOOLEAN]
    BY <1>0, <1>4 DEF StopWorker
  <2>4. QED
    BY <1>0, <1>4, <2>2, <2>3, NTypesNext DEF StopWorker
<1>5. CASE StopClose
  <2>1. PICK f \in main.todo : Close(f) /\ main' = [main EXCEPT !.todo = @ \ {f}]
    BY <1>5 DEF StopClose
  <2>2. f \in Fd /\ main' \in MainRec /\ main'.w \in Worker
    BY <1>0, <2>1 DEF MainRec
  <2>3. QED
    BY <1>0, <1>5, <2>1, <2>2, CloseType, NTypesNext DEF StopClose
<1>6. CASE StopShutdown
  <2>1. main' \in MainRec /\ main'.w \in Worker
    <3>1. CASE main.w = n_workers
      BY <1>1, <1>6, <3>1 DEF StopShutdown
    <3>2. CASE main.w # n_workers
      <4>1. main' = [main EXCEPT !.pc = "stop", !.w = main.w + 1] /\ main.w + 1 \in Worker
        BY <1>0, <1>6, <3>2, Constants DEF StopShutdown, Worker, MainRec
      <4>2. main.w + 1 \in 1..(n_workers + 1)
        BY <4>1, Constants DEF Worker
      <4>3. QED
        BY <1>0, <4>1, <4>2 DEF MainRec
    <3>3. QED
      BY <3>1, <3>2
  <2>2. shut' \in BOOLEAN
    BY <1>6 DEF StopShutdown
  <2>3. QED
    BY <1>0, <1>6, <2>1, <2>2, NTypesNext DEF StopShutdown
<1>7. CASE Join
  BY <1>0, <1>1, <1>7, NTypesNext DEF Join
<1>8. QED
  BY <1>2, <1>3, <1>4, <1>5, <1>6, <1>7 DEF Main

(* The clients. *)
LEMMA ClientType ==
  ASSUME NTypeOK, NEW c \in Client, ClientConnects(c) \/ ClientSends(c) \/ ClientCloses(c)
  PROVE  /\ NTypeOK'
         /\ UNCHANGED <<main, running, connection_sockets, thread, interest, file, shut>>
         /\ \A d \in Client : client[d].link = "accepted" => client'[d].link = "accepted"
<1>0. client \in [Client -> ClientRec]
  BY NTypes
<1>1. UNCHANGED <<main, running, connection_sockets, thread, interest, file, shut>>
  BY DEF ClientConnects, ClientSends, ClientCloses
<1>2. /\ client' \in [Client -> ClientRec]
      /\ \A d \in Client : client[d].link = "accepted" => client'[d].link = "accepted"
  <2>1. CASE ClientConnects(c)
    BY <1>0, <2>1 DEF ClientConnects, ClientRec
  <2>2. CASE ClientSends(c)
    <3>1. client' = [client EXCEPT ![c].unread = client[c].unread + 1]
      BY <1>0, <2>2 DEF ClientSends
    <3>2. client[c].unread + 1 \in 0..MaxSends
      BY <1>0, <2>2, NonBlockingAssumption DEF ClientSends, ClientRec
    <3>3. QED
      BY <1>0, <3>1, <3>2 DEF ClientRec
  <2>3. CASE client' = [client EXCEPT ![c].end = "fin"]
    BY <1>0, <2>3 DEF ClientRec
  <2>4. CASE client' = [client EXCEPT ![c].end = "rst"]
    BY <1>0, <2>4 DEF ClientRec
  <2>5. QED
    BY <2>1, <2>2, <2>3, <2>4 DEF ClientCloses
<1>3. QED
  BY <1>0, <1>1, <1>2, NTypes, NTypesNext

(* A thread handles one of its events, or is in the middle of a connection. *)
LEMMA EventType == ASSUME NTypeOK, NEW w \in Worker, HandleEvent(w) PROVE NTypeOK'
<1>0. /\ main \in MainRec /\ connection_sockets \in [Worker -> SUBSET Fd]
      /\ thread \in [Worker -> ThreadRec] /\ running \in [Worker -> BOOLEAN]
      /\ interest \in [Worker -> SUBSET ({Listening} \cup Connection)]
      /\ file \in [Fd -> File] /\ shut \in BOOLEAN /\ client \in [Client -> ClientRec]
  BY NTypes
<1>1. PICK e \in thread[w].batch :
        \/ ServerHup(w, e) \/ AcceptAgain(w, e) \/ AcceptFails(w, e) \/ Accept(w, e)
        \/ ClientHup(w, e) \/ ClientIn(w, e)
  BY DEF HandleEvent
<1>2. e \in Event /\ e.fd \in Fd
  BY <1>0 DEF ThreadRec, Event
<1>3. running' = running /\ shut' = shut
  BY DEF HandleEvent
<1>4. CASE ServerHup(w, e) \/ AcceptFails(w, e)
  BY <1>0, <1>3, <1>4, ThreadEnds, CloseType, Constants, NTypesNext DEF ServerHup, AcceptFails
<1>5. CASE AcceptAgain(w, e)
  BY <1>0, <1>2, <1>3, <1>5, ThreadHandles, NTypesNext DEF AcceptAgain
<1>6. CASE Accept(w, e)
  <2>0. PICK g \in Fd : g = Min(FreeFds)
    BY <1>6, LowestFree DEF Accept
  <2>1. PICK c \in Client : c = Min(Backlog)
    BY <1>6, FirstWaiting DEF Accept
  <2>2. /\ file' = [file EXCEPT ![g] = Conn(c)]
        /\ connection_sockets' = [connection_sockets EXCEPT ![w] = connection_sockets[w] \cup {g}]
        /\ interest' = [interest EXCEPT ![w] = interest[w] \cup {Conn(c)}]
        /\ client' = [client EXCEPT ![c].link = "accepted"]
        /\ thread' = [thread EXCEPT ![w].batch = Handled(w, e)]
    BY <1>0, <1>6, <2>0, <2>1 DEF Accept
  <2>3. file' \in [Fd -> File] /\ Conn(c) \in Connection
    BY <1>0, <2>2, Files DEF File
  <2>4. interest' \in [Worker -> SUBSET ({Listening} \cup Connection)]
    BY <1>0, <2>2, <2>3
  <2>5. connection_sockets' \in [Worker -> SUBSET Fd]
    BY <1>0, <2>0, <2>2
  <2>6. client' \in [Client -> ClientRec]
    BY <1>0, <2>2 DEF ClientRec
  <2>7. main' \in MainRec
    <3>1. CASE UNCHANGED main
      BY <1>0, <3>1
    <3>2. CASE main' = [main EXCEPT !.todo = main.todo \cup {g}]
      BY <1>0, <2>0, <3>2 DEF MainRec
    <3>3. QED
      BY <1>6, <2>0, <3>1, <3>2 DEF Accept
  <2>8. thread' \in [Worker -> ThreadRec]
    BY <1>2, <2>2, ThreadHandles
  <2>9. QED
    BY <1>0, <1>3, <2>3, <2>4, <2>5, <2>6, <2>7, <2>8, NTypesNext
<1>7. CASE ClientHup(w, e)
  <2>1. connection_sockets' \in [Worker -> SUBSET Fd] /\ main' = main
    BY <1>0, <1>7 DEF ClientHup
  <2>2. CASE file[e.fd] \in interest[w]
    <3>1. Close(e.fd) /\ thread' = [thread EXCEPT ![w].batch = Handled(w, e)]
      BY <1>7, <2>2 DEF ClientHup
    <3>2. QED
      BY <1>0, <1>2, <1>3, <2>1, <3>1, ThreadHandles, CloseType, NTypesNext
  <2>3. CASE file[e.fd] \notin interest[w]
    BY <1>0, <1>3, <1>7, <2>1, <2>3, ThreadEnds, NTypesNext DEF ClientHup
  <2>4. QED
    BY <2>2, <2>3
<1>8. CASE ClientIn(w, e)
  <2>1. Handled(w, e) \in SUBSET Event
    BY <1>0 DEF Handled, ThreadRec
  <2>2. thread' \in [Worker -> ThreadRec]
    <3>1. PICK b \in SUBSET Event : b = Handled(w, e)
      BY <2>1
    <3>2. thread' = [thread EXCEPT ![w].pc = "read", ![w].fd = e.fd, ![w].batch = b]
      BY <1>8, <3>1 DEF ClientIn
    <3>3. PICK r : r = [thread[w] EXCEPT !.pc = "read", !.fd = e.fd, !.batch = b]
      OBVIOUS
    <3>4. "read" \in InConnection /\ thread[w] \in ThreadRec
      BY <1>0 DEF InConnection
    <3>5. r \in ThreadRec
      BY <1>2, <3>3, <3>4 DEF ThreadRec
    <3>6. thread' = [thread EXCEPT ![w] = r]
      BY <3>2, <3>3, Zenon
    <3>7. QED
      BY <3>5, <3>6, ThreadUpdate
  <2>3. QED
    BY <1>0, <1>3, <1>8, <2>2, NTypesNext DEF ClientIn
<1>9. QED
  BY <1>1, <1>4, <1>5, <1>6, <1>7, <1>8

(* All steps of a worker's thread. *)
LEMMA ThreadType == ASSUME NTypeOK, NEW w \in Worker, OnRun(w) PROVE NTypeOK'
<1>0. /\ main \in MainRec /\ connection_sockets \in [Worker -> SUBSET Fd]
      /\ thread \in [Worker -> ThreadRec] /\ running \in [Worker -> BOOLEAN]
      /\ interest \in [Worker -> SUBSET ({Listening} \cup Connection)]
      /\ file \in [Fd -> File] /\ shut \in BOOLEAN /\ client \in [Client -> ClientRec]
  BY NTypes
<1>a. thread[w].fd \in Fd /\ thread[w].epoll_fd \in Fd
  BY <1>0 DEF ThreadRec
<1>1. CASE Setup(w)
  <2>1. CASE Ends(w) /\ UNCHANGED <<interest, file>>
    BY <1>0, <1>1, <2>1, ThreadEnds, NTypesNext DEF Setup
  <2>2. CASE ~(Ends(w) /\ UNCHANGED <<interest, file>>)
    <3>0. PICK g \in Fd : g = Min(FreeFds)
      BY <1>1, <2>2, LowestFree DEF Setup
    <3>1. file' = [file EXCEPT ![g] = Epoll(w)]
      BY <1>1, <2>2, <3>0 DEF Setup
    <3>2. file' \in [Fd -> File]
      BY <1>0, <3>1 DEF File
    <3>3. CASE file'[server_socket] = Listening
      <4>1. /\ interest' = [interest EXCEPT ![w] = {Listening}]
            /\ thread' = [thread EXCEPT ![w].pc = "batch", ![w].epoll_fd = g]
        BY <1>1, <2>2, <3>0, <3>3 DEF Setup
      <4>2. interest' \in [Worker -> SUBSET ({Listening} \cup Connection)]
        BY <1>0, <4>1
      <4>3. thread' \in [Worker -> ThreadRec]
        <5>1. PICK r : r = [thread[w] EXCEPT !.pc = "batch", !.epoll_fd = g]
          OBVIOUS
        <5>2. thread[w] \in ThreadRec
          BY <1>0
        <5>3. r \in ThreadRec
          BY <5>1, <5>2 DEF ThreadRec
        <5>4. thread' = [thread EXCEPT ![w] = r]
          BY <4>1, <5>1, Zenon
        <5>5. QED
          BY <5>3, <5>4, ThreadUpdate
      <4>4. QED
        BY <1>0, <1>1, <3>2, <4>2, <4>3, NTypesNext DEF Setup
    <3>4. CASE file'[server_socket] # Listening
      BY <1>0, <1>1, <2>2, <3>2, <3>4, ThreadEnds, NTypesNext DEF Setup
    <3>5. QED
      BY <3>3, <3>4
  <2>3. QED
    BY <2>1, <2>2
<1>2. CASE Loop(w)
  <2>1. CASE Goes(w, "wait") /\ UNCHANGED <<interest, file, client>>
    BY <1>0, <1>2, <2>1, ThreadGoes, NTypesNext DEF Loop
  <2>2. CASE Ends(w) /\ UNCHANGED <<interest, file, client>>
    BY <1>0, <1>2, <2>2, ThreadEnds, NTypesNext DEF Loop
  <2>3. CASE Ends(w) /\ Close(thread[w].epoll_fd)
    BY <1>0, <1>a, <1>2, <2>3, ThreadEnds, CloseType, NTypesNext DEF Loop
  <2>4. QED
    BY <1>2, <2>1, <2>2, <2>3 DEF Loop
<1>3. CASE EpollWait(w)
  <2>1. thread' \in [Worker -> ThreadRec]
    <3>1. PICK r : r = [thread[w] EXCEPT !.pc = "batch", !.batch = Ready(w)]
      OBVIOUS
    <3>2. thread[w] \in ThreadRec /\ Ready(w) \in SUBSET Event
      BY <1>0 DEF Ready
    <3>3. r \in ThreadRec
      BY <3>1, <3>2 DEF ThreadRec
    <3>4. thread' = [thread EXCEPT ![w] = r]
      BY <1>3, <3>1, Zenon DEF EpollWait
    <3>5. QED
      BY <3>3, <3>4, ThreadUpdate
  <2>2. QED
    BY <1>0, <1>3, <2>1, NTypesNext DEF EpollWait
<1>4. CASE HandleEvent(w)
  BY <1>4, EventType
<1>5. CASE Read(w)
  <2>1. client' \in [Client -> ClientRec]
    BY <1>0, <1>5, ChunkType DEF Read
  <2>2. Ends(w) \/ \E pc \in InConnection : Goes(w, pc)
    BY <1>5 DEF Read, InConnection
  <2>3. thread' \in [Worker -> ThreadRec]
    BY <2>2, ThreadEnds, ThreadGoes
  <2>4. QED
    BY <1>0, <1>5, <2>1, <2>3, NTypesNext DEF Read
<1>6. CASE ParseError(w)
  <2>1. CASE SendFails(w)
    BY <1>0, <1>a, <1>6, <2>1, ThreadEnds, CloseType, NTypesNext DEF ParseError
  <2>2. CASE ~SendFails(w)
    <3>1. Goes(w, "finish") /\ "finish" \in InConnection
      BY <1>6, <2>2 DEF ParseError, InConnection
    <3>2. thread' \in [Worker -> ThreadRec]
      BY <3>1, ThreadGoes
    <3>3. QED
      BY <1>0, <1>6, <2>2, <3>2, NTypesNext DEF ParseError
  <2>3. QED
    BY <2>1, <2>2
<1>7. CASE Execute(w)
  <2>1. client' \in [Client -> ClientRec]
    BY <1>0, <1>7, ChunkType DEF Execute
  <2>2. Ends(w) \/ \E pc \in InConnection : Goes(w, pc)
    BY <1>7 DEF Execute, InConnection
  <2>3. thread' \in [Worker -> ThreadRec]
    BY <2>2, ThreadEnds, ThreadGoes
  <2>4. QED
    BY <1>0, <1>7, <2>1, <2>3, NTypesNext DEF Execute
<1>8. CASE Finish(w)
  <2>1. thread' \in [Worker -> ThreadRec]
    <3>1. PICK r : r = [thread[w] EXCEPT !.pc = "batch", !.fd = 1]
      OBVIOUS
    <3>2. thread[w] \in ThreadRec /\ 1 \in Fd
      BY <1>0, Constants
    <3>3. r \in ThreadRec
      BY <3>1, <3>2 DEF ThreadRec
    <3>4. thread' = [thread EXCEPT ![w] = r]
      BY <1>8, <3>1, Zenon DEF Finish
    <3>5. QED
      BY <3>3, <3>4, ThreadUpdate
  <2>2. QED
    BY <1>0, <1>a, <1>8, <2>1, CloseType, NTypesNext DEF Finish
<1>9. QED
  BY <1>1, <1>2, <1>3, <1>4, <1>5, <1>6, <1>7, <1>8 DEF OnRun
-----------------------------------------------------------------------------
(* The descriptors, until Stop. *)

(* A thread keeps its own knowledge and touches no table. *)
LEMMA QuietKeeps ==
  ASSUME DescInv, NEW w \in Worker, thread[w].pc # "none", WorkerInv(w)',
         UNCHANGED <<main, running, connection_sockets, interest, file>>,
         \A v \in Worker \ {w} : thread'[v] = thread[v],
         \A c \in Client : client[c].link = "accepted" => client'[c].link = "accepted"
  PROVE  DescInv'
<1>1. TableInv'
  BY Files DEF DescInv, TableInv
<1>2. StartInv'
  BY DEF DescInv, StartInv
<1>3. ASSUME NEW v \in Worker PROVE WorkerInv(v)'
  <2>1. CASE v = w
    BY <2>1
  <2>2. CASE v # w
    BY <2>2 DEF DescInv, WorkerInv, Named
  <2>3. QED
    BY <2>1, <2>2
<1>4. QED
  BY <1>1, <1>2, <1>3 DEF DescInv

(* A thread closes a descriptor that is no client's, or its own client's. *)
LEMMA CloseKeeps ==
  ASSUME NTypeOK, DescInv, NEW w \in Worker, thread[w].pc # "none", WorkerInv(w)',
         NEW f \in Fd, Close(f), file[f] \in Connection => file[f] \in interest[w],
         UNCHANGED <<main, running>>,
         \A v \in Worker : connection_sockets[v] \ {f} \subseteq connection_sockets'[v],
         \A v \in Worker \ {w} : thread'[v] = thread[v]
  PROVE  DescInv'
<1>0. TableInv /\ StartInv /\ \A v \in Worker : WorkerInv(v)
  BY DEF DescInv
<1>1. /\ \A g \in Fd : file'[g] = IF g = f THEN Free ELSE file[g]
      /\ \A v \in Worker : interest'[v] = interest[v] \ {file[f]}
      /\ \A c \in Client : client'[c] = IF file[f] = Conn(c) THEN Hidden ELSE client[c]
  BY CloseType
<1>2. \A g \in Fd : file'[g] \in Connection => g # f /\ file'[g] = file[g] /\ file[g] # file[f]
  BY <1>0, <1>1, Files DEF TableInv
<1>3. TableInv'
  <2>1. \A g, h \in Fd : file'[g] \in Connection /\ file'[g] = file'[h] => g = h
    BY <1>0, <1>2 DEF TableInv
  <2>2. \A g \in Fd : file'[g] \in Connection => client'[file'[g][2]].link = "accepted"
    <3> SUFFICES ASSUME NEW g \in Fd, file'[g] \in Connection
                 PROVE  client'[file'[g][2]].link = "accepted"
      OBVIOUS
    <3>1. PICK c \in Client : c = file[g][2] /\ file[g] = Conn(c)
      BY <1>2, Files
    <3>2. client'[c] = client[c]
      BY <1>1, <1>2, <3>1
    <3>3. client[c].link = "accepted"
      BY <1>0, <1>2, <3>1 DEF TableInv
    <3>4. file'[g][2] = c
      BY <1>2, <3>1
    <3>5. QED
      BY <3>2, <3>3, <3>4
  <2>3. \A v \in Worker : \A o \in interest'[v] \cap Connection :
          (\E g \in Fd : file'[g] = o) /\ \A u \in Worker : o \in interest'[u] => u = v
    <3> SUFFICES ASSUME NEW v \in Worker, NEW o \in interest'[v] \cap Connection
                 PROVE  (\E g \in Fd : file'[g] = o) /\ \A u \in Worker : o \in interest'[u] => u = v
      OBVIOUS
    <3>1. o \in interest[v] \cap Connection /\ o # file[f]
      BY <1>1
    <3>2. PICK g \in Fd : file[g] = o
      BY <1>0, <3>1 DEF TableInv
    <3>3. file'[g] = o
      BY <1>1, <3>1, <3>2
    <3>4. \A u \in Worker : o \in interest'[u] => u = v
      BY <1>0, <1>1, <3>1 DEF TableInv
    <3>5. QED
      BY <3>3, <3>4
  <2>4. \A g \in Fd : file'[g] \in Connection =>
          \E v \in Worker : file'[g] \in interest'[v] /\ g \in connection_sockets'[v]
    <3> SUFFICES ASSUME NEW g \in Fd, file'[g] \in Connection
                 PROVE  \E v \in Worker : file'[g] \in interest'[v] /\ g \in connection_sockets'[v]
      OBVIOUS
    <3>1. PICK v \in Worker : file[g] \in interest[v] /\ g \in connection_sockets[v]
      BY <1>0, <1>2 DEF TableInv
    <3>2. QED
      BY <1>1, <1>2, <3>1
  <2>5. file'[server_socket] \notin Connection /\ \A g \in Fd : file'[g] = Listening => g = server_socket
    BY <1>0, <1>1, Files, Constants DEF TableInv
  <2>6. QED
    BY <2>1, <2>2, <2>3, <2>4, <2>5 DEF TableInv
<1>4. StartInv'
  BY <1>0 DEF StartInv
<1>5. ASSUME NEW v \in Worker PROVE WorkerInv(v)'
  <2>1. CASE v = w
    BY <2>1
  <2>2. CASE v # w
    <3>1. thread'[v] = thread[v] /\ running'[v] = running[v] /\ WorkerInv(v)
      BY <1>0, <2>2
    <3>2. thread[v].fd \in Fd /\ \A e \in thread[v].batch : e.fd \in Fd
      BY NTypes DEF ThreadRec, Event
    <3>3. ASSUME NEW g \in Fd, file[g] \in interest[v] \cap Connection
          PROVE  file'[g] = file[g] /\ file[g] \in interest'[v]
      <4>1. file[f] # file[g]
        BY <1>0, <2>2, <3>3 DEF TableInv
      <4>2. QED
        BY <1>1, <3>3, <4>1
    <3>4. thread[v].pc \in {"none", "setup"} => interest'[v] = {}
      BY <1>1, <3>1 DEF WorkerInv
    <3>5. ASSUME thread[v].pc \in InConnection PROVE Named(v)' \in interest'[v] \cap Connection
      <4>1. Named(v) \in interest[v] \cap Connection
        BY <3>1, <3>5 DEF WorkerInv
      <4>2. Named(v) = file[thread[v].fd] /\ Named(v)' = file'[thread[v].fd]
        BY <3>1 DEF Named
      <4>3. QED
        BY <3>2, <3>3, <4>1, <4>2
    <3>6. \A e \in thread[v].batch :
            e.fd # server_socket => file'[e.fd] \in interest'[v] \cap Connection
      BY <3>1, <3>2, <3>3 DEF WorkerInv
    <3>7. QED
      BY <3>1, <3>4, <3>5, <3>6 DEF WorkerInv
  <2>3. QED
    BY <2>1, <2>2
<1>6. QED
  BY <1>3, <1>4, <1>5 DEF DescInv

(* A thread that has ended knows nothing any more. *)
LEMMA EndsInv ==
  ASSUME NTypeOK, NEW w \in Worker, WorkerInv(w), thread[w].pc # "none", Ends(w), running' = running
  PROVE  WorkerInv(w)' /\ \A v \in Worker \ {w} : thread'[v] = thread[v]
<1>1. thread'[w].pc = "done" /\ thread'[w].batch = {} /\ \A v \in Worker \ {w} : thread'[v] = thread[v]
  BY ThreadEnds
<1>2. QED
  BY <1>1 DEF WorkerInv, InConnection

(* The epoll instance is created. *)
LEMMA SetupInv == ASSUME NTypeOK, DescInv, NEW w \in Worker, Setup(w) PROVE DescInv'
<1>0. /\ TableInv /\ StartInv /\ \A v \in Worker : WorkerInv(v)
      /\ thread \in [Worker -> ThreadRec] /\ file \in [Fd -> File]
      /\ interest \in [Worker -> SUBSET ({Listening} \cup Connection)]
  BY NTypes DEF DescInv
<1>1. /\ thread[w].pc = "setup" /\ interest[w] = {} /\ thread[w].batch = {} /\ running[w]
      /\ UNCHANGED <<main, running, connection_sockets, shut, client>>
  BY <1>0 DEF Setup, At, WorkerInv
<1>2. CASE Ends(w) /\ UNCHANGED <<interest, file>>
  BY <1>0, <1>1, <1>2, EndsInv, QuietKeeps
<1>3. CASE ~(Ends(w) /\ UNCHANGED <<interest, file>>)
  <2>0. PICK g \in Fd : g = Min(FreeFds) /\ file[g] = Free
    BY <1>3, LowestFree DEF Setup
  <2>1. file' = [file EXCEPT ![g] = Epoll(w)]
    BY <1>3, <2>0 DEF Setup
  <2>2. \A f \in Fd : file[f] \in Connection \/ file'[f] \in Connection => file'[f] = file[f]
    BY <1>0, <2>0, <2>1, Files
  <2>3. \A f \in Fd : file'[f] = Listening => file[f] = Listening
    BY <1>0, <2>1, Files
  <2>4. /\ WorkerInv(w)' /\ \A v \in Worker \ {w} : thread'[v] = thread[v] /\ interest'[v] = interest[v]
        /\ interest'[w] \cap Connection = {}
    <3>1. CASE file'[server_socket] = Listening
      <4>1. /\ interest' = [interest EXCEPT ![w] = {Listening}]
            /\ thread' = [thread EXCEPT ![w].pc = "batch", ![w].epoll_fd = g]
        BY <1>3, <2>0, <3>1 DEF Setup
      <4>2. thread'[w].pc = "batch" /\ thread'[w].batch = {} /\ interest'[w] = {Listening}
        BY <1>0, <1>1, <4>1 DEF ThreadRec
      <4>3. WorkerInv(w)'
        BY <1>1, <4>2 DEF WorkerInv, InConnection
      <4>4. QED
        BY <1>0, <4>1, <4>2, <4>3, Files
    <3>2. CASE file'[server_socket] # Listening
      <4>1. Ends(w) /\ interest' = interest
        BY <1>3, <3>2 DEF Setup
      <4>2. QED
        BY <1>0, <1>1, <4>1, EndsInv
    <3>3. QED
      BY <3>1, <3>2
  <2>5. \A v \in Worker : interest'[v] \cap Connection = interest[v] \cap Connection
    BY <1>1, <2>4
  <2>6. TableInv'
    <3>1. \A f, h \in Fd : file'[f] \in Connection /\ file'[f] = file'[h] => f = h
      BY <1>0, <2>2 DEF TableInv
    <3>2. \A f \in Fd : file'[f] \in Connection => client'[file'[f][2]].link = "accepted"
      BY <1>0, <1>1, <2>2 DEF TableInv
    <3>3. \A v \in Worker : \A o \in interest'[v] \cap Connection :
            (\E f \in Fd : file'[f] = o) /\ \A u \in Worker : o \in interest'[u] => u = v
      <4> SUFFICES ASSUME NEW v \in Worker, NEW o \in interest'[v] \cap Connection
                   PROVE  (\E f \in Fd : file'[f] = o)
                          /\ \A u \in Worker : o \in interest'[u] => u = v
        OBVIOUS
      <4>1. o \in interest[v] \cap Connection
        BY <2>5
      <4>2. PICK f \in Fd : file[f] = o
        BY <1>0, <4>1 DEF TableInv
      <4>3. file'[f] = o
        BY <2>2, <4>1, <4>2
      <4>4. \A u \in Worker : o \in interest'[u] => u = v
        BY <1>0, <2>5, <4>1 DEF TableInv
      <4>5. QED
        BY <4>3, <4>4
    <3>4. \A f \in Fd : file'[f] \in Connection =>
            \E v \in Worker : file'[f] \in interest'[v] /\ f \in connection_sockets'[v]
      <4> SUFFICES ASSUME NEW f \in Fd, file'[f] \in Connection
                   PROVE  \E v \in Worker : file'[f] \in interest'[v] /\ f \in connection_sockets'[v]
        OBVIOUS
      <4>1. file'[f] = file[f]
        BY <2>2
      <4>2. PICK v \in Worker : file[f] \in interest[v] /\ f \in connection_sockets[v]
        BY <1>0, <4>1 DEF TableInv
      <4>3. QED
        BY <1>1, <2>5, <4>1, <4>2
    <3>5. /\ file'[server_socket] \notin Connection
          /\ \A f \in Fd : file'[f] = Listening => f = server_socket
      BY <1>0, <2>2, <2>3, Constants DEF TableInv
    <3>6. QED
      BY <3>1, <3>2, <3>3, <3>4, <3>5 DEF TableInv
  <2>7. StartInv'
    BY <1>0, <1>1, <2>4 DEF StartInv
  <2>8. ASSUME NEW v \in Worker \ {w} PROVE WorkerInv(v)'
    <3>1. /\ WorkerInv(v) /\ thread'[v] = thread[v] /\ interest'[v] = interest[v]
          /\ running'[v] = running[v]
      BY <1>0, <1>1, <2>4
    <3>2. thread[v].fd \in Fd /\ \A e \in thread[v].batch : e.fd \in Fd
      BY <1>0 DEF ThreadRec, Event
    <3>3. thread[v].pc \in InConnection => Named(v)' \in interest[v] \cap Connection
      BY <2>2, <3>1, <3>2 DEF WorkerInv, Named
    <3>4. \A e \in thread[v].batch :
            e.fd # server_socket => file'[e.fd] \in interest[v] \cap Connection
      BY <2>2, <3>1, <3>2 DEF WorkerInv
    <3>5. QED
      BY <3>1, <3>3, <3>4 DEF WorkerInv
  <2>9. QED
    BY <2>4, <2>6, <2>7, <2>8 DEF DescInv
<1>4. QED
  BY <1>2, <1>3

(* A client is accepted: the lowest free number names its connection, which  *)
(* nobody watched before.                                                    *)
LEMMA AcceptInv ==
  ASSUME NTypeOK, DescInv, Early, NEW w \in Worker, NEW e \in thread[w].batch,
         thread[w].pc = "batch", Accept(w, e), UNCHANGED running
  PROVE  DescInv'
<1>0. /\ TableInv /\ StartInv /\ \A v \in Worker : WorkerInv(v)
      /\ thread \in [Worker -> ThreadRec] /\ file \in [Fd -> File]
      /\ interest \in [Worker -> SUBSET ({Listening} \cup Connection)]
      /\ client \in [Client -> ClientRec] /\ connection_sockets \in [Worker -> SUBSET Fd]
  BY NTypes DEF DescInv
<1>1. PICK g \in Fd : g = Min(FreeFds) /\ file[g] = Free /\ g # server_socket
  BY LowestFree, Files DEF Accept
<1>2. PICK c \in Client : c = Min(Backlog) /\ client[c].link = "backlog"
  BY FirstWaiting DEF Accept
<1>3. /\ file' = [file EXCEPT ![g] = Conn(c)]
      /\ connection_sockets' = [connection_sockets EXCEPT ![w] = connection_sockets[w] \cup {g}]
      /\ interest' = [interest EXCEPT ![w] = interest[w] \cup {Conn(c)}]
      /\ client' = [client EXCEPT ![c].link = "accepted"]
      /\ thread' = [thread EXCEPT ![w].batch = Handled(w, e)]
      /\ main' = main
  <2>1. main' = main
    BY DEF Accept, Early
  <2>2. QED
    BY <1>1, <1>2, <2>1 DEF Accept
<1>4. Conn(c) \in Connection /\ \A f \in Fd : file[f] # Conn(c)
  <2>1. Conn(c) \in Connection /\ Conn(c)[2] = c
    BY Files
  <2>2. \A f \in Fd : file[f] \in Connection => client[file[f][2]].link = "accepted"
    BY <1>0 DEF TableInv
  <2>3. ASSUME NEW f \in Fd, file[f] = Conn(c)
        PROVE  FALSE
    <3>1. client[file[f][2]].link = "accepted"
      BY <2>1, <2>2, <2>3
    <3>2. file[f][2] = c
      BY <2>1, <2>3
    <3>3. QED
      BY <1>2, <3>1, <3>2
  <2>4. QED
    BY <2>1, <2>3
<1>5. \A v \in Worker : Conn(c) \notin interest[v]
  BY <1>0, <1>4 DEF TableInv
<1>6. /\ \A f \in Fd : file'[f] = IF f = g THEN Conn(c) ELSE file[f]
      /\ \A v \in Worker : /\ interest[v] \subseteq interest'[v]
                           /\ connection_sockets[v] \subseteq connection_sockets'[v]
                           /\ v # w => interest'[v] = interest[v]
      /\ interest'[w] = interest[w] \cup {Conn(c)} /\ g \in connection_sockets'[w]
      /\ \A d \in Client : client[d].link = "accepted" => client'[d].link = "accepted"
      /\ client'[c].link = "accepted"
  BY <1>0, <1>3 DEF ClientRec
<1>7. /\ \A v \in Worker \ {w} : thread'[v] = thread[v]
      /\ thread'[w].pc = "batch" /\ thread'[w].batch = thread[w].batch \ {e}
  <2>1. e \in Event
    BY <1>0 DEF ThreadRec
  <2>2. QED
    BY <1>3, <2>1, ThreadHandles
<1>8. TableInv'
  <2>1. \A f, h \in Fd : file'[f] \in Connection /\ file'[f] = file'[h] => f = h
    <3> SUFFICES ASSUME NEW f \in Fd, NEW h \in Fd, file'[f] \in Connection, file'[f] = file'[h]
                 PROVE  f = h
      OBVIOUS
    <3>1. CASE f = g \/ h = g
      BY <1>4, <1>6, <3>1
    <3>2. CASE f # g /\ h # g
      <4>1. file[f] = file[h] /\ file[f] \in Connection
        BY <1>6, <3>2
      <4>2. QED
        BY <1>0, <4>1 DEF TableInv
    <3>3. QED
      BY <3>1, <3>2
  <2>2. \A f \in Fd : file'[f] \in Connection => client'[file'[f][2]].link = "accepted"
    <3> SUFFICES ASSUME NEW f \in Fd, file'[f] \in Connection
                 PROVE  client'[file'[f][2]].link = "accepted"
      OBVIOUS
    <3>1. CASE f = g
      <4>1. file'[f] = Conn(c) /\ Conn(c)[2] = c
        BY <1>6, <3>1, Files
      <4>2. QED
        BY <1>6, <4>1
    <3>2. CASE f # g
      <4>1. file[f] \in Connection /\ file'[f] = file[f] /\ file[f][2] \in Client
        BY <1>6, <3>2, Files
      <4>2. client[file[f][2]].link = "accepted"
        BY <1>0, <4>1 DEF TableInv
      <4>3. QED
        BY <1>6, <4>1, <4>2
    <3>3. QED
      BY <3>1, <3>2
  <2>3. \A v \in Worker : \A o \in interest'[v] \cap Connection :
          (\E f \in Fd : file'[f] = o) /\ \A u \in Worker : o \in interest'[u] => u = v
    <3> SUFFICES ASSUME NEW v \in Worker, NEW o \in interest'[v] \cap Connection
                 PROVE  (\E f \in Fd : file'[f] = o) /\ \A u \in Worker : o \in interest'[u] => u = v
      OBVIOUS
    <3>1. CASE o = Conn(c)
      BY <1>5, <1>6, <3>1
    <3>2. CASE o # Conn(c)
      <4>1. o \in interest[v] \cap Connection
        BY <1>6, <3>2
      <4>2. PICK f \in Fd : file[f] = o
        BY <1>0, <4>1 DEF TableInv
      <4>3. file'[f] = o
        <5>1. f # g
          BY <1>1, <4>1, <4>2, Files
        <5>2. QED
          BY <1>6, <4>2, <5>1
      <4>4. \A u \in Worker : o \in interest'[u] => u = v
        <5>1. ASSUME NEW u \in Worker, o \in interest'[u] PROVE o \in interest[u]
          <6>1. interest'[u] = interest[u] \/ interest'[u] = interest[u] \cup {Conn(c)}
            BY <1>6
          <6>2. QED
            BY <3>2, <5>1, <6>1
        <5>2. QED
          BY <1>0, <4>1, <5>1 DEF TableInv
      <4>5. QED
        BY <4>3, <4>4
    <3>3. QED
      BY <3>1, <3>2
  <2>4. \A f \in Fd : file'[f] \in Connection =>
          \E v \in Worker : file'[f] \in interest'[v] /\ f \in connection_sockets'[v]
    <3> SUFFICES ASSUME NEW f \in Fd, file'[f] \in Connection
                 PROVE  \E v \in Worker : file'[f] \in interest'[v] /\ f \in connection_sockets'[v]
      OBVIOUS
    <3>1. CASE f = g
      BY <1>6, <3>1
    <3>2. CASE f # g
      <4>1. PICK v \in Worker : file[f] \in interest[v] /\ f \in connection_sockets[v]
        BY <1>0, <1>6, <3>2 DEF TableInv
      <4>2. QED
        BY <1>6, <3>2, <4>1
    <3>3. QED
      BY <3>1, <3>2
  <2>5. /\ file'[server_socket] \notin Connection
        /\ \A f \in Fd : file'[f] = Listening => f = server_socket
    <3>1. file'[server_socket] = file[server_socket]
      BY <1>1, <1>6, Constants
    <3>2. \A f \in Fd : file'[f] = Listening => file[f] = Listening
      BY <1>6, Files
    <3>3. QED
      BY <1>0, <3>1, <3>2 DEF TableInv
  <2>6. QED
    BY <2>1, <2>2, <2>3, <2>4, <2>5 DEF TableInv
<1>9. StartInv'
  BY <1>0, <1>3, <1>7 DEF StartInv
<1>10. ASSUME NEW v \in Worker PROVE WorkerInv(v)'
  <2>1. /\ WorkerInv(v) /\ thread'[v].pc = thread[v].pc /\ running'[v] = running[v]
        /\ thread'[v].batch \subseteq thread[v].batch
        /\ v = w => thread'[v].pc = "batch"
        /\ v # w => thread'[v] = thread[v] /\ interest'[v] = interest[v]
    BY <1>0, <1>6, <1>7
  <2>2. thread[v].fd \in Fd /\ \A d \in thread[v].batch : d.fd \in Fd
    BY <1>0 DEF ThreadRec, Event
  <2>3. ASSUME NEW f \in Fd, file[f] \in interest[v] \cap Connection
        PROVE  file'[f] \in interest'[v] \cap Connection
    BY <1>1, <1>6, <2>3, Files
  <2>4. thread'[v].pc \in {"none", "setup"} => interest'[v] = {} /\ thread'[v].batch = {}
    BY <2>1 DEF WorkerInv
  <2>5. thread'[v].pc \in InConnection =>
          /\ Named(v)' \in interest'[v] \cap Connection
          /\ \A d \in thread'[v].batch : d.fd # thread'[v].fd
    <3>1. CASE v = w
      BY <2>1, <3>1 DEF InConnection
    <3>2. CASE v # w
      BY <2>1, <2>2, <2>3, <3>2 DEF WorkerInv, Named
    <3>3. QED
      BY <3>1, <3>2
  <2>6. \A d \in thread'[v].batch :
          d.fd # server_socket => file'[d.fd] \in interest'[v] \cap Connection
    BY <2>1, <2>2, <2>3 DEF WorkerInv
  <2>7. QED
    BY <2>1, <2>4, <2>5, <2>6 DEF WorkerInv
<1>11. QED
  BY <1>8, <1>9, <1>10 DEF DescInv

(* A thread closes the connection that one of its descriptors names and goes *)
(* on with its other events.                                                 *)
LEMMA CloseOwnInv ==
  ASSUME NTypeOK, DescInv, NEW w \in Worker, NEW f \in Fd, Close(f),
         file[f] \in interest[w] \cap Connection, thread[w].pc # "none",
         UNCHANGED <<main, running>>,
         \A v \in Worker : connection_sockets[v] \ {f} \subseteq connection_sockets'[v],
         \A v \in Worker \ {w} : thread'[v] = thread[v],
         thread'[w].pc = "batch", thread'[w].batch \subseteq thread[w].batch,
         \A d \in thread'[w].batch : d.fd # f
  PROVE  DescInv'
<1>0. TableInv /\ WorkerInv(w)
  BY DEF DescInv
<1>1. /\ \A g \in Fd : file'[g] = IF g = f THEN Free ELSE file[g]
      /\ interest'[w] = interest[w] \ {file[f]}
  BY CloseType
<1>2. \A d \in thread[w].batch : d.fd \in Fd
  BY NTypes DEF ThreadRec, Event
<1>3. ASSUME NEW d \in thread'[w].batch, d.fd # server_socket
      PROVE  file'[d.fd] \in interest'[w] \cap Connection
  <2>1. d.fd \in Fd /\ d.fd # f /\ file[d.fd] \in interest[w] \cap Connection
    BY <1>0, <1>2, <1>3 DEF WorkerInv
  <2>2. file[d.fd] # file[f]
    BY <1>0, <2>1 DEF TableInv
  <2>3. QED
    BY <1>1, <2>1, <2>2
<1>4. WorkerInv(w)'
  BY <1>0, <1>3 DEF WorkerInv, InConnection
<1>5. QED
  BY <1>4, CloseKeeps

(* A thread handles one of its events. *)
LEMMA EventInv == ASSUME NTypeOK, DescInv, Early, NEW w \in Worker, HandleEvent(w) PROVE DescInv'
<1>0. /\ TableInv /\ WorkerInv(w) /\ thread \in [Worker -> ThreadRec]
      /\ connection_sockets \in [Worker -> SUBSET Fd]
  BY NTypes DEF DescInv
<1>1. PICK e \in thread[w].batch :
        \/ ServerHup(w, e) \/ AcceptAgain(w, e) \/ AcceptFails(w, e) \/ Accept(w, e)
        \/ ClientHup(w, e) \/ ClientIn(w, e)
  BY DEF HandleEvent
<1>2. e \in Event /\ e.fd \in Fd
  BY <1>0 DEF ThreadRec, Event
<1>3. thread[w].pc = "batch" /\ running' = running
  BY DEF HandleEvent, At
<1>4. CASE ServerHup(w, e) \/ AcceptFails(w, e)
  <2>1. Close(server_socket) /\ Ends(w) /\ UNCHANGED <<main, connection_sockets>>
    BY <1>4 DEF ServerHup, AcceptFails
  <2>2. WorkerInv(w)' /\ \A v \in Worker \ {w} : thread'[v] = thread[v]
    BY <1>0, <1>3, <2>1, EndsInv
  <2>3. file[server_socket] \notin Connection /\ server_socket \in Fd
    BY <1>0, Constants DEF TableInv
  <2>4. QED
    BY <1>3, <2>1, <2>2, <2>3, CloseKeeps
<1>5. CASE AcceptAgain(w, e)
  <2>1. /\ \A v \in Worker \ {w} : thread'[v] = thread[v]
        /\ thread'[w].pc = "batch" /\ thread'[w].batch = thread[w].batch \ {e}
        /\ UNCHANGED <<main, connection_sockets, interest, file, client>>
    BY <1>2, <1>3, <1>5, ThreadHandles DEF AcceptAgain
  <2>2. WorkerInv(w)'
    BY <1>0, <1>3, <2>1 DEF WorkerInv, InConnection
  <2>3. QED
    BY <1>3, <2>1, <2>2, QuietKeeps
<1>6. CASE Accept(w, e)
  BY <1>3, <1>6, AcceptInv
<1>7. CASE ClientHup(w, e)
  <2>1. file[e.fd] \in interest[w] \cap Connection
    BY <1>0, <1>7 DEF ClientHup, WorkerInv
  <2>2. /\ Close(e.fd) /\ thread' = [thread EXCEPT ![w].batch = Handled(w, e)] /\ main' = main
        /\ connection_sockets' = [connection_sockets EXCEPT ![w] = connection_sockets[w] \ {e.fd}]
    BY <1>0, <1>7, <2>1 DEF ClientHup
  <2>3. /\ \A v \in Worker \ {w} : thread'[v] = thread[v]
        /\ thread'[w].pc = "batch" /\ thread'[w].batch = thread[w].batch \ {e}
    BY <1>2, <1>3, <2>2, ThreadHandles
  <2>4. \A d \in thread'[w].batch : d.fd # e.fd
    BY <1>0, <2>3 DEF WorkerInv
  <2>5. \A v \in Worker : connection_sockets[v] \ {e.fd} \subseteq connection_sockets'[v]
    BY <1>0, <2>2
  <2>6. QED
    BY <1>2, <1>3, <2>1, <2>2, <2>3, <2>4, <2>5, CloseOwnInv
<1>8. CASE ClientIn(w, e)
  <2>1. /\ thread' = [thread EXCEPT ![w].pc = "read", ![w].fd = e.fd, ![w].batch = Handled(w, e)]
        /\ UNCHANGED <<main, connection_sockets, interest, file, client>>
    BY <1>8 DEF ClientIn
  <2>2. /\ \A v \in Worker \ {w} : thread'[v] = thread[v]
        /\ thread'[w].pc = "read" /\ thread'[w].fd = e.fd
        /\ thread'[w].batch = thread[w].batch \ {e}
    BY <1>0, <2>1 DEF ThreadRec, Handled
  <2>3. file[e.fd] \in interest[w] \cap Connection
    BY <1>0, <1>8 DEF ClientIn, WorkerInv
  <2>4. WorkerInv(w)'
    BY <1>0, <1>3, <2>1, <2>2, <2>3 DEF WorkerInv, Named
  <2>5. QED
    BY <1>3, <2>1, <2>2, <2>4, QuietKeeps
<1>9. QED
  BY <1>1, <1>4, <1>5, <1>6, <1>7, <1>8

(* A thread inside ConnectionWork stays there with the same socket. *)
LEMMA StaysInv ==
  ASSUME NTypeOK, DescInv, NEW w \in Worker, NEW pc \in InConnection, thread[w].pc \in InConnection,
         Goes(w, pc) \/ Ends(w),
         UNCHANGED <<main, running, connection_sockets, interest, file>>,
         \A c \in Client : client'[c].link = client[c].link
  PROVE  DescInv'
<1>0. WorkerInv(w) /\ thread[w].pc # "none"
  BY DEF DescInv, InConnection
<1>1. CASE Ends(w)
  BY <1>0, <1>1, EndsInv, QuietKeeps
<1>2. CASE Goes(w, pc)
  <2>1. /\ \A v \in Worker \ {w} : thread'[v] = thread[v]
        /\ thread'[w].pc = pc /\ thread'[w].batch = thread[w].batch /\ thread'[w].fd = thread[w].fd
    BY <1>2, ThreadGoes
  <2>2. pc \notin {"none", "setup"}
    BY DEF InConnection
  <2>3. WorkerInv(w)'
    BY <1>0, <2>1, <2>2 DEF WorkerInv, Named
  <2>4. QED
    BY <1>0, <2>1, <2>3, QuietKeeps
<1>3. QED
  BY <1>1, <1>2

(* epoll_wait reports each watched file that has news once. *)
LEMMA WaitInv == ASSUME NTypeOK, DescInv, NEW w \in Worker, EpollWait(w) PROVE DescInv'
<1>0. /\ TableInv /\ WorkerInv(w) /\ thread \in [Worker -> ThreadRec]
      /\ interest \in [Worker -> SUBSET ({Listening} \cup Connection)]
  BY NTypes DEF DescInv
<1>1. /\ thread[w].pc = "wait" /\ thread' = [thread EXCEPT ![w].pc = "batch", ![w].batch = Ready(w)]
      /\ UNCHANGED <<main, running, connection_sockets, interest, file, shut, client>>
  BY DEF EpollWait, At
<1>2. /\ \A v \in Worker \ {w} : thread'[v] = thread[v]
      /\ thread'[w].pc = "batch" /\ thread'[w].batch = Ready(w)
  BY <1>0, <1>1 DEF ThreadRec
<1>3. ASSUME NEW e \in Ready(w), e.fd # server_socket
      PROVE  file[e.fd] \in interest[w] \cap Connection
  <2>1. e.fd \in Fd /\ file[e.fd] \in interest[w]
    BY DEF Ready, Event
  <2>2. file[e.fd] # Listening
    BY <1>0, <1>3, <2>1 DEF TableInv
  <2>3. QED
    BY <1>0, <2>1, <2>2
<1>4. ASSUME NEW d \in Ready(w), NEW e \in Ready(w), d.fd = e.fd
      PROVE  d = e
  <2>1. d \in Event /\ e \in Event /\ d.hup \in Reported(file[d.fd]) /\ e.hup \in Reported(file[d.fd])
    BY <1>4 DEF Ready
  <2>2. d.hup = e.hup
    BY <2>1 DEF Reported
  <2>3. QED
    BY <1>4, <2>1, <2>2 DEF Event
<1>5. WorkerInv(w)'
  BY <1>0, <1>1, <1>2, <1>3, <1>4 DEF WorkerInv, InConnection
<1>6. QED
  BY <1>1, <1>2, <1>5, QuietKeeps

(* All steps of a worker's thread. *)
LEMMA ThreadInv == ASSUME NTypeOK, DescInv, Early, NEW w \in Worker, OnRun(w) PROVE DescInv'
<1>0. /\ TableInv /\ WorkerInv(w) /\ thread[w] \in ThreadRec
  BY NTypes DEF DescInv
<1>a. thread[w].fd \in Fd
  BY <1>0 DEF ThreadRec
<1>1. CASE Setup(w)
  BY <1>1, SetupInv
<1>2. CASE Loop(w)
  <2>1. /\ thread[w].pc = "batch" /\ thread[w].batch = {} /\ running[w]
        /\ UNCHANGED <<main, running, connection_sockets, shut, interest, file, client>>
        /\ Goes(w, "wait") \/ Ends(w)
    BY <1>0, <1>2 DEF Loop, At, WorkerInv
  <2>2. WorkerInv(w)' /\ \A v \in Worker \ {w} : thread'[v] = thread[v]
    <3>1. CASE Ends(w)
      BY <1>0, <2>1, <3>1, EndsInv
    <3>2. CASE Goes(w, "wait")
      <4>1. /\ \A v \in Worker \ {w} : thread'[v] = thread[v]
            /\ thread'[w].pc = "wait" /\ thread'[w].batch = {}
        BY <2>1, <3>2, ThreadGoes
      <4>2. QED
        BY <2>1, <4>1 DEF WorkerInv, InConnection
    <3>3. QED
      BY <2>1, <3>1, <3>2
  <2>3. QED
    BY <2>1, <2>2, QuietKeeps
<1>3. CASE EpollWait(w)
  BY <1>3, WaitInv
<1>4. CASE HandleEvent(w)
  BY <1>4, EventInv
<1>5. CASE Read(w)
  <2>1. thread[w].pc \in InConnection /\ UNCHANGED <<main, running, connection_sockets, interest, file>>
    BY <1>5 DEF Read, At, InConnection
  <2>2. \A c \in Client : client'[c].link = client[c].link
    BY <1>5, ChunkType DEF Read
  <2>3. \E pc \in InConnection : Goes(w, pc) \/ Ends(w)
    BY <1>5 DEF Read, InConnection
  <2>4. QED
    BY <2>1, <2>2, <2>3, StaysInv
<1>6. CASE ParseError(w)
  <2>0. thread[w].pc \in InConnection /\ UNCHANGED <<main, running, connection_sockets>>
    BY <1>6 DEF ParseError, At, InConnection
  <2>1. CASE SendFails(w)
    <3>1. Close(thread[w].fd) /\ Ends(w)
      BY <1>6, <2>1 DEF ParseError
    <3>2. file[thread[w].fd] \in interest[w] /\ thread[w].pc # "none"
      BY <1>0, <2>0 DEF WorkerInv, Named, InConnection
    <3>3. WorkerInv(w)' /\ \A v \in Worker \ {w} : thread'[v] = thread[v]
      BY <1>0, <2>0, <3>1, <3>2, EndsInv
    <3>4. QED
      BY <1>a, <2>0, <3>1, <3>2, <3>3, CloseKeeps
  <2>2. CASE ~SendFails(w)
    <3>1. Goes(w, "finish") /\ "finish" \in InConnection /\ UNCHANGED <<interest, file, client>>
      BY <1>6, <2>2 DEF ParseError, InConnection
    <3>2. QED
      BY <2>0, <3>1, StaysInv
  <2>3. QED
    BY <2>1, <2>2
<1>7. CASE Execute(w)
  <2>1. thread[w].pc \in InConnection /\ UNCHANGED <<main, running, connection_sockets, interest, file>>
    BY <1>7 DEF Execute, At, InConnection
  <2>2. \A c \in Client : client'[c].link = client[c].link
    BY <1>7, ChunkType DEF Execute
  <2>3. \E pc \in InConnection : Goes(w, pc) \/ Ends(w)
    BY <1>7 DEF Execute, InConnection
  <2>4. QED
    BY <2>1, <2>2, <2>3, StaysInv
<1>8. CASE Finish(w)
  <2>1. /\ thread[w].pc \in InConnection /\ thread[w].pc # "none"
        /\ UNCHANGED <<main, running, connection_sockets>> /\ Close(thread[w].fd)
        /\ thread' = [thread EXCEPT ![w].pc = "batch", ![w].fd = 1]
    BY <1>8 DEF Finish, At, InConnection
  <2>2. file[thread[w].fd] \in interest[w] \cap Connection
    BY <1>0, <2>1 DEF WorkerInv, Named
  <2>3. thread \in [Worker -> ThreadRec]
    BY NTypes
  <2>4. /\ \A v \in Worker \ {w} : thread'[v] = thread[v]
        /\ thread'[w].pc = "batch" /\ thread'[w].batch = thread[w].batch
    BY <2>1, <2>3 DEF ThreadRec
  <2>5. \A d \in thread'[w].batch : d.fd # thread[w].fd
    BY <1>0, <2>1, <2>4 DEF WorkerInv
  <2>6. QED
    BY <1>a, <2>1, <2>2, <2>4, <2>5, CloseOwnInv
<1>9. QED
  BY <1>1, <1>2, <1>3, <1>4, <1>5, <1>6, <1>7, <1>8 DEF OnRun

(* Start, up to the moment Stop is called. *)
LEMMA MainInv == ASSUME NTypeOK, main.w \in Worker, DescInv, Early, Main, Early' PROVE DescInv'
<1>0. /\ TableInv /\ StartInv /\ (\A w \in Worker : WorkerInv(w)) /\ main \in MainRec
      /\ thread \in [Worker -> ThreadRec] /\ file \in [Fd -> File] /\ running \in [Worker -> BOOLEAN]
  BY NTypes DEF DescInv
<1>1. CASE StartServer
  <2>1. main.pc = "init" /\ UNCHANGED <<running, connection_sockets, thread, interest, shut, client>>
    BY <1>1 DEF StartServer
  <2>2. main' = [main EXCEPT !.pc = "start"] /\ file' = [file EXCEPT ![server_socket] = Listening]
    BY <1>0, <1>1 DEF StartServer, Early, MainRec
  <2>3. \A f \in Fd : file[f] \in Connection \/ file'[f] \in Connection => file'[f] = file[f]
    BY <1>0, <2>2, Files DEF TableInv
  <2>4. TableInv'
    <3>1. \A f, h \in Fd : file'[f] \in Connection /\ file'[f] = file'[h] => f = h
      BY <1>0, <2>3 DEF TableInv
    <3>2. \A f \in Fd : file'[f] \in Connection => client'[file'[f][2]].link = "accepted"
      BY <1>0, <2>1, <2>3 DEF TableInv
    <3>3. \A v \in Worker : \A o \in interest'[v] \cap Connection :
            (\E f \in Fd : file'[f] = o) /\ \A u \in Worker : o \in interest'[u] => u = v
      <4> SUFFICES ASSUME NEW v \in Worker, NEW o \in interest'[v] \cap Connection
                   PROVE  (\E f \in Fd : file'[f] = o) /\ \A u \in Worker : o \in interest'[u] => u = v
        OBVIOUS
      <4>1. o \in interest[v] \cap Connection
        BY <2>1
      <4>2. PICK f \in Fd : file[f] = o
        BY <1>0, <4>1 DEF TableInv
      <4>3. file'[f] = o
        BY <2>3, <4>1, <4>2
      <4>4. \A u \in Worker : o \in interest'[u] => u = v
        BY <1>0, <2>1, <4>1 DEF TableInv
      <4>5. QED
        BY <4>3, <4>4
    <3>4. \A f \in Fd : file'[f] \in Connection =>
            \E v \in Worker : file'[f] \in interest'[v] /\ f \in connection_sockets'[v]
      BY <1>0, <2>1, <2>3 DEF TableInv
    <3>5. /\ file'[server_socket] \notin Connection
          /\ \A f \in Fd : file'[f] = Listening => f = server_socket
      BY <1>0, <2>2, Files, Constants DEF TableInv
    <3>6. QED
      BY <3>1, <3>2, <3>3, <3>4, <3>5 DEF TableInv
  <2>5. StartInv' /\ \A w \in Worker : thread[w].pc = "none" \/ main'.w > w
    BY <1>0, <2>1, <2>2 DEF StartInv, MainRec, Worker
  <2>6. ASSUME NEW w \in Worker PROVE WorkerInv(w)'
    <3>1. thread[w].fd \in Fd /\ \A e \in thread[w].batch : e.fd \in Fd
      BY <1>0 DEF ThreadRec, Event
    <3>2. thread[w].pc \in InConnection => Named(w)' \in interest[w] \cap Connection
      BY <1>0, <2>1, <2>3, <3>1 DEF WorkerInv, Named
    <3>3. \A e \in thread[w].batch :
            e.fd # server_socket => file'[e.fd] \in interest[w] \cap Connection
      BY <1>0, <2>3, <3>1 DEF WorkerInv
    <3>4. QED
      BY <1>0, <2>1, <3>2, <3>3 DEF WorkerInv
  <2>7. QED
    BY <2>4, <2>5, <2>6 DEF DescInv
<1>2. CASE StartWorker
  <2>1. /\ main.pc = "start" /\ running' = [running EXCEPT ![main.w] = TRUE]
        /\ thread' = [thread EXCEPT ![main.w].pc = "setup"]
        /\ UNCHANGED <<connection_sockets, interest, file, shut, client>>
    BY <1>2 DEF StartWorker
  <2>2. PICK m \in Worker : m = main.w
    OBVIOUS
  <2>3. /\ running'[m] /\ thread'[m].pc = "setup" /\ thread'[m].batch = thread[m].batch
        /\ \A v \in Worker \ {m} : thread'[v] = thread[v] /\ running'[v] = running[v]
    BY <1>0, <2>1, <2>2 DEF ThreadRec
  <2>4. thread[m].pc = "none" /\ WorkerInv(m)
    BY <1>0, <2>1, <2>2 DEF StartInv, Worker
  <2>5. TableInv'
    BY <1>0, <2>1 DEF TableInv
  <2>6. StartInv'
    <3>1. CASE m = n_workers
      BY <1>0, <1>2, <2>2, <3>1 DEF StartWorker, StartInv, MainRec
    <3>2. CASE m # n_workers
      <4>1. main'.w = m + 1 /\ m \in Nat
        BY <1>0, <1>2, <2>2, <3>2 DEF StartWorker, MainRec, Worker
      <4>2. \A w \in Worker : w >= m + 1 => w # m /\ w >= m
        BY <4>1 DEF Worker
      <4>3. QED
        BY <1>0, <2>1, <2>2, <2>3, <4>1, <4>2 DEF StartInv
    <3>3. QED
      BY <3>1, <3>2
  <2>7. ASSUME NEW w \in Worker PROVE WorkerInv(w)'
    <3>1. CASE w = m
      <4>1. thread'[m].batch = {} /\ interest'[m] = {}
        BY <2>1, <2>3, <2>4 DEF WorkerInv
      <4>2. QED
        BY <2>3, <3>1, <4>1 DEF WorkerInv, InConnection
    <3>2. CASE w # m
      <4>1. /\ WorkerInv(w) /\ thread'[w] = thread[w] /\ running'[w] = running[w]
            /\ interest' = interest /\ file' = file
        BY <1>0, <2>1, <2>3, <3>2
      <4>2. QED
        BY <4>1 DEF WorkerInv, Named
    <3>3. QED
      BY <3>1, <3>2
  <2>8. QED
    BY <2>5, <2>6, <2>7 DEF DescInv
<1>3. CASE StopWorker
  BY <1>0, <1>3 DEF StopWorker, Early, MainRec
<1>4. CASE StopClose \/ StopShutdown \/ Join
  BY <1>4 DEF StopClose, StopShutdown, Join, Early
<1>5. QED
  BY <1>1, <1>2, <1>3, <1>4 DEF Main
-----------------------------------------------------------------------------
(* The theorems. *)

(* Every step keeps the invariant. *)
LEMMA NNextInv == NInv /\ [NNext]_nvars => NInv'
<1> SUFFICES ASSUME NInv, [NNext]_nvars PROVE NInv'
  OBVIOUS
<1>0. NTypeOK /\ main.w \in Worker /\ (Early => DescInv)
  BY DEF NInv
<1>1. CASE Main
  <2>1. NTypeOK' /\ main'.w \in Worker
    BY <1>0, <1>1, MainType
  <2>2. ASSUME Early' PROVE DescInv'
    <3>1. Early
      BY <1>0, <1>1, <2>2, NTypes
         DEF Early, Main, StartServer, StartWorker, StopWorker, StopClose, StopShutdown, Join, MainRec
    <3>2. QED
      BY <1>0, <1>1, <2>2, <3>1, MainInv
  <2>3. QED
    BY <2>1, <2>2 DEF NInv
<1>2. ASSUME NEW w \in Worker, OnRun(w) PROVE NInv'
  <2>1. NTypeOK'
    BY <1>0, <1>2, ThreadType
  <2>2. main'.w = main.w /\ main'.pc = main.pc
    <3>1. CASE HandleEvent(w)
      BY <1>0, <3>1, NTypes DEF HandleEvent, ServerHup, AcceptAgain, AcceptFails, Accept, ClientHup,
           ClientIn, MainRec
    <3>2. CASE ~HandleEvent(w)
      BY <1>2, <3>2 DEF OnRun, Setup, Loop, EpollWait, Read, ParseError, Execute, Finish
    <3>3. QED
      BY <3>1, <3>2
  <2>3. Early' => DescInv'
    BY <1>0, <1>2, <2>2, ThreadInv DEF Early
  <2>4. QED
    BY <1>0, <2>1, <2>2, <2>3 DEF NInv
<1>3. ASSUME NEW c \in Client, ClientConnects(c) \/ ClientSends(c) \/ ClientCloses(c) PROVE NInv'
  <2>1. /\ NTypeOK'
        /\ UNCHANGED <<main, running, connection_sockets, thread, interest, file, shut>>
        /\ \A d \in Client : client[d].link = "accepted" => client'[d].link = "accepted"
    BY <1>0, <1>3, ClientType
  <2>2. ASSUME DescInv PROVE DescInv'
    <3>1. TableInv'
      <4>1. \A f \in Fd : file'[f] \in Connection => client'[file'[f][2]].link = "accepted"
        BY <2>1, <2>2, Files DEF DescInv, TableInv
      <4>2. QED
        BY <2>1, <2>2, <4>1 DEF DescInv, TableInv
    <3>2. StartInv' /\ \A w \in Worker : WorkerInv(w)'
      BY <2>1, <2>2 DEF DescInv, StartInv, WorkerInv, Named
    <3>3. QED
      BY <3>1, <3>2 DEF DescInv
  <2>3. QED
    BY <1>0, <2>1, <2>2 DEF NInv, Early
<1>4. CASE UNCHANGED nvars
  <2>1. NTypeOK'
    BY <1>0, <1>4 DEF nvars, NTypeOK
  <2>2. ASSUME DescInv PROVE DescInv'
    <3>1. TableInv'
      BY <1>4, <2>2 DEF nvars, DescInv, TableInv
    <3>2. StartInv'
      BY <1>4, <2>2 DEF nvars, DescInv, StartInv
    <3>3. ASSUME NEW w \in Worker PROVE WorkerInv(w)'
      BY <1>4, <2>2 DEF nvars, DescInv, WorkerInv, Named
    <3>4. QED
      BY <3>1, <3>2, <3>3 DEF DescInv
  <2>3. QED
    BY <1>0, <1>4, <2>1, <2>2 DEF nvars, NInv, Early
<1>5. QED
  BY <1>1, <1>2, <1>3, <1>4 DEF NNext

(* The invariant holds in every state of the server. *)
THEOREM NonBlockingInvariance == NSpec => []NInv
BY NInitInv, NNextInv, PTL DEF NSpec

(* Main thread, workers, descriptor table and clients keep their types: the  *)
(* numbers that accept, epoll_create and the events give are descriptors,    *)
(* and no chunk is read that was not sent.                                   *)
THEOREM NonBlockingTypeCorrect == NSpec => []NTypeOK
<1>1. NInv => NTypeOK
  BY DEF NInv
<1>2. QED
  BY <1>1, NonBlockingInvariance, PTL

(* Until Stop no worker works on, closes or forgets a socket of another, for *)
(* any number of workers and clients, although numbers are used again and    *)
(* closed ones stay in connection_sockets.                                   *)
THEOREM DescriptorsOwned == NSpec => []OwnDescriptors
BY OwnFromInv, NonBlockingInvariance, PTL
=============================================================================
