--------------------------- MODULE BlockingServer ---------------------------
(***************************************************************************)
(* The blocking server src/network/blocking/ServerImpl.{h,cpp}: the main   *)
(* thread (Start, Stop, Join), the acceptor thread (RunAcceptor), which    *)
(* owns a thread pool (module Executor), and one RunConnection per         *)
(* accepted client, run as a task of the pool.                             *)
(*                                                                         *)
(* Task t of the pool is the t-th client handed to it.  What a client      *)
(* sends is a chunk whose meaning (part of a command, a whole one,         *)
(* garbage) is chosen when it is parsed; the storage is behind the one     *)
(* step in which a command executes.                                       *)
(*                                                                         *)
(* Init is the state in which Start has created the acceptor thread.  The  *)
(* pool is constructed when the acceptor has its listening socket.         *)
(***************************************************************************)
EXTENDS Executor

CONSTANTS
  max_workers,   \* Start's second argument
  SystemFails    \* whether socket, bind, listen and accept may fail

ASSUME BlockingAssumption ==
  max_workers \in Nat /\ SystemFails \in BOOLEAN

VARIABLES
  main,          \* the thread that calls Start, Stop and Join
  running,       \* the atomic flag
  server_socket, \* none, open, shut (by shutdown) or closed
  acceptor,      \* where RunAcceptor is
  connections,   \* the threads registered by RunConnection
  conn,          \* per pool thread: where in RunConnection it is
  peer,          \* per client: has it still open its end, is a chunk unread
  served         \* the clients whose socket the server still has open

bvars == <<vars, main, running, server_socket, acceptor, connections, conn, peer, served>>

Client == 1..MaxTasks

NotServing == "none"

BTypeOK ==
  /\ TypeOK
  /\ main \in {"up", "stopping", "joining", "joined"}
  /\ running \in BOOLEAN
  /\ server_socket \in {"none", "open", "shut", "closed"}
  /\ acceptor \in {"start", "loop", "accept", "check", "closing", "wait",
                   "destroy", "destroying", "exited"}
  /\ connections \subseteq Worker
  /\ conn \in [Worker -> {"none", "enter", "check", "read", "parse_error", "build",
                          "body", "execute", "throw", "close", "erase"}]
  /\ peer \in [Client -> [open : BOOLEAN, data : BOOLEAN]]
  /\ served \subseteq Client

BInit ==
  /\ Init
  /\ main = "up" /\ running = TRUE /\ server_socket = "none" /\ acceptor = "start"
  /\ connections = {}
  /\ conn = [w \in Worker |-> NotServing]
  /\ peer = [c \in Client |-> [open |-> TRUE, data |-> FALSE]]
  /\ served = {}

-----------------------------------------------------------------------------
(* The main thread. *)

(* Stop: running.store(false), then shutdown(server_socket). *)
ServerStop ==
  /\ ~terminated /\ main = "up"
  /\ main' = "stopping" /\ running' = FALSE
  /\ UNCHANGED <<vars, server_socket, acceptor, connections, conn, peer, served>>

(* Mutant: Stop only lowers the flag. *)
ServerShutdown_NoShutdown ==
  /\ ~terminated /\ main = "stopping"
  /\ main' = "joining"
  /\ UNCHANGED <<vars, running, server_socket, acceptor, connections, conn, peer, served>>

ServerShutdown ==
  /\ ~terminated /\ main = "stopping"
  /\ main' = "joining"
  /\ server_socket' = IF server_socket = "open" THEN "shut" ELSE server_socket
  /\ UNCHANGED <<vars, running, acceptor, connections, conn, peer, served>>

(* pthread_join(accept_thread) *)
Join ==
  /\ ~terminated /\ main = "joining" /\ acceptor = "exited"
  /\ main' = "joined"
  /\ UNCHANGED <<vars, running, server_socket, acceptor, connections, conn, peer, served>>

-----------------------------------------------------------------------------
(* The acceptor thread. *)

AcceptorAt(pc) == ~terminated /\ acceptor = pc

AcceptorGoes(pc) ==
  /\ acceptor' = pc
  /\ UNCHANGED <<main, running, connections, conn>>

(* socket, setsockopt, bind, listen, and the pool's constructor *)
Listen ==
  /\ AcceptorAt("start")
  /\ \/ server_socket' = "open" /\ AcceptorGoes("loop")
     \/ SystemFails /\ server_socket' = "closed" /\ AcceptorGoes("exited")
  /\ UNCHANGED <<vars, peer, served>>

CheckRunning ==
  /\ AcceptorAt("loop")
  /\ AcceptorGoes(IF running THEN "accept" ELSE "closing")
  /\ UNCHANGED <<vars, server_socket, peer, served>>

(* A client connects.  Bound: no more than MaxTasks are ever handed over. *)
Accept ==
  /\ AcceptorAt("accept") /\ server_socket = "open" /\ accepted < MaxTasks
  /\ AcceptorGoes("check")
  /\ UNCHANGED <<vars, server_socket, peer, served>>

(* accept() fails: the exception leaves RunAcceptor through the pool's       *)
(* destructor; server_socket stays open.                                     *)
AcceptThrows ==
  /\ AcceptorGoes("destroy")
  /\ UNCHANGED <<vars, server_socket, peer, served>>

(* After shutdown() it does so sooner or later, otherwise it only may. *)
AcceptShut == AcceptorAt("accept") /\ server_socket = "shut" /\ AcceptThrows

AcceptFails == AcceptorAt("accept") /\ SystemFails /\ AcceptThrows

Full == Cardinality(connections) >= max_workers

(* The section under connections_mutex. *)
Refuse ==
  /\ AcceptorAt("check") /\ Full
  /\ AcceptorGoes("loop")
  /\ UNCHANGED <<vars, server_socket, peer, served>>

HandOver ==
  /\ AcceptorAt("check") /\ ~Full
  /\ Execute
  /\ served' = served \cup {accepted'}
  /\ AcceptorGoes("loop")
  /\ UNCHANGED <<server_socket, peer>>

(* Execute returned false. *)
HandOverThrows ==
  /\ AcceptorAt("check") /\ ~Full
  /\ Rejected
  /\ AcceptorGoes("destroy")
  /\ UNCHANGED <<vars, server_socket, peer, served>>

CloseServerSocket ==
  /\ AcceptorAt("closing")
  /\ server_socket' = "closed"
  /\ AcceptorGoes("wait")
  /\ UNCHANGED <<vars, peer, served>>

(* The loop around connections_cv.wait ends. *)
WaitConnections ==
  /\ AcceptorAt("wait") /\ connections = {}
  /\ AcceptorGoes("destroy")
  /\ UNCHANGED <<vars, server_socket, peer, served>>

(* ~Executor, on either way out of RunAcceptor *)
DestroyExecutor ==
  /\ AcceptorAt("destroy")
  /\ Stop(TRUE)
  /\ AcceptorGoes("destroying")
  /\ UNCHANGED <<server_socket, peer, served>>

AcceptorExits ==
  /\ AcceptorAt("destroying") /\ stop.pc = "idle"
  /\ AcceptorGoes("exited")
  /\ UNCHANGED <<vars, server_socket, peer, served>>

-----------------------------------------------------------------------------
(* RunConnection(client_socket), as the task of pool thread w. *)

ConnAt(w, pc) == ~terminated /\ worker[w].pc = "run" /\ conn[w] = pc

ConnGoes(w, pc) ==
  /\ conn' = [conn EXCEPT ![w] = pc]
  /\ UNCHANGED <<main, running, server_socket, acceptor>>

Enter(w) ==
  /\ ConnAt(w, "enter")
  /\ connections' = connections \cup {w}
  /\ ConnGoes(w, "check")
  /\ UNCHANGED <<vars, peer, served>>

ConnCheck(w) ==
  /\ ConnAt(w, "check")
  /\ ConnGoes(w, IF running THEN "read" ELSE "close")
  /\ UNCHANGED <<vars, connections, peer, served>>

TakeChunk(w) ==
  LET c == worker[w].job
  IN  peer[c].data /\ peer' = [peer EXCEPT ![c].data = FALSE]

HungUp(w) == ~peer[worker[w].job].open

(* close(client_socket); what is known of the peer is forgotten with it. *)
CloseClient(w) ==
  LET c == worker[w].job
  IN  /\ served' = served \ {c}
      /\ peer' = [peer EXCEPT ![c] = [open |-> FALSE, data |-> FALSE]]

(* read(), blocking while the client is silent; the chunk is parsed.  At the *)
(* end of the stream or on an error the connection is over, unless bytes are *)
(* left in `command' (a chunk that filled buf, which has no terminator       *)
(* then): these keep the loop going as long as the server runs.              *)
Read(w) ==
  /\ ConnAt(w, "read")
  /\ \/ /\ TakeChunk(w)
        /\ \E pc \in {"check", "parse_error", "build"} : ConnGoes(w, pc)
     \/ HungUp(w) /\ UNCHANGED peer /\ \E pc \in {"check", "close"} : ConnGoes(w, pc)
  /\ UNCHANGED <<vars, connections, served>>

(* "PARSE ERROR" is sent; send() can fail only if the client is gone. *)
ParseError(w) ==
  /\ ConnAt(w, "parse_error")
  /\ \/ ConnGoes(w, "close") /\ UNCHANGED <<served, peer>>
     \/ HungUp(w) /\ ConnGoes(w, "throw") /\ CloseClient(w)
  /\ UNCHANGED <<vars, connections>>

(* Build throws for the names Parse accepts and Build does not know. *)
Build(w) ==
  /\ ConnAt(w, "build")
  /\ \E pc \in {"body", "execute", "throw"} : ConnGoes(w, pc)
  /\ UNCHANGED <<vars, connections, peer, served>>

(* The loop that reads the data block looks neither at the flag nor at what  *)
(* read() returns: after the end of the stream it goes on appending the      *)
(* buffer's old contents until there are enough bytes.                       *)
Body(w) ==
  /\ ConnAt(w, "body")
  /\ \/ TakeChunk(w) /\ \E pc \in {"body", "execute"} : ConnGoes(w, pc)
     \/ HungUp(w) /\ ConnGoes(w, "execute") /\ UNCHANGED peer
  /\ UNCHANGED <<vars, connections, served>>

(* Command::Execute on the storage, whose exceptions become SERVER_ERROR,    *)
(* and the reply.                                                            *)
ExecuteAndSend(w) ==
  /\ ConnAt(w, "execute")
  /\ \/ ConnGoes(w, "check") /\ UNCHANGED <<served, peer>>
     \/ HungUp(w) /\ ConnGoes(w, "throw") /\ CloseClient(w)
  /\ UNCHANGED <<vars, connections>>

(* Mutant: the socket is left open. *)
CloseSocket_Leaks(w) ==
  /\ ConnAt(w, "close")
  /\ ConnGoes(w, "erase")
  /\ UNCHANGED <<vars, connections, peer, served>>

CloseSocket(w) ==
  /\ ConnAt(w, "close")
  /\ CloseClient(w)
  /\ ConnGoes(w, "erase")
  /\ UNCHANGED <<vars, connections>>

(* Mutant: the thread stays registered. *)
Leave_NoErase(w) ==
  /\ ConnAt(w, "erase")
  /\ TaskReturns(w)
  /\ ConnGoes(w, NotServing)
  /\ UNCHANGED <<connections, peer, served>>

Leave(w) ==
  /\ ConnAt(w, "erase")
  /\ connections' = connections \ {w}
  /\ TaskReturns(w)
  /\ ConnGoes(w, NotServing)
  /\ UNCHANGED <<peer, served>>

(* An exception leaves RunConnection, and with it the pool thread. *)
Throw(w) ==
  /\ ConnAt(w, "throw")
  /\ TaskThrows(w)
  /\ UNCHANGED <<main, running, server_socket, acceptor, connections, conn, peer, served>>

RunConnection(w) ==
  \/ Enter(w) \/ ConnCheck(w) \/ Read(w) \/ ParseError(w) \/ Build(w) \/ Body(w)
  \/ ExecuteAndSend(w) \/ CloseSocket(w) \/ Leave(w) \/ Throw(w)

-----------------------------------------------------------------------------
(* The pool's own steps, from its construction to its destruction. *)

PoolExists == acceptor \notin {"start", "exited"}

PoolThread(w) ==
  /\ PoolExists
  /\ Perform(w)
  /\ conn' = IF worker'[w].pc = "run" THEN [conn EXCEPT ![w] = "enter"] ELSE conn
  /\ UNCHANGED <<main, running, server_socket, acceptor, connections, peer, served>>

PoolStop ==
  /\ PoolExists
  /\ Stopping
  /\ UNCHANGED <<main, running, server_socket, acceptor, connections, conn, peer, served>>

(* The clients. *)
ClientSends(c) ==
  /\ ~terminated /\ c \in served /\ peer[c].open /\ ~peer[c].data
  /\ peer' = [peer EXCEPT ![c].data = TRUE]
  /\ UNCHANGED <<vars, main, running, server_socket, acceptor, connections, conn, served>>

ClientCloses(c) ==
  /\ ~terminated /\ c \in served /\ peer[c].open
  /\ peer' = [peer EXCEPT ![c].open = FALSE]
  /\ UNCHANGED <<vars, main, running, server_socket, acceptor, connections, conn, served>>

RunAcceptor ==
  \/ Listen \/ CheckRunning \/ AcceptShut \/ Refuse \/ HandOver \/ HandOverThrows
  \/ CloseServerSocket \/ WaitConnections \/ DestroyExecutor \/ AcceptorExits

BNext ==
  \/ ServerStop \/ ServerShutdown \/ Join
  \/ Accept \/ AcceptFails \/ RunAcceptor
  \/ \E w \in Worker : PoolThread(w) \/ RunConnection(w)
  \/ PoolStop
  \/ \E c \in Client : ClientSends(c) \/ ClientCloses(c)

BSpec == BInit /\ [][BNext]_bvars

(* Threads are scheduled, timeouts expire and system calls that do not wait  *)
(* for a client return.  Clients need not do anything, and nobody has to     *)
(* call Stop; once called, it goes on to Join.                               *)
BFairness ==
  /\ WF_bvars(ServerShutdown) /\ WF_bvars(Join)
  /\ WF_bvars(RunAcceptor)
  /\ \A w \in Worker : WF_bvars(PoolThread(w)) /\ WF_bvars(RunConnection(w))
  /\ WF_bvars(PoolStop)

BFairSpec == BSpec /\ BFairness

-----------------------------------------------------------------------------
(* Properties. *)

Serving == {w \in Worker : worker[w].pc = "run"}

(* Every client socket the server holds open is in the pool's queue or in    *)
(* the hands of a thread that will still close it, on every way out of       *)
(* RunConnection: none is leaked.  A queued client's socket is open, a       *)
(* thread that serves a client has that client to itself, and its socket is  *)
(* open until the thread itself has closed it.                               *)
SocketsOwned ==
  /\ \A c \in served :
       \/ \E i \in 1..Len(tasks) : tasks[i] = c
       \/ \E w \in Serving : worker[w].job = c /\ conn[w] # "erase"
  /\ \A i \in 1..Len(tasks) : tasks[i] \in served
  /\ \A w \in Serving : conn[w] \notin {"throw", "erase"} => worker[w].job \in served
  /\ \A v, w \in Serving : worker[v].job = worker[w].job => v = w

(* The set the limit is checked against, and the acceptor waits on, holds    *)
(* exactly the threads that have begun and not finished a connection.        *)
RegisteredAreServing ==
  connections = {w \in Serving : conn[w] # "enter"}

AllHungUp == \A c \in served : ~peer[c].open

(* When Stop has been called, every client has hung up and the pool's queue  *)
(* is empty, Join returns, wherever the acceptor and the connections were.   *)
DrainsAfterStop ==
  (main = "joining" /\ acceptor # "check" /\ tasks = <<>> /\ AllHungUp)
    ~> (main = "joined" \/ terminated)
=============================================================================
