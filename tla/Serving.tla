------------------------------ MODULE Serving ------------------------------
(* The server process with all its clients: setting up the socket, the     *)
(* accept loop of server_main.cpp, one Connection thread for each client,  *)
(* descriptors, and the clients from their command line to the .out file.  *)
(* A request is one step here; modules Wire, Program and Parse go into it. *)
EXTENDS Integers, Sequences, FiniteSets, SequencesExt

CONSTANTS
  Clients,
  Null,      \* the NULL of getConnection, and who is at the other end of the
             \* listening socket and of a client that has gone
  Backlog,   \* 10
  Requests,  \* how often each client is started
  Worlds,    \* command lines, faults, fatal and slow requests, number of
             \* descriptors
  Ports,     \* the arguments stol converts
  Mis        \* the pieces of a name that begin with mis

(* The name of a file is a sequence of pieces, of which / and . are two.   *)
ASSUME ServingAssumption ==
  /\ Null \notin Clients /\ {Backlog, Requests} \subseteq Nat
  /\ \A w \in Worlds : w.args \in [Clients -> Seq(Seq(STRING))] /\ w.fds \in Nat
       /\ w.slow \subseteq Clients
  /\ Mis \subseteq STRING \ {"/", "."}

VARIABLES
  world,   \* args of each client; faults; fatal; slow; fds
  stage,   \* the call initializeSocket is at, or the accept loop
  pc,      \* in the loop: accept or start
  cur,     \* connection, in server_main.cpp
  conns,   \* the running Connections
  table,   \* the open descriptors, with the client at the other end
  queue,   \* connections the kernel holds for accept
  up,      \* the process has not died
  client,  \* where each client is
  reply,   \* whose results each client has received
  started, \* how often each client was started
  files    \* the .out files, with whose results they hold

vars == <<world, stage, pc, cur, conns, table, queue, up, client, reply, started, files>>

Calls == <<"socket", "nodelay", "reuse", "bind", "listen">>
Listening == up /\ stage > Len(Calls)

Init ==
  /\ world \in Worlds
  /\ stage = 1 /\ pc = "accept" /\ cur = [fd |-> 0, client |-> Null]
  /\ conns = {} /\ table = <<>> /\ queue = <<>> /\ up = TRUE
  /\ client = [c \in Clients |-> "new"]
  /\ reply = [c \in Clients |-> {}]
  /\ started = [c \in Clients |-> 0]
  /\ files = <<>>

Fault(f) == f \in world.faults
FreeFds == (1..world.fds) \ DOMAIN table
Without(f, x) == [y \in DOMAIN f \ {x} |-> f[y]]
With(f, x, z) == [y \in DOMAIN f \cup {x} |-> IF y = x THEN z ELSE f[y]]

(* The process ends: the clients it has accepted or queued are cut off.    *)
Die ==
  /\ up' = FALSE /\ conns' = {} /\ table' = <<>> /\ queue' = <<>>
  /\ client' = [c \in Clients |-> IF client[c] \in {"queued", "accepted"} THEN "reset"
                                  ELSE client[c]]
  /\ UNCHANGED <<world, stage, pc, cur, reply, started, files>>

-----------------------------------------------------------------------------
(* TCPServerSocket::initializeSocket, whose failure Server throws on.      *)

InitializeSocket ==
  /\ up /\ ~Listening
  /\ stage' = stage + 1
  /\ table' = IF Calls[stage] = "socket" THEN With(table, 1, Null) ELSE table
  /\ UNCHANGED <<world, pc, cur, conns, queue, up, client, reply, started, files>>

InitializeFails == up /\ ~Listening /\ Fault("setup") /\ Die

-----------------------------------------------------------------------------
(* The clients.                                                            *)

LastOf(name, piece) == SelectLastInSeq(name, LAMBDA p : p = piece)
checkFlags(args) == IF args[1] = <<"-f">> THEN 2 ELSE 1
File(args) == args[checkFlags(args) + 2]

(* Mutant of getBasename: the directory is not cut off.                    *)
getBasenamePath(name) == SubSeq(name, 1, LastOf(name, ".") - 1)

(* From the last / to the last ., or to the end if that comes first.       *)
getBasename(name) ==
  LET dir == LastOf(name, "/")
      ext == LastOf(name, ".")
  IN SubSeq(name, dir + 1, IF ext > dir THEN ext - 1 ELSE Len(name))

HasExtension(name) ==
  LET ext == LastOf(name, ".") IN ext \in 1..Len(name) - 1 /\ name[ext + 1] \in Mis

(* The numbers of arguments, the port and the file name are tested before  *)
(* the socket is made; a missing argument behind -f ends the client too.   *)
Valid(args) ==
  /\ Len(args) \in 3..4
  /\ checkFlags(args) + 2 <= Len(args)
  /\ args[checkFlags(args) + 1] \in Ports
  /\ HasExtension(File(args))

Start(c) ==
  /\ client[c] \in {"new", "done"} /\ started[c] < Requests
  /\ started' = [started EXCEPT ![c] = @ + 1]
  /\ client' = [client EXCEPT ![c] = IF Valid(world.args[c]) THEN "connecting" ELSE "refused"]
  /\ reply' = [reply EXCEPT ![c] = {}]
  /\ UNCHANGED <<world, stage, pc, cur, conns, table, queue, up, files>>

(* connect: the kernel takes Backlog + 1 connections ahead of accept.      *)
Connect(c) ==
  /\ client[c] = "connecting" /\ Listening /\ Len(queue) <= Backlog
  /\ queue' = Append(queue, c)
  /\ client' = [client EXCEPT ![c] = "queued"]
  /\ UNCHANGED <<world, stage, pc, cur, conns, table, up, reply, started, files>>

(* A client that cannot connect says so, goes on, and its write of the     *)
(* flag is a SIGPIPE.                                                      *)
CannotConnect(c) ==
  /\ client[c] = "connecting" /\ (~Listening \/ Len(queue) > Backlog)
  /\ client' = [client EXCEPT ![c] = "refused"]
  /\ UNCHANGED <<world, stage, pc, cur, conns, table, queue, up, reply, started, files>>

(* Sixty seconds of silence: what has come, which is nothing, is in the    *)
(* .out file, and the client goes.                                         *)
GiveUp(c) ==
  /\ client[c] = "accepted" /\ c \in world.slow /\ reply[c] = {}
  /\ \E fd \in DOMAIN table : table[fd] = c
  /\ table' = [fd \in DOMAIN table |-> IF table[fd] = c THEN Null ELSE table[fd]]
  /\ files' = With(files, getBasename(File(world.args[c])), reply[c])
  /\ client' = [client EXCEPT ![c] = "done"]
  /\ UNCHANGED <<world, stage, pc, cur, conns, queue, up, reply, started>>

(* The end of the stream: what has come is in the .out file.               *)
Store(c) ==
  /\ client[c] = "accepted" /\ \A fd \in DOMAIN table : table[fd] # c
  /\ files' = With(files, getBasename(File(world.args[c])), reply[c])
  /\ client' = [client EXCEPT ![c] = "done"]
  /\ UNCHANGED <<world, stage, pc, cur, conns, table, queue, up, reply, started>>

-----------------------------------------------------------------------------
(* The accept loop.                                                        *)

Lowest(S) == CHOOSE x \in S : \A y \in S : x <= y

(* getConnection: accept takes the lowest free descriptor.                 *)
GetConnection ==
  /\ Listening /\ pc = "accept" /\ queue # <<>> /\ FreeFds # {}
  /\ cur' = [fd |-> Lowest(FreeFds), client |-> Head(queue)]
  /\ table' = With(table, Lowest(FreeFds), Head(queue))
  /\ client' = [client EXCEPT ![Head(queue)] = "accepted"]
  /\ queue' = Tail(queue) /\ pc' = "start"
  /\ UNCHANGED <<world, stage, conns, up, reply, started, files>>

(* It returns NULL when there is no free descriptor, whether a client is   *)
(* waiting or not, and when the uninitialized sin_size is negative, which  *)
(* costs a client its connection.                                          *)
GetConnectionFails ==
  /\ Listening /\ pc = "accept"
  /\ cur' = [fd |-> 0, client |-> Null] /\ pc' = "start"
  /\ \/ FreeFds = {} /\ UNCHANGED <<queue, client>>
     \/ /\ FreeFds # {} /\ queue # <<>> /\ Fault("accept")
        /\ client' = [client EXCEPT ![Head(queue)] = "reset"]
        /\ queue' = Tail(queue)
  /\ UNCHANGED <<world, stage, conns, table, up, reply, started, files>>

StartConnection ==
  /\ up /\ pc = "start"
  /\ conns' = conns \cup {[fd |-> cur.fd, client |-> cur.client, at |-> "request"]}
  /\ pc' = "accept"
  /\ UNCHANGED <<world, stage, cur, table, queue, up, client, reply, started, files>>

(* c->start() only prints that pthread_create failed.                      *)
CreateFails ==
  /\ up /\ pc = "start" /\ Fault("create")
  /\ pc' = "accept"
  /\ UNCHANGED <<world, stage, cur, conns, table, queue, up, client, reply, started, files>>

-----------------------------------------------------------------------------
(* Connection::threadMainBody, Server::processRequest.                     *)

Move(k, at) == conns' = (conns \ {k}) \cup {[k EXCEPT !.at = at]}

(* Mutant of ProcessRequest: the connection is closed before the results   *)
(* are sent.                                                               *)
ProcessRequestCloses(k) ==
  /\ k.at = "request" /\ k.fd # 0 /\ k.client \notin world.fatal
  /\ Move(k, "results") /\ table' = Without(table, k.fd)
  /\ UNCHANGED <<world, stage, pc, cur, queue, up, client, reply, started, files>>

ProcessRequest(k) ==
  /\ k.at = "request" /\ k.fd # 0 /\ k.client \notin world.fatal
  /\ Move(k, "results")
  /\ UNCHANGED <<world, stage, pc, cur, table, queue, up, client, reply, started, files>>

(* Results for a client that has gone: the second packet is a SIGPIPE.     *)
LateResults(k) == k.at = "results" /\ k.fd \in DOMAIN table /\ table[k.fd] = Null
ResultsKill(k) == LateResults(k) /\ Die

(* NULL->readFromSocketWithTimeout, or a request that ends the process: no *)
(* flag, an empty argument, an exception in a thread...                    *)
RequestDies(k) == k.at = "request" /\ (k.fd = 0 \/ k.client \in world.fatal) /\ Die

returnResults(k) ==
  /\ k.at = "results"
  /\ reply' = [c \in Clients |->
                 IF k.fd \in DOMAIN table /\ table[k.fd] = c THEN reply[c] \cup {k.client}
                 ELSE reply[c]]
  /\ Move(k, "close")
  /\ UNCHANGED <<world, stage, pc, cur, table, queue, up, client, started, files>>

(* Mutant of Close: the connection is not deleted; the client hangs up     *)
(* after sixty silent seconds.                                             *)
CloseNot(k) ==
  /\ k.at = "close"
  /\ conns' = conns \ {k}
  /\ client' = [client EXCEPT ![k.client] = "done"]
  /\ UNCHANGED <<world, stage, pc, cur, table, queue, up, reply, started, files>>

(* delete(connection) and the end of the thread.                           *)
Close(k) ==
  /\ k.at = "close"
  /\ conns' = conns \ {k} /\ table' = Without(table, k.fd)
  /\ UNCHANGED <<world, stage, pc, cur, queue, up, client, reply, started, files>>

Client(c) == Start(c) \/ Connect(c) \/ CannotConnect(c) \/ GiveUp(c) \/ Store(c)
Loop ==
  \/ InitializeSocket \/ InitializeFails \/ GetConnection \/ GetConnectionFails
  \/ StartConnection \/ CreateFails
Serve(k) ==
  ProcessRequest(k) \/ RequestDies(k) \/ returnResults(k) \/ ResultsKill(k) \/ Close(k)

(* Connections that are sure to go on: not those whose program may take as *)
(* long as it likes, or never end.                                         *)
ServeClient(c) ==
  \E k \in conns :
    k.client = c /\ (c \in world.slow => k.at # "request") /\ Serve(k)

Next ==
  \/ \E c \in Clients : Client(c)
  \/ Loop
  \/ \E k \in conns : Serve(k)

(* The main thread and the connections are scheduled, and a client reads   *)
(* to the end of the stream; whether it starts and connects is its affair. *)
Spec ==
  /\ Init /\ [][Next]_vars
  /\ WF_vars(Loop)
  /\ \A c \in Clients : WF_vars(ServeClient(c)) /\ WF_vars(Store(c))

-----------------------------------------------------------------------------
(* The name of a file without directories and without .mis, of names whose *)
(* last component has that form.                                           *)
Stem(name, stem) ==
  \E m \in Mis, d \in 0..Len(name) :
    /\ name = SubSeq(name, 1, d) \o stem \o <<".", m>>
    /\ d = 0 \/ name[d] = "/"
    /\ stem # <<>> /\ \A i \in 1..Len(stem) : stem[i] \notin {"/", "."}
StemOf(c) ==
  LET name == File(world.args[c])
      stems == {SubSeq(name, i, Len(name) - 2) : i \in 1..Len(name)}
  IN IF Valid(world.args[c]) THEN {s \in stems : Stem(name, s)} ELSE {}

(* What the last component of another client's path may not begin with:    *)
(* d.mis/x passes for a program, and its results go to x.out.              *)
Begins(d, stem) ==
  LET name == File(world.args[d]) IN
  /\ Valid(world.args[d])
  /\ \E i \in 0..Len(name) - Len(stem) :
       /\ i = 0 \/ name[i] = "/"
       /\ \A j \in i+1..Len(name) : name[j] # "/"
       /\ SubSeq(name, i + 1, i + Len(stem)) = stem

(* Descriptors are reused as soon as they are closed, by other threads'    *)
(* connections; all the same each client receives its own results and no   *)
(* other's, and they end up in the file called after its program, unless   *)
(* the name of another begins alike (Connection, returnResults, Client).   *)
AnswersReachTheirClient ==
  /\ \A c \in Clients : reply[c] \subseteq {c}
  /\ \A c \in Clients : client[c] = "done" =>
       \A s \in StemOf(c) :
         (\A d \in Clients \ {c} : ~Begins(d, s)) => s \in DOMAIN files /\ files[s] = reply[c]

(* As long as the server runs, each descriptor but the listening one       *)
(* belongs to exactly one connection, which will close it when its request *)
(* ends, unless a thread could not be created; none is used after it was   *)
(* closed, or for another client (delete in processRequest).               *)
Users(fd) ==
  Cardinality({k \in conns : k.fd = fd}) + (IF pc = "start" /\ cur.fd = fd THEN 1 ELSE 0)
DescriptorsReturned ==
  (up /\ ~Fault("create")) =>
    /\ \A fd \in DOMAIN table \ {1} : Users(fd) = 1
    /\ \A k \in conns : k.fd # 0 => k.fd \in DOMAIN table /\ table[k.fd] \in {k.client, Null}

(* Without faults and fatal requests, with a descriptor for each request   *)
(* that may be open, the listening socket and one more, and unless the     *)
(* results of one come too late for its client: every client that got into *)
(* the queue is answered, if its program ends in time, however many others *)
(* come after it or never end (server_main.cpp, one thread per client).    *)
Sound ==
  /\ world.faults = {} /\ world.fatal = {}
  /\ world.fds >= Cardinality(Clients) + (Requests - 1) * Cardinality(world.slow) + 2
NobodyLate == \A k \in conns : ~LateResults(k)
EveryClientServed ==
  \A c \in Clients : []NobodyLate =>
    ((Sound /\ c \notin world.slow /\ client[c] = "queued")
       ~> (client[c] = "done" /\ reply[c] = {c}))
=============================================================================
