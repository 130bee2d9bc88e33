---------------------------- MODULE ServingProofs ----------------------------
(***************************************************************************)
(* What the server and its clients do for every set of clients, with all   *)
(* faults, any number of descriptors and any command lines.                *)
(*                                                                         *)
(* A descriptor goes from the kernel to getConnection's result, to a       *)
(* Connection, and back.  Nothing in the program says whose it is; that it *)
(* is of one owner at a time, and that the client at its other end waits   *)
(* for that owner, is the invariant.                                       *)
(***************************************************************************)
EXTENDS Serving, Lemmas, TLAPS

Stages == {"new", "connecting", "refused", "queued", "accepted", "reset", "done"}
Taken == DOMAIN table \ {1}

TypeInv ==
  /\ world \in Worlds
  /\ stage \in Nat \ {0}
  /\ pc \in {"accept", "start"}
  /\ cur \in [fd : Nat, client : Clients \cup {Null}]
  /\ conns \subseteq [fd : Nat, client : Clients \cup {Null}, at : {"request", "results", "close"}]
  /\ DOMAIN table \subseteq Nat \ {0}
  /\ queue \in Seq(Clients)
  /\ up \in BOOLEAN
  /\ client \in [Clients -> Stages]

(* Before and after the server listens there is nothing to own.            *)
NothingYet ==
  /\ ~Listening => conns = {} /\ queue = <<>> /\ Taken = {}
  /\ up /\ ~Listening => pc = "accept"
  /\ up /\ stage > 1 => 1 \in DOMAIN table
  /\ 1 \in DOMAIN table => table[1] = Null

(* A client waits at most once, and is connected only while it waits for   *)
(* its answer; the other end of a client that gave up is Null.             *)
Waiting ==
  /\ \A i \in 1..Len(queue) : client[queue[i]] = "queued"
  /\ \A i, j \in 1..Len(queue) : queue[i] = queue[j] => i = j
  /\ \A fd \in Taken :
       table[fd] # Null => table[fd] \in Clients /\ client[table[fd]] = "accepted"

Owned ==
  /\ \A k \in conns : k.fd # 0 => k.fd \in Taken /\ table[k.fd] \in {k.client, Null}
  /\ \A k, l \in conns : k.fd # 0 /\ k.fd = l.fd => k = l
  /\ up /\ pc = "start" /\ cur.fd # 0 =>
       /\ cur.fd \in Taken /\ table[cur.fd] \in {cur.client, Null}
       /\ \A k \in conns : k.fd # cur.fd
  /\ up /\ ~Fault("create") => \A fd \in Taken :
       (\E k \in conns : k.fd = fd) \/ (pc = "start" /\ cur.fd = fd)

(* Only a client with a proper command line gets so far.                   *)
Checked ==
  \A c \in Clients :
    client[c] \in {"connecting", "queued", "accepted", "done"} => Valid(world.args[c])

IInv ==
  /\ TypeInv
  /\ NothingYet
  /\ Waiting
  /\ Owned
  /\ Checked
  /\ AnswersReachTheirClient

-----------------------------------------------------------------------------
(* The names of files depend on the command lines alone.                   *)
LEMMA NamesKept ==
  ASSUME world' = world
  PROVE  /\ \A c \in Clients : StemOf(c)' = StemOf(c)
         /\ \A d \in Clients : \A s : Begins(d, s)' <=> Begins(d, s)
<1>1. \A c \in Clients : StemOf(c)' = StemOf(c)
  BY DEF StemOf
<1>2. \A d \in Clients : \A s : Begins(d, s)' <=> Begins(d, s)
  BY DEF Begins
<1> QED
  BY <1>1, <1>2

(* A step that stores nothing and tells no client anything.                *)
LEMMA AnswersKept ==
  ASSUME IInv, UNCHANGED <<world, reply, files>>,
         \A c \in Clients : client'[c] = "done" => client[c] = "done"
  PROVE  AnswersReachTheirClient'
<1>1. AnswersReachTheirClient
  BY DEF IInv
<1> QED
  BY <1>1, NamesKept DEF AnswersReachTheirClient

LEMMA InitIInv == Init => IInv
<1> SUFFICES ASSUME Init PROVE IInv
  OBVIOUS
<1>1. TypeInv
  BY DEF Init, TypeInv, Stages
<1>2. NothingYet /\ Waiting /\ Owned
  BY DEF Init, NothingYet, Waiting, Owned, Listening, Calls, Taken
<1>3. Checked /\ AnswersReachTheirClient
  BY DEF Init, Checked, AnswersReachTheirClient
<1> QED
  BY <1>1, <1>2, <1>3 DEF IInv

(* The end of the process takes everything with it.                        *)
LEMMA DieStep ==
  ASSUME IInv, Die
  PROVE  IInv'
<1>0. TypeInv /\ Checked
  BY DEF IInv
<1>1. /\ up' = FALSE /\ conns' = {} /\ table' = <<>> /\ queue' = <<>>
      /\ UNCHANGED <<world, stage, pc, cur, reply, started, files>>
      /\ client' = [c \in Clients |-> IF client[c] \in {"queued", "accepted"} THEN "reset"
                                      ELSE client[c]]
  BY DEF Die
<1>2. TypeInv'
  <2>1. client' \in [Clients -> Stages]
    BY <1>0, <1>1 DEF TypeInv, Stages
  <2>2. DOMAIN table' \subseteq Nat \ {0} /\ queue' \in Seq(Clients)
    BY <1>1
  <2> QED
    BY <1>0, <1>1, <2>1, <2>2 DEF TypeInv, Stages
<1>3. NothingYet' /\ Waiting' /\ Owned'
  <2>1. DOMAIN table' = {} /\ Len(queue') = 0
    BY <1>1
  <2> QED
    BY <1>1, <2>1 DEF NothingYet, Waiting, Owned, Taken
<1>4. Checked' /\ AnswersReachTheirClient'
  BY <1>0, <1>1, AnswersKept DEF Checked
<1> QED
  BY <1>2, <1>3, <1>4 DEF IInv

-----------------------------------------------------------------------------
(* The server.                                                             *)

LEMMA InitializeSocketStep ==
  ASSUME IInv, InitializeSocket
  PROVE  IInv'
<1>0. /\ TypeInv /\ NothingYet /\ Waiting /\ Owned /\ Checked
      /\ up /\ ~Listening /\ stage' = stage + 1
      /\ UNCHANGED <<world, pc, cur, conns, queue, up, client, reply, started, files>>
  BY DEF IInv, InitializeSocket
<1>1. stage \in 1..5
  BY <1>0 DEF TypeInv, Stages, Listening, Calls
<1>2. table' = IF stage = 1 THEN With(table, 1, Null) ELSE table
  BY <1>1 DEF InitializeSocket, Calls
<1>3. /\ DOMAIN table' = IF stage = 1 THEN DOMAIN table \cup {1} ELSE DOMAIN table
      /\ stage = 1 => table'[1] = Null
      /\ \A fd \in Taken : table'[fd] = table[fd]
      /\ Taken' = Taken
  BY <1>2 DEF With, Taken
<1>4. TypeInv'
  BY <1>0, <1>1, <1>3 DEF TypeInv, Stages
<1>5. NothingYet'
  BY <1>0, <1>1, <1>2, <1>3 DEF NothingYet
<1>6. Waiting' /\ Owned'
  BY <1>0, <1>3 DEF Waiting, Owned, Fault, NothingYet
<1>7. Checked' /\ AnswersReachTheirClient'
  BY <1>0, AnswersKept DEF Checked
<1> QED
  BY <1>4, <1>5, <1>6, <1>7 DEF IInv

(* The lowest free descriptor is nobody's.                                 *)
LEMMA LowestIsFree ==
  ASSUME IInv, Listening, FreeFds # {}
  PROVE  /\ Lowest(FreeFds) \in Nat \ {0} /\ Lowest(FreeFds) \notin DOMAIN table
         /\ Lowest(FreeFds) # 1
<1>1. FreeFds \subseteq Nat
  BY DEF FreeFds
<1>2. \E x \in FreeFds : \A y \in FreeFds : x <= y
  BY <1>1, LeastNat
<1>3. Lowest(FreeFds) \in FreeFds
  BY <1>2 DEF Lowest
<1>4. FreeFds \cap DOMAIN table = {} /\ \A x \in FreeFds : x # 0
  BY DEF FreeFds
<1>5. 1 \in DOMAIN table
  BY DEF IInv, TypeInv, NothingYet, Listening, Calls
<1> QED
  BY <1>1, <1>3, <1>4, <1>5

(* The client at the head of the queue leaves it.                          *)
LEMMA HeadOfQueue ==
  ASSUME IInv, queue # <<>>
  PROVE  /\ Head(queue) \in Clients /\ client[Head(queue)] = "queued"
         /\ Tail(queue) \in Seq(Clients)
         /\ \A i \in 1..Len(Tail(queue)) :
              /\ i + 1 \in 1..Len(queue) /\ Tail(queue)[i] = queue[i + 1]
              /\ Tail(queue)[i] # Head(queue)
<1>1. queue \in Seq(Clients) /\ Len(queue) \in Nat /\ 1 \in 1..Len(queue)
  BY DEF IInv, TypeInv
<1>2. Head(queue) = queue[1]
  BY <1>1
<1>3. /\ Tail(queue) \in Seq(Clients) /\ Len(Tail(queue)) = Len(queue) - 1
      /\ \A i \in 1..Len(queue)-1 : Tail(queue)[i] = queue[i + 1]
  BY <1>1, HeadTailProperties
<1>4. \A i \in 1..Len(queue)-1 : i + 1 \in 1..Len(queue) /\ i + 1 # 1
  BY <1>1
<1> QED
  BY <1>1, <1>2, <1>3, <1>4 DEF IInv, Waiting

LEMMA GetConnectionStep ==
  ASSUME IInv, GetConnection
  PROVE  IInv'
<1> DEFINE fd == Lowest(FreeFds)
           c == Head(queue)
<1>0. /\ TypeInv /\ NothingYet /\ Waiting /\ Owned /\ Checked
      /\ Listening /\ pc = "accept" /\ queue # <<>> /\ FreeFds # {}
      /\ cur' = [fd |-> fd, client |-> c]
      /\ table' = With(table, fd, c)
      /\ client' = [client EXCEPT ![c] = "accepted"]
      /\ queue' = Tail(queue) /\ pc' = "start"
      /\ UNCHANGED <<world, stage, conns, up, reply, started, files>>
  BY DEF IInv, GetConnection
<1>1. fd \in Nat \ {0} /\ fd \notin DOMAIN table /\ fd # 1
  BY <1>0, LowestIsFree
<1>2. /\ c \in Clients /\ client[c] = "queued" /\ queue' \in Seq(Clients)
      /\ \A i \in 1..Len(queue') : i + 1 \in 1..Len(queue) /\ queue'[i] = queue[i + 1] /\ queue'[i] # c
  BY <1>0, HeadOfQueue
<1> HIDE DEF fd, c
<1>3. /\ DOMAIN table' = DOMAIN table \cup {fd} /\ table'[fd] = c
      /\ \A x \in DOMAIN table : table'[x] = table[x]
  BY <1>0, <1>1 DEF With
<1>4. Taken' = Taken \cup {fd}
  BY <1>1, <1>3 DEF Taken
<1>5. /\ client'[c] = "accepted" /\ \A d \in Clients \ {c} : client'[d] = client[d]
  BY <1>0, <1>2 DEF TypeInv, Stages
<1>6. TypeInv'
  BY <1>0, <1>1, <1>2, <1>3 DEF TypeInv, Stages
<1>7. Listening'
  BY <1>0 DEF Listening
<1>8. NothingYet'
  BY <1>0, <1>1, <1>3, <1>7 DEF NothingYet
<1>9. Waiting'
  <2>1. \A i \in 1..Len(queue') : client'[queue'[i]] = "queued"
    <3>1. \A i \in 1..Len(queue) : queue[i] \in Clients /\ client[queue[i]] = "queued"
      BY <1>0 DEF Waiting, TypeInv
    <3> QED
      BY <1>2, <1>5, <3>1
  <2>2. \A i, j \in 1..Len(queue') : queue'[i] = queue'[j] => i = j
    BY <1>0, <1>2 DEF Waiting
  <2>3. \A x \in Taken' :
          table'[x] # Null => table'[x] \in Clients /\ client'[table'[x]] = "accepted"
    BY <1>0, <1>2, <1>3, <1>4, <1>5 DEF Waiting, Taken
  <2> QED
    BY <2>1, <2>2, <2>3 DEF Waiting
<1>10. Owned'
  <2>1. \A k \in conns : k.fd # 0 => k.fd \in Taken' /\ table'[k.fd] \in {k.client, Null}
    BY <1>0, <1>3, <1>4 DEF Owned, Taken
  <2>2. \A k \in conns : k.fd # fd
    BY <1>0, <1>1 DEF Owned, Taken
  <2>3. cur'.fd = fd /\ cur'.client = c
    BY <1>0
  <2>4. Fault("create")' <=> Fault("create")
    BY <1>0 DEF Fault
  <2>5. ~Fault("create") => \A x \in Taken : \E k \in conns : k.fd = x
    BY <1>0 DEF Owned, Listening
  <2> QED
    BY <1>0, <1>3, <1>4, <2>1, <2>2, <2>3, <2>4, <2>5 DEF Owned
<1>11. Checked' /\ AnswersReachTheirClient'
  BY <1>0, <1>2, <1>5, AnswersKept DEF Checked
<1> QED
  BY <1>6, <1>8, <1>9, <1>10, <1>11 DEF IInv

LEMMA GetConnectionFailsStep ==
  ASSUME IInv, GetConnectionFails
  PROVE  IInv'
<1> DEFINE c == Head(queue)
<1>0. /\ TypeInv /\ NothingYet /\ Waiting /\ Owned /\ Checked
      /\ Listening /\ pc = "accept" /\ pc' = "start"
      /\ cur' = [fd |-> 0, client |-> Null]
      /\ UNCHANGED <<world, stage, conns, table, up, reply, started, files>>
  BY DEF IInv, GetConnectionFails
<1>1. /\ queue' \in Seq(Clients)
      /\ client' \in [Clients -> Stages]
      /\ \A i \in 1..Len(queue') : client'[queue'[i]] = "queued"
      /\ \A i, j \in 1..Len(queue') : queue'[i] = queue'[j] => i = j
      /\ \A d \in Clients : client'[d] = client[d] \/ (client[d] = "queued" /\ client'[d] = "reset")
  <2>1. CASE UNCHANGED <<queue, client>>
    <3>1. queue' = queue /\ client' = client
      BY <2>1
    <3>2. \A i \in 1..Len(queue') : client'[queue'[i]] = "queued"
      BY <1>0, <3>1 DEF Waiting
    <3>3. \A i, j \in 1..Len(queue') : queue'[i] = queue'[j] => i = j
      BY <1>0, <3>1 DEF Waiting
    <3>4. queue' \in Seq(Clients) /\ client' \in [Clients -> Stages]
      BY <1>0, <3>1 DEF TypeInv, Stages
    <3> QED
      BY <3>1, <3>2, <3>3, <3>4
  <2>2. CASE queue # <<>> /\ client' = [client EXCEPT ![c] = "reset"] /\ queue' = Tail(queue)
    <3>1. /\ c \in Clients /\ client[c] = "queued" /\ queue' \in Seq(Clients)
          /\ \A i \in 1..Len(queue') : i + 1 \in 1..Len(queue) /\ queue'[i] = queue[i + 1] /\ queue'[i] # c
      BY <2>2, HeadOfQueue
    <3> HIDE DEF c
    <3>2. /\ client'[c] = "reset" /\ \A d \in Clients \ {c} : client'[d] = client[d]
      BY <1>0, <2>2, <3>1 DEF TypeInv, Stages
    <3>0. \A i \in 1..Len(queue) : queue[i] \in Clients /\ client[queue[i]] = "queued"
      BY <1>0 DEF Waiting, TypeInv
    <3>3. \A i \in 1..Len(queue') : client'[queue'[i]] = "queued"
      BY <3>0, <3>1, <3>2
    <3>4. \A i, j \in 1..Len(queue') : queue'[i] = queue'[j] => i = j
      BY <1>0, <3>1 DEF Waiting
    <3>5. client' \in [Clients -> Stages]
      BY <1>0, <2>2, <3>1 DEF TypeInv, Stages
    <3>6. \A d \in Clients : client'[d] = client[d] \/ (client[d] = "queued" /\ client'[d] = "reset")
      BY <3>1, <3>2
    <3> QED
      BY <3>1, <3>3, <3>4, <3>5, <3>6
  <2> QED
    BY <2>1, <2>2 DEF GetConnectionFails
<1>2. TypeInv'
  BY <1>0, <1>1 DEF TypeInv, Stages
<1>3. Taken' = Taken /\ Listening' /\ (Fault("create")' <=> Fault("create"))
  BY <1>0 DEF Taken, Listening, Fault
<1>4. NothingYet'
  BY <1>0, <1>3 DEF NothingYet
<1>5. Waiting'
  BY <1>0, <1>1, <1>3 DEF Waiting
<1>6. Owned'
  BY <1>0, <1>3 DEF Owned, Listening
<1>7. Checked' /\ AnswersReachTheirClient'
  BY <1>0, <1>1, AnswersKept DEF Checked
<1> QED
  BY <1>2, <1>4, <1>5, <1>6, <1>7 DEF IInv

LEMMA StartConnectionStep ==
  ASSUME IInv, StartConnection
  PROVE  IInv'
<1> DEFINE k == [fd |-> cur.fd, client |-> cur.client, at |-> "request"]
<1>0. /\ TypeInv /\ NothingYet /\ Waiting /\ Owned /\ Checked
      /\ up /\ pc = "start" /\ pc' = "accept" /\ conns' = conns \cup {k}
      /\ UNCHANGED <<world, stage, cur, table, queue, up, client, reply, started, files>>
  BY DEF IInv, StartConnection
<1>1. /\ k \in [fd : Nat, client : Clients \cup {Null}, at : {"request", "results", "close"}]
      /\ k.fd = cur.fd /\ k.client = cur.client
  BY <1>0 DEF TypeInv, Stages
<1> HIDE DEF k
<1>2. TypeInv'
  BY <1>0, <1>1 DEF TypeInv, Stages
<1>3. /\ Taken' = Taken /\ (Listening' <=> Listening) /\ Listening
      /\ (Fault("create")' <=> Fault("create"))
  BY <1>0 DEF Taken, Listening, Fault, NothingYet
<1>4. NothingYet' /\ Waiting'
  BY <1>0, <1>3 DEF NothingYet, Waiting
<1>5. Owned'
  <2>1. \A l \in conns' : l.fd # 0 => l.fd \in Taken /\ table[l.fd] \in {l.client, Null}
    BY <1>0, <1>1 DEF Owned
  <2>2. \A l, m \in conns' : l.fd # 0 /\ l.fd = m.fd => l = m
    BY <1>0, <1>1 DEF Owned
  <2>3. ~Fault("create") => \A fd \in Taken : \E l \in conns' : l.fd = fd
    BY <1>0, <1>1 DEF Owned
  <2> QED
    BY <1>0, <1>3, <2>1, <2>2, <2>3 DEF Owned
<1>6. Checked' /\ AnswersReachTheirClient'
  BY <1>0, AnswersKept DEF Checked
<1> QED
  BY <1>2, <1>4, <1>5, <1>6 DEF IInv

LEMMA CreateFailsStep ==
  ASSUME IInv, CreateFails
  PROVE  IInv'
<1>0. /\ TypeInv /\ NothingYet /\ Waiting /\ Owned /\ Checked
      /\ up /\ pc = "start" /\ Fault("create") /\ pc' = "accept"
      /\ UNCHANGED <<world, stage, cur, conns, table, queue, up, client, reply, started, files>>
  BY DEF IInv, CreateFails
<1>1. TypeInv'
  BY <1>0 DEF TypeInv, Stages
<1>2. Taken' = Taken /\ Listening' /\ Fault("create")'
  BY <1>0 DEF Taken, Listening, Fault, NothingYet
<1>3. NothingYet' /\ Waiting' /\ Owned'
  BY <1>0, <1>2 DEF NothingYet, Waiting, Owned
<1>4. Checked' /\ AnswersReachTheirClient'
  BY <1>0, AnswersKept DEF Checked
<1> QED
  BY <1>1, <1>3, <1>4 DEF IInv

-----------------------------------------------------------------------------
(* The connections.                                                        *)

(* A connection goes on to its next call.                                  *)
LEMMA MoveKeeps ==
  ASSUME IInv, NEW k \in conns, NEW at \in {"results", "close"}, Move(k, at),
         UNCHANGED <<world, stage, pc, cur, table, queue, up, client>>
  PROVE  TypeInv' /\ NothingYet' /\ Waiting' /\ Owned' /\ Checked'
<1> DEFINE m == [k EXCEPT !.at = at]
<1>0. TypeInv /\ NothingYet /\ Waiting /\ Owned /\ Checked
  BY DEF IInv
<1>1. /\ m \in [fd : Nat, client : Clients \cup {Null}, at : {"request", "results", "close"}]
      /\ m.fd = k.fd /\ m.client = k.client
      /\ k.fd \in Nat
  BY <1>0 DEF TypeInv
<1>2. conns' = (conns \ {k}) \cup {m}
  BY DEF Move
<1> HIDE DEF m
<1>3. TypeInv'
  BY <1>0, <1>1, <1>2 DEF TypeInv
<1>4. /\ Taken' = Taken /\ (Listening' <=> Listening) /\ Listening
      /\ (Fault("create")' <=> Fault("create"))
  BY <1>0 DEF Taken, Listening, Fault, NothingYet
<1>5. NothingYet' /\ Waiting' /\ Checked'
  BY <1>0, <1>4 DEF NothingYet, Waiting, Checked
<1>6. Owned'
  <2>1. \A l \in conns' : l.fd # 0 => l.fd \in Taken /\ table[l.fd] \in {l.client, Null}
    BY <1>0, <1>1, <1>2 DEF Owned
  <2>2. \A l, n \in conns' : l.fd # 0 /\ l.fd = n.fd => l = n
    BY <1>0, <1>1, <1>2 DEF Owned
  <2>3. up /\ pc = "start" /\ cur.fd # 0 =>
          /\ cur.fd \in Taken /\ table[cur.fd] \in {cur.client, Null}
          /\ \A l \in conns' : l.fd # cur.fd
    BY <1>0, <1>1, <1>2 DEF Owned
  <2>4. up /\ ~Fault("create") => \A fd \in Taken :
          (\E l \in conns' : l.fd = fd) \/ (pc = "start" /\ cur.fd = fd)
    BY <1>0, <1>1, <1>2 DEF Owned
  <2> QED
    BY <1>4, <2>1, <2>2, <2>3, <2>4 DEF Owned
<1> QED
  BY <1>3, <1>5, <1>6

LEMMA ProcessRequestStep ==
  ASSUME IInv, NEW k \in conns, ProcessRequest(k)
  PROVE  IInv'
<1>1. /\ Move(k, "results")
      /\ UNCHANGED <<world, stage, pc, cur, table, queue, up, client, reply, started, files>>
  BY DEF ProcessRequest
<1>2. AnswersReachTheirClient'
  BY <1>1, AnswersKept
<1> QED
  BY <1>1, <1>2, MoveKeeps DEF IInv

(* The results go to the client at the other end of the descriptor: the    *)
(* connection's own, and one that has not stored its answer yet.           *)
LEMMA ReturnResultsStep ==
  ASSUME IInv, NEW k \in conns, returnResults(k)
  PROVE  IInv'
<1>0. TypeInv /\ Waiting /\ Owned /\ AnswersReachTheirClient
  BY DEF IInv
<1>1. /\ Move(k, "close")
      /\ UNCHANGED <<world, stage, pc, cur, table, queue, up, client, started, files>>
      /\ reply' = [c \in Clients |->
                     IF k.fd \in DOMAIN table /\ table[k.fd] = c THEN reply[c] \cup {k.client}
                     ELSE reply[c]]
  BY DEF returnResults
<1>2. ASSUME NEW c \in Clients, k.fd \in DOMAIN table, table[k.fd] = c
      PROVE  k.client = c /\ client[c] = "accepted"
  <2>1. k.fd # 0
    BY <1>0, <1>2 DEF TypeInv
  <2> QED
    BY <1>0, <1>2, <2>1, ServingAssumption DEF Owned, Waiting
<1>3. \A c \in Clients : reply'[c] = reply[c] \/ (reply'[c] = reply[c] \cup {c} /\ client[c] = "accepted")
  BY <1>1, <1>2
<1>4. AnswersReachTheirClient'
  <2>1. \A c \in Clients : reply'[c] \subseteq {c}
    BY <1>0, <1>3 DEF AnswersReachTheirClient
  <2>2. \A c \in Clients : client[c] = "done" => reply'[c] = reply[c]
    BY <1>3
  <2> QED
    BY <1>0, <1>1, <2>1, <2>2, NamesKept DEF AnswersReachTheirClient
<1> QED
  BY <1>1, <1>4, MoveKeeps DEF IInv

(* The descriptor of a connection that ends is given back.                 *)
LEMMA CloseStep ==
  ASSUME IInv, NEW k \in conns, Close(k)
  PROVE  IInv'
<1>0. /\ TypeInv /\ NothingYet /\ Waiting /\ Owned /\ Checked
      /\ conns' = conns \ {k} /\ table' = Without(table, k.fd)
      /\ UNCHANGED <<world, stage, pc, cur, queue, up, client, reply, started, files>>
  BY DEF IInv, Close
<1>1. /\ DOMAIN table' = DOMAIN table \ {k.fd}
      /\ \A fd \in DOMAIN table' : table'[fd] = table[fd]
  BY <1>0 DEF Without
<1>2. k.fd # 1 /\ Taken' = Taken \ {k.fd}
  BY <1>0, <1>1 DEF Owned, Taken
<1>3. TypeInv'
  BY <1>0, <1>1 DEF TypeInv
<1>4. (Listening' <=> Listening) /\ (Fault("create")' <=> Fault("create"))
  BY <1>0 DEF Listening, Fault
<1>5. NothingYet'
  BY <1>0, <1>1, <1>2, <1>4 DEF NothingYet
<1>6. Waiting' /\ Checked'
  BY <1>0, <1>1, <1>2 DEF Waiting, Checked, Taken
<1>7. Owned'
  <2>1. \A l \in conns' : l.fd # 0 => l.fd # k.fd /\ l.fd \in Taken /\ table[l.fd] \in {l.client, Null}
    BY <1>0 DEF Owned
  <2>2. up /\ pc = "start" /\ cur.fd # 0 =>
          cur.fd # k.fd /\ cur.fd \in Taken /\ table[cur.fd] \in {cur.client, Null}
    BY <1>0 DEF Owned
  <2>3. \A fd \in Taken' : table'[fd] = table[fd]
    BY <1>1 DEF Taken
  <2>4. ASSUME up, ~Fault("create"), NEW fd \in Taken'
        PROVE  (\E l \in conns' : l.fd = fd) \/ (pc = "start" /\ cur.fd = fd)
    BY <1>0, <1>2, <2>4 DEF Owned
  <2>5. \A l, n \in conns' : l.fd # 0 /\ l.fd = n.fd => l = n
    BY <1>0 DEF Owned
  <2>6. up /\ pc = "start" /\ cur.fd # 0 => \A l \in conns' : l.fd # cur.fd
    BY <1>0 DEF Owned
  <2> QED
    BY <1>0, <1>2, <1>4, <2>1, <2>2, <2>3, <2>4, <2>5, <2>6 DEF Owned
<1>8. AnswersReachTheirClient'
  BY <1>0, AnswersKept
<1> QED
  BY <1>3, <1>5, <1>6, <1>7, <1>8 DEF IInv

-----------------------------------------------------------------------------
(* The clients.                                                            *)

(* One client changes, and the server does not notice.                     *)
LEMMA ClientKeeps ==
  ASSUME IInv, NEW c \in Clients, NEW to \in Stages,
         client[c] \notin {"queued", "accepted"},
         to \notin {"queued", "accepted"},
         to \in {"connecting", "done"} => Valid(world.args[c]),
         client' = [client EXCEPT ![c] = to],
         UNCHANGED <<world, stage, pc, cur, conns, table, queue, up>>
  PROVE  TypeInv' /\ NothingYet' /\ Waiting' /\ Owned' /\ Checked'
<1>0. TypeInv /\ NothingYet /\ Waiting /\ Owned /\ Checked
  BY DEF IInv
<1>1. client'[c] = to /\ \A d \in Clients \ {c} : client'[d] = client[d]
  BY <1>0 DEF TypeInv
<1>2. TypeInv'
  BY <1>0 DEF TypeInv
<1>3. /\ Taken' = Taken /\ (Listening' <=> Listening) /\ (Fault("create")' <=> Fault("create"))
  BY DEF Taken, Listening, Fault
<1>4. NothingYet' /\ Owned'
  BY <1>0, <1>3 DEF NothingYet, Owned
<1>5. Waiting'
  <2>1. \A i \in 1..Len(queue) : queue[i] \in Clients \ {c}
    BY <1>0 DEF Waiting, TypeInv
  <2>2. \A fd \in Taken : table[fd] # Null => table[fd] \in Clients \ {c}
    BY <1>0 DEF Waiting
  <2> QED
    BY <1>0, <1>1, <1>3, <2>1, <2>2 DEF Waiting
<1>6. Checked'
  BY <1>0, <1>1 DEF Checked
<1> QED
  BY <1>2, <1>4, <1>5, <1>6

LEMMA StartStep ==
  ASSUME IInv, NEW c \in Clients, Start(c)
  PROVE  IInv'
<1> DEFINE to == IF Valid(world.args[c]) THEN "connecting" ELSE "refused"
<1>0. /\ client[c] \in {"new", "done"} /\ client' = [client EXCEPT ![c] = to]
      /\ reply' = [reply EXCEPT ![c] = {}]
      /\ UNCHANGED <<world, stage, pc, cur, conns, table, queue, up, files>>
  BY DEF Start
<1>1. /\ to \in Stages /\ to \notin {"queued", "accepted", "done"}
      /\ to \in {"connecting", "done"} => Valid(world.args[c])
  BY DEF Stages
<1> HIDE DEF to
<1>2. TypeInv' /\ NothingYet' /\ Waiting' /\ Owned' /\ Checked'
  BY <1>0, <1>1, ClientKeeps
<1>3. AnswersReachTheirClient'
  <2>1. \A d \in Clients : reply'[d] \subseteq {d}
    BY <1>0 DEF IInv, AnswersReachTheirClient
  <2>2. \A d \in Clients : client'[d] = "done" => client[d] = "done" /\ reply'[d] = reply[d]
    BY <1>0, <1>1 DEF IInv, TypeInv
  <2> QED
    BY <1>0, <2>1, <2>2, NamesKept DEF IInv, AnswersReachTheirClient
<1> QED
  BY <1>2, <1>3 DEF IInv

LEMMA CannotConnectStep ==
  ASSUME IInv, NEW c \in Clients, CannotConnect(c)
  PROVE  IInv'
<1>0. /\ client[c] = "connecting" /\ client' = [client EXCEPT ![c] = "refused"]
      /\ UNCHANGED <<world, stage, pc, cur, conns, table, queue, up, reply, started, files>>
  BY DEF CannotConnect
<1>1. TypeInv' /\ NothingYet' /\ Waiting' /\ Owned' /\ Checked'
  BY <1>0, ClientKeeps DEF Stages
<1>2. \A d \in Clients : client'[d] = "done" => client[d] = "done"
  BY <1>0 DEF IInv, TypeInv
<1>3. AnswersReachTheirClient'
  BY <1>0, <1>2, AnswersKept
<1> QED
  BY <1>1, <1>3 DEF IInv

LEMMA ConnectStep ==
  ASSUME IInv, NEW c \in Clients, Connect(c)
  PROVE  IInv'
<1>0. /\ TypeInv /\ NothingYet /\ Waiting /\ Owned /\ Checked
      /\ client[c] = "connecting" /\ Listening /\ queue' = Append(queue, c)
      /\ client' = [client EXCEPT ![c] = "queued"]
      /\ UNCHANGED <<world, stage, pc, cur, conns, table, up, reply, started, files>>
  BY DEF IInv, Connect
<1>1. client'[c] = "queued" /\ \A d \in Clients \ {c} : client'[d] = client[d]
  BY <1>0 DEF TypeInv
<1>2. /\ queue' \in Seq(Clients) /\ Len(queue') = Len(queue) + 1 /\ Len(queue) \in Nat
      /\ \A i \in 1..Len(queue) : queue'[i] = queue[i]
      /\ queue'[Len(queue) + 1] = c
  BY <1>0, AppendProperties DEF TypeInv
<1>3. /\ \A i \in 1..Len(queue') : i \in 1..Len(queue) \/ i = Len(queue) + 1
      /\ \A i \in 1..Len(queue) : queue[i] \in Clients \ {c}
  BY <1>0, <1>2 DEF Waiting, TypeInv
<1>4. TypeInv'
  BY <1>0, <1>2 DEF TypeInv, Stages
<1>5. /\ Taken' = Taken /\ Listening' /\ (Fault("create")' <=> Fault("create"))
  BY <1>0 DEF Taken, Listening, Fault
<1>6. NothingYet' /\ Owned'
  BY <1>0, <1>5 DEF NothingYet, Owned
<1>7. Waiting'
  <2>1. \A i \in 1..Len(queue') : client'[queue'[i]] = "queued"
    BY <1>0, <1>1, <1>2, <1>3 DEF Waiting
  <2>2. \A i, j \in 1..Len(queue') : queue'[i] = queue'[j] => i = j
    BY <1>0, <1>2, <1>3 DEF Waiting
  <2>3. \A fd \in Taken : table[fd] # Null => table[fd] \in Clients \ {c}
    BY <1>0 DEF Waiting
  <2> QED
    BY <1>0, <1>1, <1>5, <2>1, <2>2, <2>3 DEF Waiting
<1>8. Checked'
  BY <1>0, <1>1 DEF Checked
<1>9. AnswersReachTheirClient'
  BY <1>0, <1>1, AnswersKept
<1> QED
  BY <1>4, <1>6, <1>7, <1>8, <1>9 DEF IInv

-----------------------------------------------------------------------------
(* Names of files.                                                         *)

LEMMA LastOfIs ==
  ASSUME NEW S, NEW name \in Seq(S), NEW piece
  PROVE  /\ LastOf(name, piece) \in 0..Len(name)
         /\ LastOf(name, piece) # 0 => name[LastOf(name, piece)] = piece
         /\ \A j \in LastOf(name, piece)+1..Len(name) : name[j] # piece
<1> DEFINE I == {i \in 1..Len(name) : name[i] = piece}
<1>1. LastOf(name, piece) = IF I # {} THEN Max(I) ELSE 0
  BY DEF LastOf, SelectLastInSeq
<1>2. Len(name) \in Nat /\ I \subseteq 1..Len(name)
  OBVIOUS
<1>3. CASE I = {}
  BY <1>1, <1>2, <1>3
<1>4. CASE I # {}
  <2> DEFINE x == Max(I)
  <2>1. x \in I /\ \A y \in I : y <= x
    <3> HIDE DEF I
    <3> QED
      BY <1>2, <1>4, MaxOfPositions
  <2>2. LastOf(name, piece) = x
    BY <1>1, <1>4
  <2> HIDE DEF x
  <2> QED
    BY <1>2, <2>1, <2>2
<1> QED
  BY <1>3, <1>4

LEMMA FileIsName ==
  ASSUME world \in Worlds, NEW c \in Clients, Valid(world.args[c])
  PROVE  File(world.args[c]) \in Seq(STRING)
<1>1. world.args[c] \in Seq(Seq(STRING))
  BY ServingAssumption
<1>2. checkFlags(world.args[c]) + 2 \in 1..Len(world.args[c])
  BY <1>1 DEF Valid, checkFlags
<1> QED
  BY <1>1, <1>2 DEF File

(* Of a program stem.mis, in any directory, getBasename leaves stem.       *)
LEMMA BasenameOfStem ==
  ASSUME world \in Worlds, NEW c \in Clients, NEW s \in StemOf(c)
  PROVE  /\ Valid(world.args[c]) /\ Len(s) \in Nat \ {0}
         /\ getBasename(File(world.args[c])) = s
<1> DEFINE name == File(world.args[c])
<1>1. Valid(world.args[c]) /\ Stem(name, s) /\ \E i \in 1..Len(name) : s = SubSeq(name, i, Len(name) - 2)
  BY DEF StemOf
<1> DEFINE T == STRING \cup {"."}
<1>2. name \in Seq(T)
  <2>1. name \in Seq(STRING)
    BY <1>1, FileIsName
  <2> QED
    BY <2>1, SeqWider
<1> HIDE DEF name
<1>3. s \in Seq(T)
  <2>1. PICK i \in 1..Len(name) : s = SubSeq(name, i, Len(name) - 2)
    BY <1>1
  <2>2. \A j \in i..Len(name)-2 : name[j] \in T
    BY <1>2, <2>1
  <2>3. i \in Int /\ Len(name) - 2 \in Int
    BY <1>2, <2>1
  <2> QED
    BY <2>1, <2>2, <2>3, SubSeqProperties
<1>4. PICK m \in Mis, d \in 0..Len(name) :
        /\ name = SubSeq(name, 1, d) \o s \o <<".", m>>
        /\ d = 0 \/ name[d] = "/"
        /\ s # <<>> /\ \A i \in 1..Len(s) : s[i] \notin {"/", "."}
  BY <1>1 DEF Stem
<1>5. m \in T \ {"/", "."}
  BY <1>4, ServingAssumption
<1> DEFINE p == SubSeq(name, 1, d)
<1>6. p \in Seq(T) /\ Len(p) = d
  <2>1. \A j \in 1..d : name[j] \in T
    BY <1>2, <1>4
  <2>2. d \in Nat
    BY <1>2, <1>4
  <2> QED
    BY <2>1, <2>2, SubSeqProperties
<1>7. name = p \o s \o <<".", m>>
  BY <1>4
<1> HIDE DEF p
<1> DEFINE q == p \o s
<1>8. /\ q \in Seq(T) /\ Len(q) = d + Len(s)
      /\ \A i \in 1..Len(s) : q[d + i] = s[i]
  BY <1>3, <1>6
<1> HIDE DEF q
<1>9. /\ Len(name) = d + Len(s) + 2
      /\ \A i \in 1..Len(q) : name[i] = q[i]
      /\ name[Len(q) + 1] = "." /\ name[Len(q) + 2] = m
  <2>1. <<".", m>> \in Seq(T) /\ Len(<<".", m>>) = 2
    <3>1. "." \in T /\ m \in T
      BY <1>5
    <3> HIDE DEF T
    <3> QED
      BY <3>1
  <2>2. name = q \o <<".", m>>
    BY <1>7 DEF q
  <2> QED
    BY <1>8, <2>1, <2>2
<1>10. /\ d \in Nat /\ Len(s) \in Nat \ {0}
       /\ \A i \in 1..Len(s) : name[d + i] = s[i]
       /\ name[d + Len(s) + 1] = "." /\ name[d + Len(s) + 2] = m
  BY <1>2, <1>3, <1>4, <1>8, <1>9
<1>11. \A j \in d+1..d+Len(s) : name[j] \notin {"/", "."}
  <2>1. ASSUME NEW j \in d+1..d+Len(s) PROVE name[j] \notin {"/", "."}
    <3>1. j - d \in 1..Len(s) /\ d + (j - d) = j
      BY <1>10
    <3>2. name[d + (j - d)] = s[j - d]
      BY <1>10, <3>1
    <3> QED
      BY <1>4, <3>1, <3>2
  <2> QED
    BY <2>1
<1>12. LastOf(name, "/") = d
  <2> DEFINE x == LastOf(name, "/")
  <2>1. /\ x \in 0..Len(name) /\ (x # 0 => name[x] = "/")
        /\ \A j \in x+1..Len(name) : name[j] # "/"
    BY <1>2, LastOfIs
  <2> HIDE DEF x
  <2>2. ~(x < d)
    BY <1>4, <1>9, <1>10, <2>1
  <2>3. ~(d < x)
    <3>1. \A j \in d+1..Len(name) : j \in d+1..d+Len(s) \/ j = d + Len(s) + 1 \/ j = d + Len(s) + 2
      BY <1>9, <1>10
    <3>2. \A j \in d+1..Len(name) : name[j] # "/"
      BY <1>5, <1>10, <1>11, <3>1
    <3> QED
      BY <1>10, <2>1, <3>2
  <2> QED
    BY <1>10, <2>1, <2>2, <2>3 DEF x
<1>13. LastOf(name, ".") = d + Len(s) + 1
  <2> DEFINE x == LastOf(name, ".")
  <2>1. /\ x \in 0..Len(name) /\ (x # 0 => name[x] = ".")
        /\ \A j \in x+1..Len(name) : name[j] # "."
    BY <1>2, LastOfIs
  <2> HIDE DEF x
  <2>2. ~(x < d + Len(s) + 1)
    BY <1>9, <1>10, <2>1
  <2>3. x # d + Len(s) + 2
    BY <1>5, <1>10, <2>1
  <2> QED
    BY <1>9, <1>10, <2>1, <2>2, <2>3 DEF x
<1>14. getBasename(name) = SubSeq(name, d + 1, d + Len(s))
  <2>1. d + Len(s) + 1 > d /\ (d + Len(s) + 1) - 1 = d + Len(s)
    BY <1>10
  <2> QED
    BY <1>12, <1>13, <2>1 DEF getBasename
<1>15. SubSeq(name, d + 1, d + Len(s)) = s
  <2> DEFINE t == SubSeq(name, d + 1, d + Len(s))
  <2>1. \A j \in d+1..d+Len(s) : name[j] \in T
    BY <1>2, <1>9, <1>10
  <2>2. d + 1 \in Int /\ d + Len(s) \in Int /\ d + 1 <= d + Len(s) + 1
    BY <1>10
  <2>3. /\ t \in Seq(T) /\ Len(t) = Len(s)
        /\ \A i \in 1..Len(s) : t[i] = name[d + i]
    BY <1>10, <2>1, <2>2, SubSeqProperties
  <2> HIDE DEF t
  <2>4. t = s
    BY <1>3, <1>10, <2>3, SeqEqual
  <2> QED
    BY <2>4 DEF t
<1> QED
  BY <1>1, <1>10, <1>14, <1>15 DEF name

(* What getBasename leaves is what the last component begins with.         *)
LEMMA BasenameBegins ==
  ASSUME world \in Worlds, NEW d \in Clients, Valid(world.args[d]), NEW s,
         s = getBasename(File(world.args[d])), Len(s) \in Nat \ {0}
  PROVE  Begins(d, s)
<1> DEFINE name == File(world.args[d])
           dir == LastOf(name, "/")
           ext == LastOf(name, ".")
           e == IF ext > dir THEN ext - 1 ELSE Len(name)
<1>1. name \in Seq(STRING) /\ Len(name) \in Nat
  BY FileIsName
<1> HIDE DEF name
<1>2. /\ dir \in 0..Len(name) /\ (dir # 0 => name[dir] = "/")
      /\ \A j \in dir+1..Len(name) : name[j] # "/"
      /\ ext \in 0..Len(name)
  BY <1>1, LastOfIs
<1>3. s = SubSeq(name, dir + 1, e)
  BY DEF getBasename, name
<1> HIDE DEF dir, ext
<1>4. e \in dir..Len(name)
  BY <1>1, <1>2
<1> HIDE DEF e
<1>5. Len(s) = e - dir
  <2>1. \A j \in dir+1..e : name[j] \in STRING
    BY <1>1, <1>2, <1>4
  <2>2. dir + 1 \in Int /\ e \in Int /\ dir \in Nat /\ dir <= e
    BY <1>1, <1>2, <1>4
  <2>3. Len(s) = IF dir + 1 <= e THEN e - (dir + 1) + 1 ELSE 0
    BY <1>3, <2>1, <2>2, SubSeqProperties
  <2> QED
    BY <2>2, <2>3
<1>6. dir \in 0..Len(name) - Len(s) /\ dir + Len(s) = e
  BY <1>1, <1>2, <1>4, <1>5
<1>7. SubSeq(name, dir + 1, dir + Len(s)) = s
  BY <1>3, <1>6
<1>8. dir = 0 \/ name[dir] = "/"
  BY <1>2
<1> QED
  BY <1>2, <1>6, <1>7, <1>8 DEF Begins, name

(* The file a client stores is its own, and it has its answer, or has      *)
(* given up: nothing waits for it any more.                                *)
LEMMA StoreStep ==
  ASSUME IInv, NEW c \in Clients, Store(c) \/ GiveUp(c)
  PROVE  IInv'
<1> DEFINE b == getBasename(File(world.args[c]))
<1>0. /\ TypeInv /\ Waiting /\ Owned /\ Checked /\ AnswersReachTheirClient
      /\ client[c] = "accepted"
      /\ files' = With(files, b, reply[c])
      /\ client' = [client EXCEPT ![c] = "done"]
      /\ UNCHANGED <<world, stage, pc, cur, conns, queue, up, reply, started>>
  BY DEF IInv, Store, GiveUp
<1>9. /\ DOMAIN table' = DOMAIN table
      /\ \A fd \in DOMAIN table : table'[fd] # c /\ table'[fd] \in {table[fd], Null}
  BY ServingAssumption DEF Store, GiveUp
<1>1. Valid(world.args[c]) /\ world \in Worlds
  BY <1>0 DEF Checked, TypeInv
<1>2. TypeInv' /\ NothingYet' /\ Waiting' /\ Owned' /\ Checked'
  <2>1. /\ client'[c] = "done" /\ \A d \in Clients \ {c} : client'[d] = client[d]
    BY <1>0 DEF TypeInv
  <2>2. TypeInv'
    BY <1>0, <1>9 DEF TypeInv, Stages
  <2>3. /\ Taken' = Taken /\ (Listening' <=> Listening) /\ (Fault("create")' <=> Fault("create"))
    BY <1>0, <1>9 DEF Taken, Listening, Fault
  <2>4. NothingYet' /\ Owned'
    <3>1. NothingYet'
      BY <1>0, <1>9, <2>3 DEF IInv, NothingYet
    <3>2. \A k \in conns : k.fd # 0 => k.fd \in Taken /\ table'[k.fd] \in {k.client, Null}
      BY <1>0, <1>9 DEF Owned, Taken
    <3>3. up /\ pc = "start" /\ cur.fd # 0 => table'[cur.fd] \in {cur.client, Null}
      BY <1>0, <1>9 DEF Owned, Taken
    <3> QED
      BY <1>0, <2>3, <3>1, <3>2, <3>3 DEF Owned
  <2>5. \A i \in 1..Len(queue) : queue[i] \in Clients \ {c}
    BY <1>0 DEF Waiting, TypeInv
  <2>6. \A fd \in Taken :
          table'[fd] # Null => table'[fd] = table[fd] /\ table[fd] \in Clients \ {c}
    BY <1>0, <1>9 DEF Waiting, Taken
  <2>7. Waiting'
    BY <1>0, <2>1, <2>3, <2>5, <2>6 DEF Waiting
  <2>8. Checked'
    BY <1>0, <1>1, <2>1 DEF Checked
  <2> QED
    BY <2>2, <2>4, <2>7, <2>8
<1>3. /\ b \in DOMAIN files' /\ files'[b] = reply[c]
      /\ \A s \in DOMAIN files : s # b => s \in DOMAIN files' /\ files'[s] = files[s]
  BY <1>0 DEF With
<1>4. ASSUME NEW d \in Clients, client'[d] = "done", NEW s \in StemOf(d),
             \A o \in Clients \ {d} : ~Begins(o, s)
      PROVE  s \in DOMAIN files' /\ files'[s] = reply[d]
  <2>1. CASE d = c
    <3>1. s = b
      BY <1>1, <2>1, BasenameOfStem
    <3> QED
      BY <1>3, <2>1, <3>1
  <2>2. CASE d # c
    <3>1. client[d] = "done"
      BY <1>0, <1>4, <2>2 DEF TypeInv
    <3>2. s \in DOMAIN files /\ files[s] = reply[d]
      BY <1>0, <1>4, <3>1 DEF AnswersReachTheirClient
    <3>3. ~Begins(c, s) /\ Len(s) \in Nat \ {0}
      BY <1>1, <1>4, <2>2, BasenameOfStem
    <3>4. s # b
      BY <1>1, <3>3, BasenameBegins
    <3> QED
      BY <1>3, <3>2, <3>4
  <2> QED
    BY <2>1, <2>2
<1>5. AnswersReachTheirClient'
  BY <1>0, <1>4, NamesKept DEF AnswersReachTheirClient
<1> QED
  BY <1>2, <1>5 DEF IInv

-----------------------------------------------------------------------------
(* Every step keeps the invariant.                                         *)
LEMMA InductiveStep == IInv /\ [Next]_vars => IInv'
<1> SUFFICES ASSUME IInv, [Next]_vars PROVE IInv'
  OBVIOUS
<1>1. CASE \E c \in Clients : Client(c)
  BY <1>1, StartStep, ConnectStep, CannotConnectStep, StoreStep DEF Client
<1>2. CASE Loop
  <2>1. CASE InitializeFails
    BY <2>1, DieStep DEF InitializeFails
  <2> QED
    BY <1>2, <2>1, InitializeSocketStep, GetConnectionStep, GetConnectionFailsStep,
       StartConnectionStep, CreateFailsStep DEF Loop
<1>3. CASE \E k \in conns : Serve(k)
  <2>1. PICK k \in conns : Serve(k)
    BY <1>3
  <2>2. CASE RequestDies(k) \/ ResultsKill(k)
    BY <2>2, DieStep DEF RequestDies, ResultsKill
  <2> QED
    BY <2>1, <2>2, ProcessRequestStep, ReturnResultsStep, CloseStep DEF Serve
<1>4. CASE UNCHANGED vars
  <2>1. UNCHANGED <<world, stage, pc, cur, conns, table, queue, up, client, reply, files>>
    BY <1>4 DEF vars
  <2>2. /\ Taken' = Taken /\ (Listening' <=> Listening) /\ (Fault("create")' <=> Fault("create"))
    BY <2>1 DEF Taken, Listening, Fault
  <2>3. TypeInv'
    BY <2>1 DEF IInv, TypeInv
  <2>4. NothingYet' /\ Waiting' /\ Owned' /\ Checked'
    BY <2>1, <2>2 DEF IInv, NothingYet, Waiting, Owned, Checked
  <2> QED
    BY <2>1, <2>3, <2>4, AnswersKept DEF IInv
<1> QED
  BY <1>1, <1>2, <1>3, <1>4 DEF Next

THEOREM Invariance == Spec => []IInv
<1> QED
  BY InitIInv, InductiveStep, PTL DEF Spec

(* Each client receives its own results and no other's, and finds them in  *)
(* the file called after its program (Connection, returnResults, Client).  *)
THEOREM OwnAnswers == Spec => []AnswersReachTheirClient
<1>1. IInv => AnswersReachTheirClient
  BY DEF IInv
<1> QED
  BY <1>1, Invariance, PTL

(* Each open descriptor has one owner, and no owner's is closed (delete in *)
(* processRequest).                                                        *)
THEOREM OneOwner == Spec => []DescriptorsReturned
<1>1. ASSUME IInv, up, ~Fault("create"), NEW fd \in DOMAIN table \ {1}
      PROVE  Users(fd) = 1
  <2> DEFINE K == {k \in conns : k.fd = fd}
  <2>1. Owned /\ TypeInv /\ fd \in Taken /\ fd # 0
    BY <1>1 DEF IInv, TypeInv, Taken
  <2>2. CASE pc = "start" /\ cur.fd = fd
    <3>1. K = {}
      BY <1>1, <2>1, <2>2 DEF Owned
    <3>2. Cardinality(K) = 0
      BY <3>1, FS_EmptySet
    <3> QED
      BY <2>2, <3>2 DEF Users
  <2>3. CASE ~(pc = "start" /\ cur.fd = fd)
    <3>1. PICK k \in conns : k.fd = fd
      BY <1>1, <2>1, <2>3 DEF Owned
    <3>2. K = {k}
      BY <2>1, <3>1 DEF Owned
    <3>3. Cardinality(K) = 1
      BY <3>2, FS_Singleton
    <3> QED
      BY <2>3, <3>3 DEF Users
  <2> QED
    BY <2>2, <2>3
<1>2. IInv => \A k \in conns : k.fd # 0 => k.fd \in DOMAIN table /\ table[k.fd] \in {k.client, Null}
  BY DEF IInv, Owned, Taken
<1>3. IInv => DescriptorsReturned
  BY <1>1, <1>2 DEF DescriptorsReturned
<1> QED
  BY <1>3, Invariance, PTL
=============================================================================
