-------------------------------- MODULE Wire --------------------------------
(***************************************************************************)
(* One exchange between Client and Server::processRequest over TCPSocket.  *)
(*                                                                         *)
(* The client sends one byte of flag and the file, the server sends one    *)
(* packet of 512 bytes per text of obuf, a sentinel, and one packet per    *)
(* text of ebuf.  Neither side is told a length: the server takes one      *)
(* second of silence for the end of the file, and the client reads again   *)
(* in pieces of at most 512 bytes, as they come, until the connection ends *)
(* or is silent for sixty seconds.                                         *)
(*                                                                         *)
(* Of the file the model keeps cells of 512 bytes (the last is shorter),   *)
(* of a packet its two halves of 256 bytes, of a text its length up to     *)
(* those bounds and whether the byte the client looks at is a '!'.         *)
(***************************************************************************)
EXTENDS Integers, Sequences, SequencesExt

CONSTANTS
  Nets,         \* what the network, the clocks and the memory may do
  Flags,        \* what Client::flag may hold when nobody sets it: 0, 1 for
                \* the positive numbers, -1 for the negative ones
  Sizes,        \* the lengths of files, in cells
  MaxSize,      \* the longest file sent without -f, in cells
  Texts,        \* what the server may have to send
  LongTexts,    \* those longer than 256 bytes
  HugeTexts,    \* those of 512 bytes and more
  BangAt4,      \* those with a '!' as their 4th byte
  BangAt260,    \* those with a '!' as their 260th byte
  Replies,      \* the outcomes of a request: obuf and ebuf
  ReadError,    \* "MIS_server: read from socket failed"
  Sentinel,     \* 260 times '!'
  NotYet

(* whole: every packet is read as it was sent.  flag, file: the client may *)
(* fall silent before sending it for longer than the server waits; reply:  *)
(* the server may for longer than the client waits, and the program may    *)
(* run for ever; reset: the connection may break.  intact: the string the  *)
(* client sends its flag from, which is gone by then, still holds it, and  *)
(* what follows the server's buffer of one byte ends the number in it.     *)
Net == [whole : BOOLEAN, intact : BOOLEAN,
        faults : SUBSET {"flag", "file", "reply", "reset"}]

Halves == [text : Texts \cup {Sentinel, NotYet}, part : {"front", "back"}]

(* What returnResults sends for a reply, in this order.                    *)
Sent(r) == r.out \o <<Sentinel>> \o r.err

(* Output is made by toString: a string of less than 256 bytes, a          *)
(* character, or a number.  A REAL may have 310 digits before its point,   *)
(* but neither fills a packet nor has a '!' anywhere.                      *)
ASSUME WireAssumption ==
  /\ Nets \subseteq Net
  /\ Flags \subseteq {-1, 0, 1}
  /\ Sizes \subseteq Nat
  /\ MaxSize \in Nat \ {0, 1}
  /\ HugeTexts \subseteq LongTexts /\ LongTexts \subseteq Texts
  /\ BangAt260 \subseteq LongTexts /\ BangAt4 \subseteq Texts
  /\ ReadError \in Texts \ LongTexts
  /\ Sentinel \notin Texts
  /\ NotYet \notin Texts /\ NotYet # Sentinel /\ NotYet \notin {0, 1}
  /\ NotYet \notin [out : Seq(Texts \cup Halves), err : Seq(Texts \cup Halves)]
  /\ \A r \in Replies :
       /\ r # NotYet
       /\ r.out \in Seq(Texts \ (HugeTexts \cup BangAt260)) /\ r.err \in Seq(Texts)
       /\ \A i, j \in DOMAIN Sent(r) :   \* each stands for its place
            Sent(r)[i] = Sent(r)[j] => i = j

VARIABLES
  net,
  asked,      \* 1 if the client was started with -f, else 0
  flag,       \* Client::flag
  size,       \* the length of the file
  c_at,       \* where the client is: before sending the flag or the file,
              \* reading, or ended ("done", "exited", "threw")
  s_at,       \* where the server is: before reading the flag or the file,
              \* running it, sending obuf, sending ebuf, or "gone"
  process,    \* the server process
  link,       \* "up", or "reset": the next use of it fails
  sent,       \* cells of the file the client has sent
  up, down,   \* on their way to the server: the flag and cells of the file;
              \* to the client: halves of packets
  s_flag,     \* flag in processRequest
  file,       \* file_buffer: the numbers of its cells, and garbage
  reply,      \* obuf and ebuf
  index,      \* position of the loop in obuf or ebuf
  curr,       \* the file the client prints to
  files       \* what it has printed, to out and to err

clientVars == <<c_at, sent, curr, files>>
serverVars == <<s_at, process, s_flag, file, reply, index>>
vars == <<net, asked, flag, size, link, up, down, clientVars, serverVars>>

(* Client::flag is not initialized unless -f is given.                     *)
Init ==
  /\ net \in Nets
  /\ asked \in {0, 1}
  /\ flag \in IF asked = 1 THEN {1} ELSE Flags
  /\ size \in Sizes
  /\ c_at = "flag"
  /\ s_at = "flag"
  /\ process = "running"
  /\ link = "up"
  /\ sent = 0
  /\ up = <<>>
  /\ down = <<>>
  /\ s_flag = NotYet
  /\ file = <<>>
  /\ reply = NotYet
  /\ index = 1
  /\ curr = "out"
  /\ files = [f \in {"out", "err"} |-> <<>>]

ClientOpen == c_at \in {"flag", "file", "read"}
ServerOpen == s_at # "gone"

-----------------------------------------------------------------------------
(* The halves of packets.                                                  *)
Half(text, part) == [text |-> text, part |-> part]
Packet(text) == <<Half(text, "front"), Half(text, "back")>>
Long(text) == text \in LongTexts \cup {Sentinel}

HasText(half) == half.part = "front" \/ Long(half.text)
(* Text up to the last byte, no NUL.                                       *)
Full(half) ==
  \/ half.part = "front" /\ Long(half.text)
  \/ half.part = "back" /\ half.text \in HugeTexts

(* Mutant of FourthIsBang: the byte after the sentinel's last.             *)
FourthIsBangBeyond(half) == {FALSE}

(* The values of "the fourth byte is a '!'".  err_sig points to memory     *)
(* that has been freed; its first bytes may have been reused.              *)
FourthIsBang(half) ==
  IF half.text = Sentinel
  THEN IF half.part = "front" THEN BOOLEAN ELSE {TRUE}
  ELSE {half.text \in (IF half.part = "front" THEN BangAt4 ELSE BangAt260)}

(* What *curr << buffer prints: the buffer up to the first NUL, and what   *)
(* lies behind it if there is none.                                        *)
Garbage == Half(NotYet, "back")
Shown(half) == IF HasText(half) THEN <<half>> ELSE <<>>
Printed(halves) ==
  IF Len(halves) = 2 /\ Full(halves[1])
  THEN LET text == Shown(halves[1]) \o Shown(halves[2])
       IN IF Full(halves[2]) THEN {text, Append(text, Garbage)} ELSE {text}
  ELSE {Shown(halves[1])}

-----------------------------------------------------------------------------
(* The client.                                                             *)

(* writeToSocket.  What is sent to a server that is gone breaks the        *)
(* connection; sending on a broken one fails, or SIGPIPE ends the client.  *)
ClientWrite(bytes, Go, Fail) ==
  \/ link = "up" /\ ServerOpen /\ up' = up \o bytes /\ UNCHANGED link /\ Go
  \/ link = "up" /\ ~ServerOpen /\ link' = "reset" /\ UNCHANGED up /\ Go
  \/ link = "reset" /\ UNCHANGED <<link, up>> /\ Fail
  \/ link = "reset" /\ sent = 0 /\ UNCHANGED <<link, up, sent>> /\ c_at' = "threw"

FlagByte == 0

(* The result of sending the flag is not looked at.                        *)
SendFlag ==
  /\ c_at = "flag"
  /\ LET Go == c_at' = "file" /\ UNCHANGED sent
     IN ClientWrite(<<FlagByte>>, Go, Go)
  /\ UNCHANGED <<net, asked, flag, size, down, curr, files, serverVars>>

RefuseFile ==
  /\ c_at = "file" /\ sent = 0
  /\ size > MaxSize /\ flag = 0
  /\ c_at' = "exited"
  /\ UNCHANGED <<net, asked, flag, size, link, up, down, sent, curr, files, serverVars>>

(* One call of send, whose bytes arrive bit by bit.  If the connection     *)
(* breaks after the first it returns a number that is not negative.        *)
SendFile ==
  /\ c_at = "file" /\ sent < size
  /\ sent > 0 \/ ~(size > MaxSize /\ flag = 0)
  /\ ClientWrite(<<sent + 1>>, c_at' = c_at /\ sent' = sent + 1,
                 c_at' = (IF sent = 0 THEN "threw" ELSE "read") /\ UNCHANGED sent)
  /\ UNCHANGED <<net, asked, flag, size, down, curr, files, serverVars>>

FileSent ==
  /\ c_at = "file" /\ sent = size
  /\ c_at' = "read"
  /\ UNCHANGED <<net, asked, flag, size, link, up, down, sent, curr, files, serverVars>>

(* One round of receiveResults that gets something.                        *)
Receive ==
  /\ c_at = "read"
  /\ \E n \in (IF net.whole THEN {2} ELSE {1, 2}) :
       LET halves == SubSeq(down, 1, n) IN
       /\ n <= Len(down)
       /\ down' = SubSeq(down, n + 1, Len(down))
       /\ \E switch \in (IF n = 2 THEN FourthIsBang(halves[2]) ELSE {FALSE}) :
            IF switch
            THEN curr' = "err" /\ UNCHANGED files
            ELSE /\ \E text \in Printed(halves) :
                      files' = [files EXCEPT ![curr] = @ \o text]
                 /\ UNCHANGED curr
  /\ UNCHANGED <<net, asked, flag, size, link, up, c_at, sent, serverVars>>


(* End of the stream, or sixty seconds without data: recv or select gives  *)
(* 0 either way.                                                           *)
ReceiveEnds ==
  /\ c_at = "read" /\ link = "up" /\ down = <<>>
  /\ ~ServerOpen \/ "reply" \in net.faults
  /\ c_at' = "done"
  /\ UNCHANGED <<net, asked, flag, size, link, up, down, sent, curr, files, serverVars>>

(* A read that fails throws, and main of the client does not catch.        *)
ReceiveFails ==
  /\ c_at = "read" /\ link = "reset"
  /\ c_at' = "threw"
  /\ UNCHANGED <<net, asked, flag, size, link, up, down, sent, curr, files, serverVars>>

ClientNext ==
  SendFlag \/ RefuseFile \/ SendFile \/ FileSent \/ Receive \/ ReceiveEnds
  \/ ReceiveFails

-----------------------------------------------------------------------------
(* The server.  Its sockets are closed when its process ends, too; data it *)
(* has not read then resets the connection.                                *)
HangUp(unread) ==
  /\ s_at' = "gone"
  /\ link' = IF unread # <<>> THEN "reset" ELSE link

ServerDies(unread) ==
  process' = "terminated" /\ HangUp(unread) /\ UNCHANGED <<s_flag, index>>

(* What stoi makes of flag_buf, if it does not throw out of the thread as  *)
(* it does of "-": it reads on behind the one byte if digits follow.       *)
FlagsRead == IF net.intact THEN {flag} \ {-1} ELSE {0, 1}

ReadFlag ==
  /\ s_at = "flag" /\ up # <<>>
  /\ up' = Tail(up)
  /\ \/ \E f \in FlagsRead : s_flag' = f /\ s_at' = "file" /\ UNCHANGED <<process, link, index>>
     \/ (flag = -1 \/ ~net.intact) /\ ServerDies(Tail(up))
  /\ UNCHANGED <<net, asked, flag, size, down, file, reply, clientVars>>

(* Ten seconds without the flag, or no connection: so does stoi("").       *)
NoFlag ==
  /\ s_at = "flag" /\ up = <<>>
  /\ "flag" \in net.faults \/ ~ClientOpen \/ link = "reset"
  /\ ServerDies(up)
  /\ UNCHANGED <<net, asked, flag, size, up, down, file, reply, clientVars>>

GarbageCell == 0

(* A read that fills all 1024 bytes leaves no NUL in the buffer from which *)
(* the string is made.                                                     *)
ReadFile ==
  /\ s_at = "file"
  /\ \E n \in 1..2 :
       LET cells == SubSeq(up, 1, n) IN
       /\ n <= Len(up)
       /\ up' = SubSeq(up, n + 1, Len(up))
       /\ \/ file' = file \o cells
          \/ n = 2 /\ cells[2] # size /\ file' = file \o cells \o <<GarbageCell>>
  /\ UNCHANGED <<net, asked, flag, size, link, down, s_at, process, s_flag, reply, index,
                 clientVars>>

(* Mutant of EndOfFile: a read that finds nothing ends the file, without   *)
(* the second of patience.                                                 *)
EndOfFileAtOnce ==
  /\ s_at = "file" /\ up = <<>>
  /\ s_at' = "run"
  /\ UNCHANGED <<net, asked, flag, size, link, up, down, process, s_flag, file, reply, index,
                 clientVars>>

(* Nothing for a second: receiveTokens returns.                            *)
EndOfFile ==
  /\ s_at = "file" /\ up = <<>>
  /\ c_at # "file" \/ "file" \in net.faults
  /\ s_at' = "run"
  /\ UNCHANGED <<net, asked, flag, size, link, up, down, process, s_flag, file, reply, index,
                 clientVars>>

(* The file is parsed and run, and the run comes to an end.                *)
Run ==
  /\ s_at = "run"
  /\ reply' \in Replies
  /\ s_at' = "out"
  /\ UNCHANGED <<net, asked, flag, size, link, up, down, process, s_flag, file, index,
                 clientVars>>

ReadFails ==
  /\ s_at = "file" /\ link = "reset"
  /\ reply' = [out |-> <<>>, err |-> <<ReadError>>]
  /\ s_at' = "out"
  /\ UNCHANGED <<net, asked, flag, size, link, up, down, process, s_flag, file, index,
                 clientVars>>

(* writeToSocket, as ClientWrite.                                          *)
ServerWrite(bytes, Go, Fail) ==
  \/ link = "up" /\ ClientOpen /\ down' = down \o bytes /\ UNCHANGED <<link, process>> /\ Go
  \/ link = "up" /\ ~ClientOpen /\ link' = "reset" /\ UNCHANGED <<down, process>> /\ Go
  \/ link = "reset" /\ UNCHANGED <<link, down, process>> /\ Fail
  \/ link = "reset" /\ UNCHANGED down /\ ServerDies(up)

(* sprintf of a text of 512 bytes or more writes behind the buffer.        *)
Overrun(text) == text \in HugeTexts /\ ServerDies(up) /\ UNCHANGED down

SendText(texts) ==
  /\ index <= Len(texts)
  /\ \/ ServerWrite(Packet(texts[index]),
                    index' = index + 1 /\ UNCHANGED <<s_at, s_flag>>,
                    index' = Len(texts) + 1 /\ UNCHANGED <<s_at, s_flag>>)
     \/ Overrun(texts[index])
  /\ UNCHANGED <<net, asked, flag, size, up, file, reply, clientVars>>

SendOut == s_at = "out" /\ SendText(reply.out)

(* Mutant of SendSentinel: one iterator for both loops.                    *)
SendSentinelOnly ==
  /\ s_at = "out" /\ index > Len(reply.out)
  /\ LET Go == s_at' = "err" /\ UNCHANGED <<s_flag, index>>
     IN ServerWrite(Packet(Sentinel), Go, Go)
  /\ UNCHANGED <<net, asked, flag, size, up, file, reply, clientVars>>

SendSentinel ==
  /\ s_at = "out" /\ index > Len(reply.out)
  /\ LET Go == s_at' = "err" /\ index' = 1 /\ UNCHANGED s_flag
     IN ServerWrite(Packet(Sentinel), Go, Go)
  /\ UNCHANGED <<net, asked, flag, size, up, file, reply, clientVars>>

(* Mutant of SendErr: the loop over obuf, copied.                          *)
SendErrCopied == s_at = "err" /\ SendText(reply.out)

SendErr == s_at = "err" /\ SendText(reply.err)

Close ==
  /\ s_at = "err" /\ index > Len(reply.err)
  /\ HangUp(up)
  /\ UNCHANGED <<net, asked, flag, size, up, down, process, s_flag, file, reply, index,
                 clientVars>>

(* The server but for the program it runs.                                 *)
ServerMoves ==
  \/ ReadFlag \/ NoFlag \/ ReadFile \/ EndOfFile \/ ReadFails
  \/ SendOut \/ SendSentinel \/ SendErr \/ Close

ServerNext == ServerMoves \/ Run

-----------------------------------------------------------------------------
(* The connection breaks.                                                  *)
Break ==
  /\ "reset" \in net.faults /\ link = "up"
  /\ link' = "reset"
  /\ UNCHANGED <<net, asked, flag, size, up, down, clientVars, serverVars>>

Next == ClientNext \/ ServerNext \/ Break

Spec == Init /\ [][Next]_vars

(* A program need not end: it may loop under -f, wait for a variable that  *)
(* nobody will wake it for, or for a thread that was never created.        *)
InTime == "reply" \notin net.faults
FairSpec ==
  Spec /\ WF_vars(ClientNext) /\ WF_vars(ServerMoves) /\ WF_vars(InTime /\ Run)

-----------------------------------------------------------------------------
(* The type invariant.  The loops of returnResults stay in their vectors,  *)
(* the file buffer holds cells of the file, and what is under way was sent. *)
TypeOK ==
  /\ net \in Nets /\ asked \in {0, 1} /\ flag \in Flags \cup {1} /\ size \in Sizes
  /\ c_at \in {"flag", "file", "read", "done", "exited", "threw"}
  /\ s_at \in {"flag", "file", "run", "out", "err", "gone"}
  /\ process \in {"running", "terminated"} /\ link \in {"up", "reset"}
  /\ sent \in 0..size
  /\ up \in Seq(0..size)
  /\ down \in Seq(Halves)
  /\ s_flag \in {0, 1, NotYet}
  /\ file \in Seq(0..size)
  /\ reply # NotYet => /\ reply.out \in Seq(Texts) /\ reply.err \in Seq(Texts)
                       /\ s_at = "out" => index \in 1..Len(reply.out) + 1
                       /\ s_at = "err" => index \in 1..Len(reply.err) + 1
  /\ curr \in {"out", "err"}
  /\ files \in [{"out", "err"} -> Seq(Halves)]

(* A reply the packets can carry: no text fills its packet or has the      *)
(* sentinel's byte.  Output never does (WireAssumption).                   *)
Carried(r) == \A i \in DOMAIN r.err : r.err[i] \notin HugeTexts \cup BangAt260

(* What should be printed of texts.                                        *)
Content(texts) ==
  FlattenSeq([i \in DOMAIN texts |->
                Shown(Half(texts[i], "front")) \o Shown(Half(texts[i], "back"))])

(* While packets are read as they were sent, .out holds nothing but the    *)
(* beginning of the output and .err of the errors, each text whole,        *)
(* whatever times out or breaks (receiveResults, returnResults).           *)
FilesKeptApart ==
  net.whole /\ reply # NotYet /\ Carried(reply)
    => /\ IsPrefix(files.out, Content(reply.out))
       /\ IsPrefix(files.err, Content(reply.err))

(* However the packets are cut, what the client prints, first to .out and  *)
(* then to .err, is part of what was sent, in the order it was sent and no *)
(* part twice, but for garbage behind a full buffer.                       *)
Place(r, h) ==
  2 * (CHOOSE i \in DOMAIN Sent(r) : Sent(r)[i] = h.text)
    + (IF h.part = "front" THEN 0 ELSE 1)
PrintedInOrder ==
  LET printed == files.out \o files.err
      Parts == {i \in DOMAIN printed : printed[i] # Garbage}
  IN /\ Parts # {} => reply # NotYet
     /\ \A i \in Parts : \E j \in DOMAIN Sent(reply) : Sent(reply)[j] = printed[i].text
     /\ \A i, j \in Parts : i < j => Place(reply, printed[i]) < Place(reply, printed[j])


(* By default length and instruction count of a program are limited        *)
(* (README_THIS): without -f no file longer than the limit is sent and the *)
(* program does not run free.  Client::flag decides, which only -f sets.   *)
LimitedByDefault == asked = 0 => sent <= MaxSize /\ s_flag # 1

-----------------------------------------------------------------------------
Whole(n) == [i \in 1..n |-> i]

(* What it takes for the promise of Exchange: whole packets in time, the   *)
(* flag that was asked for where nobody has set one (LimitedByDefault) and *)
(* intact on its way, a file of less than 1024 bytes (a longer one may     *)
(* fill the buffer of receiveTokens) and a reply the packets can carry.    *)
Sound ==
  /\ net.whole /\ net.faults = {} /\ net.intact
  /\ flag = asked
  /\ size <= 2
  /\ reply # NotYet => Carried(reply)

Promise == INSTANCE Exchange WITH
  Requests <- {[flag |-> f, file |-> Whole(n)] : f \in {0, 1}, n \in Sizes},
  request <- [flag |-> asked, file |-> Whole(size)],
  sound <- Sound,
  ran <- IF reply = NotYet THEN NotYet ELSE [flag |-> s_flag, file |-> file],
  reply <- IF reply = NotYet THEN NotYet
           ELSE [out |-> Content(reply.out), err |-> Content(reply.err)],
  out <- files.out,
  err <- files.err,
  over <- ~ClientOpen,
  alive <- process = "running"

(* The client and the server implement Exchange: in a sound exchange the   *)
(* server runs the file that was sent under the flag that was asked, .out  *)
(* and .err become the output and the errors, complete when the client     *)
(* ends, and the server process survives.                                  *)
ExchangeImplemented == Promise!Spec
=============================================================================
