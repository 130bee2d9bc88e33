----------------------------- MODULE WireProofs -----------------------------
(***************************************************************************)
(* What one exchange keeps for every network, file, reply and way to cut   *)
(* the packets, and that it implements Exchange.                           *)
(*                                                                         *)
(* TypeInv says where client and server are with respect to each other.    *)
(* InOrder follows every half of a packet from returnResults to the file   *)
(* it is printed to, InPackets counts the packets as long as they stay     *)
(* whole, and Proceeds follows the file from the client to the server when *)
(* nothing goes wrong.                                                     *)
(***************************************************************************)
EXTENDS Wire, Lemmas, TLAPS

ReplyType(r) ==
  /\ r.out \in Seq(Texts \ (HugeTexts \cup BangAt260)) /\ r.err \in Seq(Texts)
  /\ \A i, j \in 1..Len(Sent(r)) : Sent(r)[i] = Sent(r)[j] => i = j

TypeInv ==
  /\ TypeOK
  /\ s_at \in {"flag", "file", "run"} => reply = NotYet /\ index = 1
  /\ s_at \in {"out", "err"} => reply # NotYet
  /\ reply # NotYet => ReplyType(reply)
  /\ reply = NotYet => down = <<>> /\ files.out = <<>>
  /\ reply = NotYet => curr = "out"
  /\ curr = "out" => files.err = <<>>

-----------------------------------------------------------------------------
(* Halves of packets, from the server to the files.                        *)

printed == files.out \o files.err

(* Numbers of texts.                                                       *)
Outs(r) == Len(r.out)
Errs(r) == Len(r.err)

(* The place in Sent(reply) of the next text to be sent.                   *)
NextText ==
  CASE s_at = "out" -> index
    [] s_at = "err" -> Outs(reply) + 1 + index
    [] OTHER -> Len(Sent(reply)) + 1

InReply(r, h) == \E j \in 1..Len(Sent(r)) : Sent(r)[j] = h.text

(* Parts that were printed and parts under way: each from the reply, in    *)
(* the order of the reply, and before place n.                             *)
Ordered(r, done, coming, n) ==
  /\ done \in Seq(Halves) /\ coming \in Seq(Halves)
  /\ \A i \in 1..Len(done) : done[i] # Garbage =>
       InReply(r, done[i]) /\ Place(r, done[i]) \in Nat /\ Place(r, done[i]) < n
  /\ \A i \in 1..Len(coming) :
       InReply(r, coming[i]) /\ Place(r, coming[i]) \in Nat /\ Place(r, coming[i]) < n
  /\ \A i, j \in 1..Len(done) : i < j /\ done[i] # Garbage /\ done[j] # Garbage =>
       Place(r, done[i]) < Place(r, done[j])
  /\ \A i, j \in 1..Len(coming) : i < j => Place(r, coming[i]) < Place(r, coming[j])
  /\ \A i \in 1..Len(done), j \in 1..Len(coming) : done[i] # Garbage =>
       Place(r, done[i]) < Place(r, coming[j])

InOrder == reply # NotYet => Ordered(reply, printed, down, 2 * NextText)

-----------------------------------------------------------------------------
(* Whole packets.                                                          *)

Piece(text) == Shown(Half(text, "front")) \o Shown(Half(text, "back"))
ContentUpTo(texts, n) == FlattenSeq([i \in 1..n |-> Piece(texts[i])])

(* d packets are under way, behind the first r texts of the reply.         *)
UnderWay(r, d) ==
  /\ Len(down) = 2 * d
  /\ \A m \in 1..d : /\ down[2 * m - 1] = Half(Sent(reply)[r + m], "front")
                     /\ down[2 * m] = Half(Sent(reply)[r + m], "back")

Filed(r) ==
  \/ /\ r <= Outs(reply) /\ curr = "out"
     /\ files.out = ContentUpTo(reply.out, r) /\ files.err = <<>>
  \/ /\ r > Outs(reply) /\ curr = "err"
     /\ files.out = Content(reply.out)
     /\ files.err = ContentUpTo(reply.err, r - Outs(reply) - 1)

Connected == link = "up" /\ ClientOpen /\ process = "running"

Alive == s_at # "gone" => process = "running"

InPackets ==
  net.whole /\ reply # NotYet /\ Carried(reply) =>
    \E r, d \in 0..Len(Sent(reply)) :
      /\ r + d <= Len(Sent(reply))
      /\ UnderWay(r, d) /\ Filed(r)
      /\ Connected => r + d = NextText - 1

-----------------------------------------------------------------------------
(* A sound exchange: the file arrives, and nobody leaves early.            *)
Healthy ==
  /\ link = "up" /\ process = "running"
  /\ c_at \in {"flag", "file", "read", "done"}
  /\ c_at = "done" => s_at = "gone"
  /\ c_at = "flag" => s_at = "flag" /\ up = <<>> /\ sent = 0
  /\ c_at \in {"read", "done"} => sent = size
  /\ s_at = "flag" => reply = NotYet /\ file = <<>>
  /\ s_at = "flag" /\ c_at # "flag" =>
       /\ Len(up) = sent + 1 /\ up[1] = FlagByte
       /\ \A i \in 1..sent : up[i + 1] = i
  /\ s_at # "flag" => s_flag = flag
  /\ s_at = "file" =>
       /\ Len(file) + Len(up) = sent
       /\ \A i \in 1..Len(file) : file[i] = i
       /\ \A i \in 1..Len(up) : up[i] = Len(file) + i
  /\ s_at \in {"run", "out", "err", "gone"} =>
       up = <<>> /\ c_at \in {"read", "done"} /\ file = Whole(size)
  /\ s_at \in {"out", "err", "gone"} => reply # NotYet
  /\ c_at = "done" => down = <<>>

Proceeds == Sound => Healthy

IInv == TypeInv /\ InOrder /\ Alive /\ InPackets /\ Proceeds

-----------------------------------------------------------------------------
(* Types.                                                                  *)

LEMMA HalfType ==
  ASSUME NEW t \in Texts \cup {Sentinel, NotYet}, NEW p \in {"front", "back"}
  PROVE  Half(t, p) \in Halves /\ Half(t, p).text = t /\ Half(t, p).part = p
BY DEF Half, Halves

LEMMA PacketType ==
  ASSUME NEW t \in Texts \cup {Sentinel}
  PROVE  /\ Packet(t) \in Seq(Halves) /\ Len(Packet(t)) = 2
         /\ Packet(t)[1] = Half(t, "front") /\ Packet(t)[2] = Half(t, "back")
BY HalfType DEF Packet

LEMMA ShownType ==
  ASSUME NEW h \in Halves
  PROVE  Shown(h) \in Seq(Halves)
BY DEF Shown

(* What a client prints of one or two halves.                              *)
LEMMA PrintedType ==
  ASSUME NEW halves \in Seq(Halves), Len(halves) \in 1..2, NEW text \in Printed(halves)
  PROVE  text \in Seq(Halves)
<1>1. halves[1] \in Halves /\ Shown(halves[1]) \in Seq(Halves)
  BY ShownType
<1>2. CASE Len(halves) = 2 /\ Full(halves[1])
  <2> DEFINE both == Shown(halves[1]) \o Shown(halves[2])
  <2>1. both \in Seq(Halves)
    <3>1. halves[2] \in Halves
      BY <1>2
    <3> QED
      BY <1>1, <3>1, ShownType
  <2>2. Garbage \in Halves
    BY HalfType DEF Garbage
  <2>3. text = both \/ text = Append(both, Garbage)
    BY <1>2 DEF Printed
  <2> HIDE DEF both
  <2> QED
    BY <2>1, <2>2, <2>3
<1>3. CASE ~(Len(halves) = 2 /\ Full(halves[1]))
  BY <1>1, <1>3 DEF Printed
<1> QED
  BY <1>2, <1>3

(* The first n elements of a sequence and the others.                      *)
LEMMA TakeDrop ==
  ASSUME NEW S, NEW s \in Seq(S), NEW n \in 1..Len(s)
  PROVE  /\ SubSeq(s, 1, n) \in Seq(S) /\ Len(SubSeq(s, 1, n)) = n
         /\ \A i \in 1..n : SubSeq(s, 1, n)[i] = s[i]
         /\ SubSeq(s, n + 1, Len(s)) \in Seq(S)
         /\ Len(SubSeq(s, n + 1, Len(s))) = Len(s) - n
         /\ \A i \in 1..Len(s)-n : SubSeq(s, n + 1, Len(s))[i] = s[n + i]
<1>1. \A i \in 1..n : s[i] \in S
  OBVIOUS
<1>2. \A i \in n+1..Len(s) : s[i] \in S
  OBVIOUS
<1>3. n \in Int /\ n + 1 \in Int /\ Len(s) \in Nat /\ n >= 1 /\ n <= Len(s)
  OBVIOUS
<1>4. /\ SubSeq(s, 1, n) \in Seq(S) /\ Len(SubSeq(s, 1, n)) = n
      /\ \A i \in 1..n : SubSeq(s, 1, n)[i] = s[i]
  BY <1>1, <1>3, SubSeqProperties
<1>5. /\ SubSeq(s, n + 1, Len(s)) \in Seq(S)
      /\ Len(SubSeq(s, n + 1, Len(s))) = Len(s) - n
      /\ \A i \in 1..Len(s)-n : SubSeq(s, n + 1, Len(s))[i] = s[n + i]
  BY <1>2, <1>3, SubSeqProperties
<1> QED
  BY <1>4, <1>5

-----------------------------------------------------------------------------
(* The actions, with what the two ends of a write have in common.          *)

(* The server sees nothing of these steps but the bytes and the link.      *)
ClientSteps == UNCHANGED <<net, asked, flag, size, down, curr, files, serverVars>>

LEMMA SendFlagDef ==
  ASSUME SendFlag
  PROVE  /\ ClientSteps /\ c_at = "flag" /\ sent' = sent /\ c_at' \in {"file", "threw"}
         /\ c_at' = "threw" => link = "reset"
         /\ \/ link = "up" /\ s_at # "gone" /\ up' = up \o <<FlagByte>> /\ link' = link
            \/ link = "up" /\ s_at = "gone" /\ up' = up /\ link' = "reset"
            \/ link = "reset" /\ UNCHANGED <<link, up>>
BY DEF SendFlag, ClientWrite, ServerOpen, ClientSteps

LEMMA SendFileDef ==
  ASSUME SendFile
  PROVE  /\ ClientSteps /\ c_at = "file" /\ sent < size
         /\ \/ link = "up" /\ s_at # "gone" /\ up' = up \o <<sent + 1>> /\ link' = link
               /\ c_at' = c_at /\ sent' = sent + 1
            \/ link = "up" /\ s_at = "gone" /\ up' = up /\ link' = "reset"
               /\ c_at' = c_at /\ sent' = sent + 1
            \/ link = "reset" /\ UNCHANGED <<link, up, sent>> /\ c_at' \in {"threw", "read"}
BY DEF SendFile, ClientWrite, ServerOpen, ClientSteps

(* The steps of the client that neither write nor receive.                 *)
ClientMoves == RefuseFile \/ FileSent \/ ReceiveEnds \/ ReceiveFails

LEMMA ClientMovesDef ==
  ASSUME ClientMoves
  PROVE  /\ ClientSteps /\ UNCHANGED <<link, up, sent>>
         /\ \/ c_at = "file" /\ c_at' = "exited" /\ size > MaxSize
            \/ c_at = "file" /\ c_at' = "read" /\ sent = size
            \/ c_at = "read" /\ c_at' = "done" /\ down = <<>>
                 /\ (s_at = "gone" \/ "reply" \in net.faults)
            \/ c_at = "read" /\ c_at' = "threw" /\ link = "reset"
BY DEF ClientMoves, RefuseFile, FileSent, ReceiveEnds, ReceiveFails, ServerOpen, ClientSteps

LEMMA ClientTypes ==
  ASSUME TypeInv, ClientSteps, up' \in Seq(0..size), sent' \in 0..size,
         link' \in {"up", "reset"},
         c_at' \in {"flag", "file", "read", "done", "exited", "threw"}
  PROVE  TypeInv'
<1>1. UNCHANGED <<net, asked, flag, size, down, curr, files, s_at, process, s_flag, file, reply,
                  index>>
  BY DEF ClientSteps, serverVars
<1>2. TypeOK'
  BY <1>1 DEF TypeInv, TypeOK
<1> QED
  BY <1>1, <1>2 DEF TypeInv, ReplyType

LEMMA ClientStepsTypes ==
  ASSUME TypeInv, SendFlag \/ SendFile \/ ClientMoves
  PROVE  TypeInv'
<1>0. /\ TypeOK /\ up \in Seq(0..size) /\ sent \in 0..size /\ size \in Nat
      /\ link \in {"up", "reset"}
  BY WireAssumption DEF TypeInv, TypeOK
<1>1. CASE SendFlag
  <2>1. up \o <<FlagByte>> \in Seq(0..size)
    BY <1>0 DEF FlagByte
  <2> QED
    BY <1>0, <1>1, <2>1, SendFlagDef, ClientTypes
<1>2. CASE SendFile
  <2>1. sent < size
    BY <1>2, SendFileDef
  <2>2. up \o <<sent + 1>> \in Seq(0..size) /\ sent + 1 \in 0..size
    BY <1>0, <2>1
  <2> QED
    BY <1>0, <1>2, <2>2, SendFileDef, ClientTypes DEF TypeOK
<1>3. CASE ClientMoves
  BY <1>0, <1>3, ClientMovesDef, ClientTypes
<1> QED
  BY <1>1, <1>2, <1>3

(* What one round of receiveResults takes and what it does with it.        *)
LEMMA ReceiveDef ==
  ASSUME TypeInv, Receive
  PROVE  \E n \in 1..2 :
           /\ n <= Len(down) /\ (net.whole => n = 2)
           /\ down' = SubSeq(down, n + 1, Len(down))
           /\ \/ n = 2 /\ TRUE \in FourthIsBang(down[2]) /\ curr' = "err" /\ files' = files
              \/ /\ n = 2 => FALSE \in FourthIsBang(down[2])
                 /\ curr' = curr
                 /\ \E text \in Printed(SubSeq(down, 1, n)) :
                      files' = [files EXCEPT ![curr] = @ \o text]
<1> DEFINE Switch(n) == IF n = 2 THEN FourthIsBang(SubSeq(down, 1, n)[2]) ELSE {FALSE}
           Takes(n) == /\ n <= Len(down)
                       /\ down' = SubSeq(down, n + 1, Len(down))
           Does(n, switch) ==
             IF switch
             THEN curr' = "err" /\ UNCHANGED files
             ELSE /\ \E text \in Printed(SubSeq(down, 1, n)) :
                       files' = [files EXCEPT ![curr] = @ \o text]
                  /\ UNCHANGED curr
<1>1. PICK n \in (IF net.whole THEN {2} ELSE {1, 2}) :
        Takes(n) /\ \E switch \in Switch(n) : Does(n, switch)
  BY DEF Receive
<1>2. PICK switch \in Switch(n) : Does(n, switch)
  BY <1>1
<1>3. n \in 1..2 /\ (net.whole => n = 2)
  BY <1>1
<1>4. Takes(n)
  BY <1>1
<1> HIDE DEF Does
<1>5. n = 2 => Switch(n) = FourthIsBang(down[2])
  <2>1. down \in Seq(Halves)
    BY DEF TypeInv, TypeOK
  <2>2. n \in 1..Len(down)
    BY <1>3, <1>4, <2>1
  <2> QED
    BY <2>1, <2>2, TakeDrop
<1>6. switch \in BOOLEAN
  <2>1. ASSUME NEW h PROVE FourthIsBang(h) \subseteq BOOLEAN
    <3>1. CASE h.text = Sentinel
      BY <3>1 DEF FourthIsBang
    <3>2. CASE h.text # Sentinel
      <4> DEFINE b == h.text \in (IF h.part = "front" THEN BangAt4 ELSE BangAt260)
      <4>1. b \in BOOLEAN
        OBVIOUS
      <4>2. FourthIsBang(h) = {b}
        BY <3>2 DEF FourthIsBang
      <4> HIDE DEF b
      <4> QED
        BY <4>1, <4>2
    <3> QED
      BY <3>1, <3>2
  <2>2. {FALSE} \subseteq BOOLEAN
    OBVIOUS
  <2>3. Switch(n) \subseteq BOOLEAN
    BY <2>1, <2>2
  <2> HIDE DEF Switch
  <2> QED
    BY <1>2, <2>3
<1>7. n = 1 => switch = FALSE
  BY <1>2
<1>8. n = 2 => switch \in FourthIsBang(down[2])
  BY <1>2, <1>5
<1> HIDE DEF Switch
<1>9. CASE switch = TRUE
  <2>1. curr' = "err" /\ files' = files
    BY <1>2, <1>9 DEF Does
  <2> QED
    BY <1>3, <1>4, <1>7, <1>8, <1>9, <2>1
<1>10. CASE switch = FALSE
  <2>1. /\ curr' = curr
        /\ \E text \in Printed(SubSeq(down, 1, n)) :
             files' = [files EXCEPT ![curr] = @ \o text]
    BY <1>2, <1>10 DEF Does
  <2> QED
    BY <1>3, <1>4, <1>8, <1>10, <2>1
<1> QED
  BY <1>6, <1>9, <1>10

LEMMA ReceiveTypes ==
  ASSUME TypeInv, Receive
  PROVE  TypeInv' /\ reply # NotYet
<1>0. TypeOK /\ down \in Seq(Halves) /\ files \in [{"out", "err"} -> Seq(Halves)]
  BY DEF TypeInv, TypeOK
<1>1. UNCHANGED <<net, asked, flag, size, link, up, c_at, sent, s_at, process, s_flag, file, reply,
                  index>>
  BY DEF Receive, serverVars
<1>2. PICK n \in 1..2 :
           /\ n <= Len(down)
           /\ down' = SubSeq(down, n + 1, Len(down))
           /\ \/ curr' = "err" /\ files' = files
              \/ /\ curr' = curr
                 /\ \E text \in Printed(SubSeq(down, 1, n)) :
                      files' = [files EXCEPT ![curr] = @ \o text]
  BY ReceiveDef
<1>3. n \in 1..Len(down) /\ down # <<>>
  BY <1>0, <1>2
<1>4. /\ down' \in Seq(Halves)
      /\ SubSeq(down, 1, n) \in Seq(Halves) /\ Len(SubSeq(down, 1, n)) = n
  BY <1>0, <1>2, <1>3, TakeDrop
<1>5. reply # NotYet
  BY <1>3 DEF TypeInv
<1>6. curr \in {"out", "err"}
  BY <1>0 DEF TypeOK
<1>7. /\ curr' \in {"out", "err"} /\ files' \in [{"out", "err"} -> Seq(Halves)]
      /\ curr' = "out" => files'.err = <<>>
  <2>1. CASE curr' = "err" /\ files' = files
    BY <1>0, <2>1
  <2>2. CASE curr' = curr /\ \E text \in Printed(SubSeq(down, 1, n)) :
                               files' = [files EXCEPT ![curr] = @ \o text]
    <3>1. PICK text \in Printed(SubSeq(down, 1, n)) : files' = [files EXCEPT ![curr] = @ \o text]
      BY <2>2
    <3>2. text \in Seq(Halves)
      BY <1>2, <1>4, PrintedType
    <3>3. files[curr] \in Seq(Halves)
      BY <1>0, <1>6
    <3>4. files[curr] \o text \in Seq(Halves)
      BY <3>2, <3>3
    <3>5. files' \in [{"out", "err"} -> Seq(Halves)]
      BY <1>0, <1>6, <3>1, <3>4
    <3>6. curr = "out" => files'.err = files.err
      BY <1>0, <3>1
    <3> QED
      BY <1>6, <2>2, <3>5, <3>6 DEF TypeInv
  <2> QED
    BY <1>2, <2>1, <2>2
<1>8. TypeOK'
  BY <1>0, <1>1, <1>4, <1>7 DEF TypeOK
<1> QED
  BY <1>1, <1>5, <1>7, <1>8 DEF TypeInv, ReplyType

(* The client sees nothing of these steps but the bytes and the link.      *)
ServerSteps == UNCHANGED <<net, asked, flag, size, c_at, sent, curr, files>>

LEMMA ServerDiesDef ==
  ASSUME NEW unread, ServerDies(unread)
  PROVE  /\ process' = "terminated" /\ s_at' = "gone" /\ UNCHANGED <<s_flag, index>>
         /\ link' = link \/ (link' = "reset" /\ unread # <<>>)
BY DEF ServerDies, HangUp

(* The steps of the server before there is a reply.                        *)
LEMMA ReadFlagDef ==
  ASSUME ReadFlag
  PROVE  /\ ServerSteps /\ UNCHANGED <<down, file, reply, index>>
         /\ s_at = "flag" /\ up # <<>> /\ up' = Tail(up)
         /\ \/ /\ flag = -1 \/ ~net.intact
               /\ process' = "terminated" /\ s_at' = "gone" /\ s_flag' = s_flag
               /\ link' \in {link, "reset"}
            \/ /\ s_flag' \in FlagsRead
               /\ s_at' = "file" /\ UNCHANGED <<process, link>>
BY ServerDiesDef DEF ReadFlag, ServerSteps, clientVars

LEMMA NoFlagDef ==
  ASSUME NoFlag
  PROVE  /\ ServerSteps /\ UNCHANGED <<up, down, file, reply, s_flag, index>>
         /\ s_at = "flag" /\ s_at' = "gone" /\ process' = "terminated"
         /\ link' \in {link, "reset"}
         /\ "flag" \in net.faults \/ c_at \notin {"flag", "file", "read"} \/ link = "reset"
BY ServerDiesDef DEF NoFlag, ServerSteps, clientVars, ClientOpen

LEMMA ReadFileDef ==
  ASSUME ReadFile
  PROVE  /\ ServerSteps
         /\ UNCHANGED <<link, down, s_at, process, s_flag, reply, index>>
         /\ s_at = "file"
         /\ \E n \in 1..2 :
              /\ n <= Len(up) /\ up' = SubSeq(up, n + 1, Len(up))
              /\ \/ file' = file \o SubSeq(up, 1, n)
                 \/ /\ n = 2 /\ SubSeq(up, 1, n)[2] # size
                    /\ file' = file \o SubSeq(up, 1, n) \o <<GarbageCell>>
BY DEF ReadFile, ServerSteps, clientVars

LEMMA EndOfFileDef ==
  ASSUME EndOfFile
  PROVE  /\ ServerSteps
         /\ UNCHANGED <<link, up, down, process, s_flag, file, reply, index>>
         /\ s_at = "file" /\ s_at' = "run"
         /\ up = <<>> /\ (c_at # "file" \/ "file" \in net.faults)
BY DEF EndOfFile, ServerSteps, clientVars

Start == Run \/ ReadFails

LEMMA StartDef ==
  ASSUME Start
  PROVE  /\ ServerSteps
         /\ UNCHANGED <<link, up, down, process, s_flag, file, index>>
         /\ s_at \in {"file", "run"} /\ s_at' = "out"
         /\ \/ reply' \in Replies /\ s_at = "run"
            \/ reply' = [out |-> <<>>, err |-> <<ReadError>>] /\ link = "reset" /\ s_at = "file"
BY DEF Start, Run, ReadFails, ServerSteps, clientVars

(* returnResults: the text that is sent, if one is.                        *)
Sending(bytes) ==
  \/ /\ link = "up" /\ c_at \in {"flag", "file", "read"} /\ down' = down \o bytes
     /\ UNCHANGED <<link, process>>
  \/ /\ link = "up" /\ c_at \notin {"flag", "file", "read"} /\ link' = "reset"
     /\ UNCHANGED <<down, process>>
  \/ link = "reset" /\ UNCHANGED <<link, down, process>>

Breakdown ==
  /\ s_at' = "gone" /\ process' = "terminated" /\ link' \in {link, "reset"}
  /\ UNCHANGED <<s_flag, index, down>>

LEMMA SendTextDef ==
  ASSUME NEW texts, SendText(texts)
  PROVE  /\ ServerSteps /\ UNCHANGED <<up, file, reply>>
         /\ index <= Len(texts)
         /\ \/ /\ Sending(Packet(texts[index])) /\ UNCHANGED <<s_at, s_flag>>
               /\ index' = index + 1 \/ (index' = Len(texts) + 1 /\ link = "reset")
            \/ /\ Breakdown
               /\ link = "reset" \/ texts[index] \in HugeTexts
<1>1. /\ ServerSteps /\ UNCHANGED <<up, file, reply>> /\ index <= Len(texts)
  BY DEF SendText, ServerSteps, clientVars
<1>2. \/ ServerWrite(Packet(texts[index]),
                     index' = index + 1 /\ UNCHANGED <<s_at, s_flag>>,
                     index' = Len(texts) + 1 /\ UNCHANGED <<s_at, s_flag>>)
      \/ Overrun(texts[index])
  BY DEF SendText
<1>3. CASE Overrun(texts[index])
  BY <1>1, <1>3, ServerDiesDef DEF Overrun, Breakdown
<1>4. CASE ServerWrite(Packet(texts[index]),
                       index' = index + 1 /\ UNCHANGED <<s_at, s_flag>>,
                       index' = Len(texts) + 1 /\ UNCHANGED <<s_at, s_flag>>)
  <2>1. CASE link = "reset" /\ UNCHANGED down /\ ServerDies(up)
    BY <1>1, <2>1, ServerDiesDef DEF Breakdown
  <2> QED
    BY <1>1, <1>4, <2>1 DEF ServerWrite, Sending, ClientOpen
<1> QED
  BY <1>2, <1>3, <1>4

LEMMA SendSentinelDef ==
  ASSUME SendSentinel
  PROVE  /\ ServerSteps /\ UNCHANGED <<up, file, reply>>
         /\ s_at = "out" /\ index > Len(reply.out)
         /\ \/ Sending(Packet(Sentinel)) /\ s_at' = "err" /\ index' = 1 /\ UNCHANGED s_flag
            \/ Breakdown /\ link = "reset"
<1>1. /\ ServerSteps /\ UNCHANGED <<up, file, reply>>
      /\ s_at = "out" /\ index > Len(reply.out)
  BY DEF SendSentinel, ServerSteps, clientVars
<1>2. CASE link = "reset" /\ UNCHANGED down /\ ServerDies(up)
  BY <1>1, <1>2, ServerDiesDef DEF Breakdown
<1> QED
  BY <1>1, <1>2 DEF SendSentinel, ServerWrite, Sending, ClientOpen

LEMMA CloseDef ==
  ASSUME Close
  PROVE  /\ ServerSteps /\ UNCHANGED <<up, down, process, s_flag, file, reply, index>>
         /\ s_at = "err" /\ index > Len(reply.err) /\ s_at' = "gone"
         /\ link' = link \/ (link' = "reset" /\ up # <<>>)
BY DEF Close, HangUp, ServerSteps, clientVars

LEMMA BreakDef ==
  ASSUME Break
  PROVE  /\ ServerSteps /\ UNCHANGED <<up, down, serverVars>>
         /\ "reset" \in net.faults /\ link' = "reset"
BY DEF Break, ServerSteps, clientVars

(* A step of the server before it has a reply, and one after.              *)
LEMMA EarlyTypes ==
  ASSUME TypeInv, ServerSteps, UNCHANGED <<down, reply, index>>,
         s_at \in {"flag", "file"}, s_at' \in {"flag", "file", "run", "gone"},
         process' \in {"running", "terminated"}, link' \in {"up", "reset"},
         up' \in Seq(0..size), s_flag' \in {0, 1, NotYet}, file' \in Seq(0..size)
  PROVE  TypeInv'
<1>1. UNCHANGED <<net, asked, flag, size, c_at, sent, curr, files>> /\ reply = NotYet /\ index = 1
  BY DEF ServerSteps, TypeInv
<1>2. TypeOK'
  BY <1>1 DEF TypeInv, TypeOK
<1> QED
  BY <1>1, <1>2 DEF TypeInv, ReplyType

LEMMA LateTypes ==
  ASSUME TypeInv, ServerSteps, UNCHANGED <<up, file, reply, s_flag>>,
         s_at \in {"out", "err"}, s_at' \in {"out", "err", "gone"},
         process' \in {"running", "terminated"}, link' \in {"up", "reset"},
         down' \in Seq(Halves),
         s_at' = "out" => index' \in 1..Len(reply.out) + 1,
         s_at' = "err" => index' \in 1..Len(reply.err) + 1
  PROVE  TypeInv'
<1>1. UNCHANGED <<net, asked, flag, size, c_at, sent, curr, files>> /\ reply # NotYet
  BY DEF ServerSteps, TypeInv
<1>2. TypeOK'
  BY <1>1 DEF TypeInv, TypeOK
<1> QED
  BY <1>1, <1>2 DEF TypeInv, ReplyType

LEMMA EarlyStepsTypes ==
  ASSUME TypeInv, ReadFlag \/ NoFlag \/ ReadFile \/ EndOfFile
  PROVE  TypeInv'
<1>0. /\ TypeOK /\ up \in Seq(0..size) /\ file \in Seq(0..size) /\ size \in Nat
      /\ link \in {"up", "reset"} /\ process \in {"running", "terminated"}
      /\ s_flag \in {0, 1, NotYet} /\ flag \in {-1, 0, 1}
  BY WireAssumption DEF TypeInv, TypeOK
<1>1. CASE ReadFlag
  <2>1. Tail(up) \in Seq(0..size)
    BY <1>0, <1>1, ReadFlagDef
  <2>2. FlagsRead \subseteq {0, 1}
    BY <1>0 DEF FlagsRead
  <2> QED
    BY <1>0, <1>1, <2>1, <2>2, ReadFlagDef, EarlyTypes
<1>2. CASE NoFlag
  BY <1>0, <1>2, NoFlagDef, EarlyTypes
<1>3. CASE ReadFile
  <2>1. PICK n \in 1..2 :
          /\ n <= Len(up) /\ up' = SubSeq(up, n + 1, Len(up))
          /\ \/ file' = file \o SubSeq(up, 1, n)
             \/ file' = file \o SubSeq(up, 1, n) \o <<GarbageCell>>
    BY <1>3, ReadFileDef
  <2>2. n \in 1..Len(up)
    BY <1>0, <2>1
  <2>3. SubSeq(up, 1, n) \in Seq(0..size) /\ up' \in Seq(0..size)
    BY <1>0, <2>1, <2>2, TakeDrop
  <2>4. file \o SubSeq(up, 1, n) \in Seq(0..size) /\ <<GarbageCell>> \in Seq(0..size)
    BY <1>0, <2>3 DEF GarbageCell
  <2>5. file \o SubSeq(up, 1, n) \o <<GarbageCell>> \in Seq(0..size)
    BY <2>4
  <2> QED
    BY <1>0, <1>3, <2>1, <2>3, <2>4, <2>5, ReadFileDef, EarlyTypes
<1>4. CASE EndOfFile
  BY <1>0, <1>4, EndOfFileDef, EarlyTypes
<1> QED
  BY <1>1, <1>2, <1>3, <1>4

(* A reply that is a reply: of a request that was run, or the error.       *)
LEMMA NewReply ==
  ASSUME TypeInv, Start
  PROVE  /\ reply' # NotYet /\ ReplyType(reply')
         /\ reply'.out \in Seq(Texts) /\ reply'.err \in Seq(Texts)
<1>1. CASE reply' \in Replies
  <2>1. /\ reply' # NotYet
        /\ reply'.out \in Seq(Texts \ (HugeTexts \cup BangAt260)) /\ reply'.err \in Seq(Texts)
        /\ \A i, j \in DOMAIN Sent(reply') : Sent(reply')[i] = Sent(reply')[j] => i = j
    BY <1>1, WireAssumption
  <2>2. reply'.out \in Seq(Texts)
    BY <2>1, SeqWider
  <2>3. DOMAIN Sent(reply') = 1..Len(Sent(reply'))
    <3>1. reply'.out \in Seq(Texts \cup {Sentinel}) /\ reply'.err \in Seq(Texts \cup {Sentinel})
      BY <2>1, <2>2, SeqWider
    <3>2. Sent(reply') \in Seq(Texts \cup {Sentinel})
      BY <3>1 DEF Sent
    <3> QED
      BY <3>2
  <2> QED
    BY <2>1, <2>2, <2>3 DEF ReplyType
<1>2. CASE reply' = [out |-> <<>>, err |-> <<ReadError>>]
  <2>1. reply'.out = <<>> /\ reply'.err = <<ReadError>> /\ ReadError \in Texts
    BY <1>2, WireAssumption
  <2>2. reply' # NotYet
    <3>1. <<>> \in Seq(Texts \cup Halves) /\ <<ReadError>> \in Seq(Texts \cup Halves)
      BY <2>1
    <3>2. reply' \in [out : Seq(Texts \cup Halves), err : Seq(Texts \cup Halves)]
      BY <1>2, <3>1
    <3> QED
      BY <3>2, WireAssumption
  <2>3. Sent(reply') = <<Sentinel, ReadError>>
    <3> DEFINE S == Texts \cup {Sentinel}
    <3>1. <<Sentinel>> \in Seq(S) /\ <<ReadError>> \in Seq(S) /\ <<Sentinel, ReadError>> \in Seq(S)
      BY <2>1
    <3>2. <<>> \o <<Sentinel>> = <<Sentinel>>
      BY <3>1
    <3>3. /\ <<Sentinel>> \o <<ReadError>> \in Seq(S) /\ Len(<<Sentinel>> \o <<ReadError>>) = 2
          /\ (<<Sentinel>> \o <<ReadError>>)[1] = Sentinel
          /\ (<<Sentinel>> \o <<ReadError>>)[2] = ReadError
      BY <3>1, ConcatProperties
    <3>4. <<Sentinel>> \o <<ReadError>> = <<Sentinel, ReadError>>
      <4> DEFINE s == <<Sentinel>> \o <<ReadError>>
                 u == <<Sentinel, ReadError>>
      <4>1. Len(s) = Len(u) /\ Len(s) = 2 /\ s[1] = u[1] /\ s[2] = u[2]
        BY <3>3
      <4>2. s \in Seq(S) /\ u \in Seq(S)
        BY <3>1, <3>3
      <4> HIDE DEF s, u, S
      <4>3. ASSUME NEW i \in 1..Len(s) PROVE s[i] = u[i]
        <5>1. i = 1 \/ i = 2
          BY <4>1
        <5> QED
          BY <4>1, <5>1
      <4>4. s = u
        BY <4>1, <4>2, <4>3, SeqEqual
      <4> QED
        BY <4>4 DEF s, u
    <3> QED
      BY <2>1, <3>2, <3>4 DEF Sent
  <2>4. ReadError # Sentinel
    BY <2>1, WireAssumption
  <2>5. \A i, j \in 1..Len(Sent(reply')) : Sent(reply')[i] = Sent(reply')[j] => i = j
    <3> SUFFICES ASSUME NEW i \in 1..2, NEW j \in 1..2,
                        <<Sentinel, ReadError>>[i] = <<Sentinel, ReadError>>[j]
                 PROVE  i = j
      BY <2>3
    <3> QED
      BY <2>4
  <2>6. reply'.out \in Seq(Texts \ (HugeTexts \cup BangAt260)) /\ reply'.err \in Seq(Texts)
    BY <2>1
  <2> QED
    BY <2>1, <2>2, <2>5, <2>6 DEF ReplyType
<1> QED
  BY <1>1, <1>2, StartDef

LEMMA StartTypes ==
  ASSUME TypeInv, Start
  PROVE  TypeInv'
<1>1. /\ UNCHANGED <<net, asked, flag, size, c_at, sent, curr, files>>
      /\ UNCHANGED <<link, up, down, process, s_flag, file, index>>
      /\ s_at' = "out" /\ index = 1 /\ reply = NotYet
  BY StartDef DEF ServerSteps, TypeInv
<1>2. Len(reply'.out) \in Nat
  BY NewReply
<1>3. TypeOK'
  BY <1>1, <1>2, NewReply DEF TypeInv, TypeOK
<1> QED
  BY <1>1, <1>3, NewReply DEF TypeInv

(* What is written leaves the types alone, and so does what is not.        *)
LEMMA SendingTypes ==
  ASSUME TypeInv, NEW t \in Texts \cup {Sentinel}, Sending(Packet(t)) \/ Breakdown
  PROVE  /\ down' \in Seq(Halves) /\ link' \in {"up", "reset"}
         /\ process' \in {"running", "terminated"}
<1>1. /\ down \in Seq(Halves) /\ link \in {"up", "reset"} /\ process \in {"running", "terminated"}
  BY DEF TypeInv, TypeOK
<1>2. down \o Packet(t) \in Seq(Halves)
  BY <1>1, PacketType
<1>3. CASE Sending(Packet(t))
  BY <1>1, <1>2, <1>3 DEF Sending
<1>4. CASE Breakdown
  BY <1>1, <1>4 DEF Breakdown
<1> QED
  BY <1>3, <1>4

LEMMA LateStepsTypes ==
  ASSUME TypeInv, SendOut \/ SendSentinel \/ SendErr \/ Close
  PROVE  TypeInv'
<1>0. /\ TypeOK /\ down \in Seq(Halves) /\ link \in {"up", "reset"}
      /\ process \in {"running", "terminated"}
  BY DEF TypeInv, TypeOK
<1>1. CASE SendOut
  <2>1. s_at = "out" /\ SendText(reply.out) /\ reply # NotYet
    BY <1>1 DEF SendOut, TypeInv
  <2>2. reply.out \in Seq(Texts) /\ index \in 1..Len(reply.out) + 1
    BY <1>0, <2>1 DEF TypeOK
  <2>3. index <= Len(reply.out)
    BY <2>1, SendTextDef
  <2>4. reply.out[index] \in Texts
    BY <2>2, <2>3
  <2>5. CASE Breakdown
    <3>1. s_at' = "gone" /\ s_flag' = s_flag
      BY <2>5 DEF Breakdown
    <3> QED
      BY <2>1, <2>4, <2>5, <3>1, SendTextDef, SendingTypes, LateTypes
  <2>6. CASE ~Breakdown
    <3>1. /\ Sending(Packet(reply.out[index])) /\ UNCHANGED <<s_at, s_flag>>
          /\ index' = index + 1 \/ index' = Len(reply.out) + 1
      BY <2>1, <2>6, SendTextDef
    <3>2. index' \in 1..Len(reply.out) + 1
      BY <2>2, <2>3, <3>1
    <3>3. s_at' = "out"
      BY <2>1, <3>1
    <3> QED
      BY <2>1, <2>4, <3>1, <3>2, <3>3, SendTextDef, SendingTypes, LateTypes
  <2> QED
    BY <2>5, <2>6
<1>2. CASE SendSentinel
  <2>1. s_at = "out" /\ reply # NotYet
    BY <1>2, SendSentinelDef DEF TypeInv
  <2>2. Len(reply.err) \in Nat
    BY <1>0, <2>1 DEF TypeOK
  <2>3. CASE Breakdown
    <3>1. s_at' = "gone" /\ s_flag' = s_flag
      BY <2>3 DEF Breakdown
    <3> QED
      BY <1>2, <2>1, <2>3, <3>1, SendSentinelDef, SendingTypes, LateTypes
  <2>4. CASE ~Breakdown
    <3>1. Sending(Packet(Sentinel)) /\ s_at' = "err" /\ index' = 1 /\ UNCHANGED s_flag
      BY <1>2, <2>4, SendSentinelDef
    <3>2. index' \in 1..Len(reply.err) + 1
      BY <2>2, <3>1
    <3> QED
      BY <1>2, <2>1, <3>1, <3>2, SendSentinelDef, SendingTypes, LateTypes
  <2> QED
    BY <2>3, <2>4
<1>3. CASE SendErr
  <2>1. s_at = "err" /\ SendText(reply.err) /\ reply # NotYet
    BY <1>3 DEF SendErr, TypeInv
  <2>2. reply.err \in Seq(Texts) /\ index \in 1..Len(reply.err) + 1
    BY <1>0, <2>1 DEF TypeOK
  <2>3. index <= Len(reply.err)
    BY <2>1, SendTextDef
  <2>4. reply.err[index] \in Texts
    BY <2>2, <2>3
  <2>5. CASE Breakdown
    <3>1. s_at' = "gone" /\ s_flag' = s_flag
      BY <2>5 DEF Breakdown
    <3> QED
      BY <2>1, <2>4, <2>5, <3>1, SendTextDef, SendingTypes, LateTypes
  <2>6. CASE ~Breakdown
    <3>1. /\ Sending(Packet(reply.err[index])) /\ UNCHANGED <<s_at, s_flag>>
          /\ index' = index + 1 \/ index' = Len(reply.err) + 1
      BY <2>1, <2>6, SendTextDef
    <3>2. index' \in 1..Len(reply.err) + 1
      BY <2>2, <2>3, <3>1
    <3>3. s_at' = "err"
      BY <2>1, <3>1
    <3> QED
      BY <2>1, <2>4, <3>1, <3>2, <3>3, SendTextDef, SendingTypes, LateTypes
  <2> QED
    BY <2>5, <2>6
<1>4. CASE Close
  <2>1. s_at' = "gone" /\ link' \in {link, "reset"} /\ s_at = "err"
    BY <1>4, CloseDef
  <2> QED
    BY <1>0, <1>4, <2>1, CloseDef, LateTypes
<1> QED
  BY <1>1, <1>2, <1>3, <1>4

LEMMA BreakTypes ==
  ASSUME TypeInv, Break
  PROVE  TypeInv'
<1>1. UNCHANGED <<net, asked, flag, size, up, down, c_at, sent, curr, files, s_at, process, s_flag,
                  file, reply, index>> /\ link' = "reset"
  BY DEF Break, clientVars, serverVars
<1>2. TypeOK'
  BY <1>1 DEF TypeInv, TypeOK
<1> QED
  BY <1>1, <1>2 DEF TypeInv, ReplyType

(* The steps, by what they need of the invariant.                          *)
LEMMA Steps ==
  ASSUME [Next]_vars
  PROVE  \/ SendFlag \/ SendFile \/ ClientMoves
         \/ Receive
         \/ ReadFlag \/ NoFlag \/ ReadFile \/ EndOfFile
         \/ Start
         \/ SendOut \/ SendSentinel \/ SendErr \/ Close
         \/ Break
         \/ UNCHANGED vars
BY DEF Next, ClientNext, ServerNext, ServerMoves, ClientMoves, Start

LEMMA NextTypeInv ==
  ASSUME TypeInv, [Next]_vars
  PROVE  TypeInv'
<1>1. CASE UNCHANGED vars
  <2>1. UNCHANGED <<net, asked, flag, size, link, up, down, c_at, sent, curr, files, s_at, process,
                    s_flag, file, reply, index>>
    BY <1>1 DEF vars, clientVars, serverVars
  <2>2. TypeOK'
    BY <2>1 DEF TypeInv, TypeOK
  <2> QED
    BY <2>1, <2>2 DEF TypeInv, ReplyType
<1> QED
  BY <1>1, Steps, ClientStepsTypes, ReceiveTypes, EarlyStepsTypes, StartTypes, LateStepsTypes,
     BreakTypes

-----------------------------------------------------------------------------
(* PrintedInOrder: what the network, the client and the server each do to  *)
(* the parts printed and under way.                                        *)

LEMMA SentType ==
  ASSUME NEW r, ReplyType(r)
  PROVE  /\ Sent(r) \in Seq(Texts \cup {Sentinel})
         /\ Outs(r) \in Nat /\ Errs(r) \in Nat
         /\ Len(Sent(r)) = Outs(r) + 1 + Errs(r) /\ Len(Sent(r)) \in Nat
         /\ DOMAIN Sent(r) = 1..Len(Sent(r))
         /\ \A i \in 1..Outs(r) : Sent(r)[i] = r.out[i]
         /\ Sent(r)[Outs(r) + 1] = Sentinel
         /\ \A i \in 1..Errs(r) : Sent(r)[Outs(r) + 1 + i] = r.err[i]
<1> DEFINE S == Texts \cup {Sentinel}
<1>1. r.out \in Seq(S) /\ r.err \in Seq(S) /\ <<Sentinel>> \in Seq(S)
  <2>1. r.out \in Seq(Texts \ (HugeTexts \cup BangAt260)) /\ r.err \in Seq(Texts)
    BY DEF ReplyType
  <2> QED
    BY <2>1, SeqWider
<1> DEFINE front == r.out \o <<Sentinel>>
<1>2. /\ front \in Seq(S) /\ Len(front) = Len(r.out) + 1
      /\ \A i \in 1..Len(r.out) : front[i] = r.out[i]
      /\ front[Len(r.out) + 1] = Sentinel
  BY <1>1
<1>3. Sent(r) = front \o r.err
  BY DEF Sent
<1> HIDE DEF front, S
<1>4. Len(r.out) \in Nat /\ Len(r.err) \in Nat
  BY <1>1
<1>5. /\ Sent(r) \in Seq(S) /\ Len(Sent(r)) = Len(front) + Len(r.err)
      /\ \A i \in 1..Len(front) : Sent(r)[i] = front[i]
      /\ \A i \in 1..Len(r.err) : Sent(r)[Len(front) + i] = r.err[i]
  <2>1. front \in Seq(S) /\ r.err \in Seq(S)
    BY <1>1, <1>2
  <2>2. /\ front \o r.err \in Seq(S) /\ Len(front \o r.err) = Len(front) + Len(r.err)
        /\ \A i \in 1..Len(front) : (front \o r.err)[i] = front[i]
        /\ \A i \in 1..Len(r.err) : (front \o r.err)[Len(front) + i] = r.err[i]
    BY <2>1
  <2> QED
    BY <2>2, <1>3
<1>6. ASSUME NEW i \in 1..Len(r.out) PROVE Sent(r)[i] = r.out[i]
  <2>1. i \in 1..Len(front)
    BY <1>2, <1>4
  <2> QED
    BY <1>2, <1>5, <2>1
<1>7. Sent(r)[Len(r.out) + 1] = Sentinel
  <2>1. Len(r.out) + 1 \in 1..Len(front)
    BY <1>2, <1>4
  <2> QED
    BY <1>2, <1>5, <2>1
<1>8. \A i \in 1..Len(r.err) : Sent(r)[Len(r.out) + 1 + i] = r.err[i]
  BY <1>2, <1>5
<1>9. DOMAIN Sent(r) = 1..Len(Sent(r))
  BY <1>5
<1>10. Len(Sent(r)) = Outs(r) + 1 + Errs(r) /\ Len(Sent(r)) \in Nat
  <2>1. Outs(r) \in Nat /\ Errs(r) \in Nat
    BY <1>4 DEF Outs, Errs
  <2>2. Len(front) = Outs(r) + 1
    BY <1>2 DEF Outs
  <2>3. Len(Sent(r)) = Len(front) + Errs(r)
    BY <1>5 DEF Errs
  <2> QED
    BY <2>1, <2>2, <2>3
<1> QED
  BY <1>4, <1>5, <1>6, <1>7, <1>8, <1>9, <1>10 DEF S, Outs, Errs

LEMMA PlaceOf ==
  ASSUME NEW r, ReplyType(r), NEW j \in 1..Len(Sent(r)), NEW h, h.text = Sent(r)[j]
  PROVE  Place(r, h) = 2 * j + (IF h.part = "front" THEN 0 ELSE 1) /\ InReply(r, h)
<1> DEFINE c == CHOOSE i \in DOMAIN Sent(r) : Sent(r)[i] = h.text
<1>1. c \in DOMAIN Sent(r) /\ Sent(r)[c] = h.text
  BY SentType
<1>2. c \in 1..Len(Sent(r))
  BY <1>1, SentType
<1>3. Place(r, h) = 2 * c + (IF h.part = "front" THEN 0 ELSE 1)
  BY DEF Place
<1> HIDE DEF c
<1>4. c = j
  BY <1>1, <1>2 DEF ReplyType
<1> QED
  BY <1>3, <1>4 DEF InReply

LEMMA OrderedLater ==
  ASSUME NEW r, NEW d, NEW c, NEW n \in Int, NEW m \in Int, n <= m, Ordered(r, d, c, n)
  PROVE  Ordered(r, d, c, m)
BY DEF Ordered

(* One more half under way, behind all others.                             *)
LEMMA OrderedSent ==
  ASSUME NEW r, NEW d, NEW c, NEW n \in Nat, Ordered(r, d, c, n),
         NEW h \in Halves, InReply(r, h), Place(r, h) = n
  PROVE  Ordered(r, d, Append(c, h), n + 1)
<1>1. d \in Seq(Halves) /\ c \in Seq(Halves)
  BY DEF Ordered
<1> DEFINE cc == Append(c, h)
<1>2. /\ cc \in Seq(Halves) /\ Len(cc) = Len(c) + 1 /\ cc[Len(c) + 1] = h
      /\ \A i \in 1..Len(c) : cc[i] = c[i]
  BY <1>1
<1>3. Len(c) \in Nat /\ Len(d) \in Nat
  BY <1>1
<1> HIDE DEF cc
<1>4. ASSUME NEW i \in 1..Len(cc)
      PROVE  InReply(r, cc[i]) /\ Place(r, cc[i]) \in Nat /\ Place(r, cc[i]) < n + 1
  BY <1>2, <1>3 DEF Ordered
<1>5. ASSUME NEW i \in 1..Len(cc), NEW j \in 1..Len(cc), i < j
      PROVE  Place(r, cc[i]) < Place(r, cc[j])
  <2>1. i \in 1..Len(c) /\ cc[i] = c[i]
    BY <1>2, <1>3, <1>5
  <2>2. CASE j \in 1..Len(c)
    <3>1. cc[j] = c[j]
      BY <1>2, <2>2
    <3> QED
      BY <1>5, <2>1, <2>2, <3>1 DEF Ordered
  <2>3. CASE j = Len(c) + 1
    <3>1. Place(r, c[i]) < n
      BY <2>1 DEF Ordered
    <3> QED
      BY <1>2, <2>1, <2>3, <3>1
  <2> QED
    BY <1>2, <1>3, <2>2, <2>3
<1>6. ASSUME NEW i \in 1..Len(d), NEW j \in 1..Len(cc), d[i] # Garbage
      PROVE  Place(r, d[i]) < Place(r, cc[j])
  <2>1. CASE j \in 1..Len(c)
    <3>1. cc[j] = c[j]
      BY <1>2, <2>1
    <3> QED
      BY <1>6, <2>1, <3>1 DEF Ordered
  <2>2. CASE j = Len(c) + 1
    <3>1. Place(r, d[i]) < n
      BY <1>6 DEF Ordered
    <3> QED
      BY <1>2, <2>2, <3>1
  <2> QED
    BY <1>2, <1>3, <2>1, <2>2
<1>7. \A i \in 1..Len(d) : d[i] # Garbage =>
        InReply(r, d[i]) /\ Place(r, d[i]) \in Nat /\ Place(r, d[i]) < n + 1
  BY DEF Ordered
<1>8. Ordered(r, d, cc, n + 1)
  BY <1>1, <1>2, <1>4, <1>5, <1>6, <1>7 DEF Ordered
<1> QED
  BY <1>8 DEF cc

(* The first k halves under way are dropped.                               *)
LEMMA OrderedDropped ==
  ASSUME NEW r, NEW d, NEW c, NEW n \in Int, Ordered(r, d, c, n), NEW k \in 1..Len(c)
  PROVE  Ordered(r, d, SubSeq(c, k + 1, Len(c)), n)
<1>1. d \in Seq(Halves) /\ c \in Seq(Halves) /\ Len(c) \in Nat /\ k \in Nat
  BY DEF Ordered
<1> DEFINE cc == SubSeq(c, k + 1, Len(c))
<1>2. /\ cc \in Seq(Halves) /\ Len(cc) = Len(c) - k
      /\ \A i \in 1..Len(c) - k : cc[i] = c[k + i]
  BY <1>1, TakeDrop
<1> HIDE DEF cc
<1>3. \A i \in 1..Len(cc) : k + i \in 1..Len(c) /\ cc[i] = c[k + i]
  BY <1>1, <1>2
<1>4. \A i \in 1..Len(cc) :
        InReply(r, cc[i]) /\ Place(r, cc[i]) \in Nat /\ Place(r, cc[i]) < n
  BY <1>3 DEF Ordered
<1>5. ASSUME NEW i \in 1..Len(cc), NEW j \in 1..Len(cc), i < j
      PROVE  Place(r, cc[i]) < Place(r, cc[j])
  <2>1. k + i < k + j
    BY <1>1, <1>2, <1>5
  <2> QED
    BY <1>3, <2>1 DEF Ordered
<1>6. ASSUME NEW i \in 1..Len(d), NEW j \in 1..Len(cc), d[i] # Garbage
      PROVE  Place(r, d[i]) < Place(r, cc[j])
  BY <1>3, <1>6 DEF Ordered
<1>7. Ordered(r, d, cc, n)
  BY <1>1, <1>2, <1>4, <1>5, <1>6 DEF Ordered
<1> QED
  BY <1>7 DEF cc

(* The next half under way is printed.                                     *)
LEMMA OrderedShown ==
  ASSUME NEW r, NEW d, NEW c, NEW n \in Int, Ordered(r, d, c, n), Len(c) >= 1
  PROVE  Ordered(r, Append(d, c[1]), SubSeq(c, 2, Len(c)), n)
<1>1. d \in Seq(Halves) /\ c \in Seq(Halves) /\ Len(c) \in Nat /\ Len(d) \in Nat
  BY DEF Ordered
<1>2. 1 \in 1..Len(c) /\ c[1] \in Halves
  BY <1>1
<1> DEFINE cc == SubSeq(c, 2, Len(c))
           dd == Append(d, c[1])
<1>3. Ordered(r, d, cc, n)
  <2>1. SubSeq(c, 1 + 1, Len(c)) = cc
    OBVIOUS
  <2> QED
    BY <1>2, <2>1, OrderedDropped
<1>4. /\ Len(cc) = Len(c) - 1 /\ \A i \in 1..Len(c) - 1 : cc[i] = c[1 + i]
  <2> DEFINE ee == SubSeq(c, 1 + 1, Len(c))
  <2>1. /\ Len(ee) = Len(c) - 1 /\ \A i \in 1..Len(c) - 1 : ee[i] = c[1 + i]
    BY <1>1, <1>2, TakeDrop
  <2>2. ee = cc
    OBVIOUS
  <2> HIDE DEF ee, cc
  <2> QED
    BY <2>1, <2>2
<1>5. /\ dd \in Seq(Halves) /\ Len(dd) = Len(d) + 1 /\ dd[Len(d) + 1] = c[1]
      /\ \A i \in 1..Len(d) : dd[i] = d[i]
  BY <1>1, <1>2
<1> HIDE DEF cc, dd
<1>6. ASSUME NEW i \in 1..Len(dd), dd[i] # Garbage
      PROVE  InReply(r, dd[i]) /\ Place(r, dd[i]) \in Nat /\ Place(r, dd[i]) < n
  <2>1. CASE i \in 1..Len(d)
    BY <1>5, <1>6, <2>1 DEF Ordered
  <2>2. CASE i = Len(d) + 1
    BY <1>2, <1>5, <2>2 DEF Ordered
  <2> QED
    BY <1>1, <1>5, <2>1, <2>2
<1>7. ASSUME NEW i \in 1..Len(dd), NEW j \in 1..Len(dd), i < j, dd[i] # Garbage, dd[j] # Garbage
      PROVE  Place(r, dd[i]) < Place(r, dd[j])
  <2>1. i \in 1..Len(d) /\ dd[i] = d[i]
    BY <1>1, <1>5, <1>7
  <2>2. CASE j \in 1..Len(d)
    <3>1. dd[j] = d[j]
      BY <1>5, <2>2
    <3> QED
      BY <1>7, <2>1, <2>2, <3>1 DEF Ordered
  <2>3. CASE j = Len(d) + 1
    <3>1. dd[j] = c[1] /\ d[i] # Garbage
      BY <1>5, <1>7, <2>1, <2>3
    <3>2. Place(r, d[i]) < Place(r, c[1])
      BY <1>2, <2>1, <3>1 DEF Ordered
    <3> QED
      BY <2>1, <3>1, <3>2
  <2> QED
    BY <1>1, <1>5, <2>2, <2>3
<1>8. ASSUME NEW i \in 1..Len(dd), NEW j \in 1..Len(cc), dd[i] # Garbage
      PROVE  Place(r, dd[i]) < Place(r, cc[j])
  <2>1. CASE i \in 1..Len(d)
    <3>1. dd[i] = d[i]
      BY <1>5, <2>1
    <3> QED
      BY <1>3, <1>8, <2>1, <3>1 DEF Ordered
  <2>2. CASE i = Len(d) + 1
    <3>1. 1 + j \in 1..Len(c) /\ 1 < 1 + j /\ cc[j] = c[1 + j]
      BY <1>1, <1>4
    <3> QED
      BY <1>2, <1>5, <2>2, <3>1 DEF Ordered
  <2> QED
    BY <1>1, <1>5, <2>1, <2>2
<1>9. Ordered(r, dd, cc, n)
  <2>1. /\ cc \in Seq(Halves)
        /\ \A i \in 1..Len(cc) :
             InReply(r, cc[i]) /\ Place(r, cc[i]) \in Nat /\ Place(r, cc[i]) < n
        /\ \A i, j \in 1..Len(cc) : i < j => Place(r, cc[i]) < Place(r, cc[j])
    BY <1>3 DEF Ordered
  <2> QED
    BY <1>5, <1>6, <1>7, <1>8, <2>1 DEF Ordered
<1> QED
  BY <1>9 DEF cc, dd

(* Garbage is printed.                                                     *)
LEMMA OrderedGarbage ==
  ASSUME NEW r, NEW d, NEW c, NEW n \in Int, Ordered(r, d, c, n)
  PROVE  Ordered(r, Append(d, Garbage), c, n)
<1>1. d \in Seq(Halves) /\ c \in Seq(Halves) /\ Len(d) \in Nat /\ Garbage \in Halves
  BY HalfType DEF Ordered, Garbage
<1> DEFINE dd == Append(d, Garbage)
<1>2. /\ dd \in Seq(Halves) /\ Len(dd) = Len(d) + 1 /\ dd[Len(d) + 1] = Garbage
      /\ \A i \in 1..Len(d) : dd[i] = d[i]
  BY <1>1
<1> HIDE DEF dd
<1>3. \A i \in 1..Len(dd) : dd[i] # Garbage => i \in 1..Len(d) /\ dd[i] = d[i]
  BY <1>1, <1>2
<1>4. Ordered(r, dd, c, n)
  <2>1. /\ \A i \in 1..Len(dd) : dd[i] # Garbage =>
             InReply(r, dd[i]) /\ Place(r, dd[i]) \in Nat /\ Place(r, dd[i]) < n
        /\ \A i, j \in 1..Len(dd) : i < j /\ dd[i] # Garbage /\ dd[j] # Garbage =>
             Place(r, dd[i]) < Place(r, dd[j])
        /\ \A i \in 1..Len(dd), j \in 1..Len(c) : dd[i] # Garbage =>
             Place(r, dd[i]) < Place(r, c[j])
    BY <1>3 DEF Ordered
  <2>2. /\ c \in Seq(Halves)
        /\ \A i \in 1..Len(c) :
             InReply(r, c[i]) /\ Place(r, c[i]) \in Nat /\ Place(r, c[i]) < n
        /\ \A i, j \in 1..Len(c) : i < j => Place(r, c[i]) < Place(r, c[j])
    BY DEF Ordered
  <2> QED
    BY <1>2, <2>1, <2>2 DEF Ordered
<1> QED
  BY <1>4 DEF dd

(* What is printed is nothing, or the halves that were read and perhaps    *)
(* garbage behind them.                                                    *)
LEMMA PrintedShape ==
  ASSUME NEW halves \in Seq(Halves), Len(halves) \in 1..2, NEW text \in Printed(halves)
  PROVE  \/ text = <<>>
         \/ text = <<halves[1]>>
         \/ /\ Len(halves) = 2
            /\ \/ text = <<halves[1]>> \o <<halves[2]>>
               \/ text = Append(<<halves[1]>> \o <<halves[2]>>, Garbage)
<1>1. halves[1] \in Halves
  OBVIOUS
<1>2. \A h : Full(h) => HasText(h)
  BY WireAssumption DEF Full, HasText, Long
<1>3. CASE Len(halves) = 2 /\ Full(halves[1])
  <2>1. Shown(halves[1]) = <<halves[1]>>
    BY <1>2, <1>3 DEF Shown
  <2>2. <<halves[1]>> \o <<>> = <<halves[1]>>
    <3>1. <<halves[1]>> \in Seq(Halves)
      BY <1>1
    <3> QED
      BY <3>1
  <2> DEFINE both == Shown(halves[1]) \o Shown(halves[2])
  <2>3. both = <<halves[1]>> \/ both = <<halves[1]>> \o <<halves[2]>>
    BY <2>1, <2>2 DEF Shown
  <2>4. Full(halves[2]) => both = <<halves[1]>> \o <<halves[2]>>
    BY <1>2, <2>1 DEF Shown
  <2>5. text = both \/ (Full(halves[2]) /\ text = Append(both, Garbage))
    <3>1. CASE Full(halves[2])
      BY <1>3, <3>1 DEF Printed
    <3>2. CASE ~Full(halves[2])
      BY <1>3, <3>2 DEF Printed
    <3> QED
      BY <3>1, <3>2
  <2> HIDE DEF both
  <2> QED
    BY <1>3, <2>3, <2>4, <2>5
<1>4. CASE ~(Len(halves) = 2 /\ Full(halves[1]))
  BY <1>4 DEF Printed, Shown
<1> QED
  BY <1>3, <1>4

(* One round of receiveResults.                                            *)
LEMMA OrderedReceived ==
  ASSUME NEW r, NEW d, NEW c, NEW n \in Int, Ordered(r, d, c, n),
         NEW k \in 1..2, k <= Len(c), NEW text \in Printed(SubSeq(c, 1, k))
  PROVE  Ordered(r, d \o text, SubSeq(c, k + 1, Len(c)), n)
<1>1. d \in Seq(Halves) /\ c \in Seq(Halves) /\ Len(c) \in Nat /\ Garbage \in Halves
  BY HalfType DEF Ordered, Garbage
<1>2. k \in 1..Len(c) /\ 1 \in 1..Len(c)
  BY <1>1
<1> DEFINE halves == SubSeq(c, 1, k)
           rest == SubSeq(c, k + 1, Len(c))
<1>3. /\ halves \in Seq(Halves) /\ Len(halves) = k /\ \A i \in 1..k : halves[i] = c[i]
  BY <1>1, <1>2, TakeDrop
<1>4. Ordered(r, d, rest, n)
  BY <1>2, OrderedDropped
<1>5. halves[1] = c[1] /\ c[1] \in Halves
  BY <1>1, <1>2, <1>3
<1>6. Ordered(r, Append(d, c[1]), rest, n)
  <2>1. Ordered(r, Append(d, c[1]), SubSeq(c, 2, Len(c)), n)
    BY <1>1, <1>2, OrderedShown
  <2>2. CASE k = 1
    BY <2>1, <2>2
  <2>3. CASE k = 2
    <3> DEFINE c1 == SubSeq(c, 1 + 1, Len(c))
               c2 == SubSeq(c1, 1 + 1, Len(c1))
    <3>1. /\ c1 \in Seq(Halves) /\ Len(c1) = Len(c) - 1
          /\ \A i \in 1..Len(c) - 1 : c1[i] = c[1 + i]
      BY <1>1, <1>2, TakeDrop
    <3>2. /\ rest \in Seq(Halves) /\ Len(rest) = Len(c) - 2
          /\ \A i \in 1..Len(c) - 2 : rest[i] = c[2 + i]
      <4>1. 2 \in 1..Len(c)
        BY <1>1, <1>2, <2>3
      <4>2. rest = SubSeq(c, 2 + 1, Len(c))
        BY <2>3
      <4> HIDE DEF rest
      <4> QED
        BY <1>1, <4>1, <4>2, TakeDrop
    <3>3. Ordered(r, Append(d, c[1]), c1, n)
      BY <2>1
    <3> HIDE DEF c1
    <3>4. 1 \in 1..Len(c1)
      BY <1>1, <2>3, <3>1
    <3>5. /\ c2 \in Seq(Halves) /\ Len(c2) = Len(c1) - 1
          /\ \A i \in 1..Len(c1) - 1 : c2[i] = c1[1 + i]
      BY <3>1, <3>4, TakeDrop
    <3>6. Ordered(r, Append(d, c[1]), c2, n)
      BY <3>3, <3>4, OrderedDropped
    <3> HIDE DEF c2, rest
    <3>7. \A i \in 1..Len(c2) : c2[i] = rest[i]
      BY <1>1, <2>3, <3>1, <3>2, <3>5
    <3>8. c2 = rest
      BY <1>1, <3>1, <3>2, <3>5, <3>7, SeqEqual
    <3> QED
      BY <3>6, <3>8
  <2> QED
    BY <2>2, <2>3
<1>7. CASE text = <<>>
  BY <1>1, <1>4, <1>7
<1>8. CASE text = <<halves[1]>>
  <2>1. d \o text = Append(d, c[1])
    BY <1>1, <1>5, <1>8
  <2> QED
    BY <1>6, <2>1
<1>9. CASE k = 2 /\ (\/ text = <<halves[1]>> \o <<halves[2]>>
                     \/ text = Append(<<halves[1]>> \o <<halves[2]>>, Garbage))
  <2>1. halves[2] = c[2] /\ c[2] \in Halves
    BY <1>1, <1>3, <1>9
  <2> DEFINE c1 == SubSeq(c, 2, Len(c))
             d1 == Append(d, c[1])
             d2 == Append(d1, c[2])
             two == <<c[1]>> \o <<c[2]>>
  <2>2. Ordered(r, d1, c1, n)
    BY <1>1, <1>2, OrderedShown
  <2>3. /\ c1 \in Seq(Halves) /\ Len(c1) = Len(c) - 1 /\ c1[1] = c[2]
        /\ \A i \in 1..Len(c) - 1 : c1[i] = c[1 + i]
    <3> DEFINE e == SubSeq(c, 1 + 1, Len(c))
    <3>1. e \in Seq(Halves) /\ Len(e) = Len(c) - 1 /\ \A i \in 1..Len(c) - 1 : e[i] = c[1 + i]
      BY <1>1, <1>2, TakeDrop
    <3>2. e = c1
      OBVIOUS
    <3> HIDE DEF e, c1
    <3>3. 1 \in 1..Len(c) - 1
      BY <1>1, <1>9
    <3> QED
      BY <3>1, <3>2, <3>3
  <2>4. Len(c1) >= 1
    BY <1>1, <1>9, <2>3
  <2> HIDE DEF c1
  <2>5. Ordered(r, d2, SubSeq(c1, 2, Len(c1)), n)
    BY <2>2, <2>3, <2>4, OrderedShown
  <2>6. SubSeq(c1, 2, Len(c1)) = rest
    <3> DEFINE e == SubSeq(c1, 1 + 1, Len(c1))
    <3>1. 1 \in 1..Len(c1)
      BY <2>3, <2>4
    <3>2. e \in Seq(Halves) /\ Len(e) = Len(c1) - 1 /\ \A i \in 1..Len(c1) - 1 : e[i] = c1[1 + i]
      BY <2>3, <3>1, TakeDrop
    <3>3. /\ rest \in Seq(Halves) /\ Len(rest) = Len(c) - 2
          /\ \A i \in 1..Len(c) - 2 : rest[i] = c[2 + i]
      <4>1. 2 \in 1..Len(c)
        BY <1>1, <1>2, <1>9
      <4>2. rest = SubSeq(c, 2 + 1, Len(c))
        BY <1>9
      <4> HIDE DEF rest
      <4> QED
        BY <1>1, <4>1, <4>2, TakeDrop
    <3>4. e = SubSeq(c1, 2, Len(c1))
      OBVIOUS
    <3> HIDE DEF e, rest
    <3>len. Len(c) \in Nat
      BY <1>1
    <3>5. ASSUME NEW i \in 1..Len(e)
          PROVE  e[i] = rest[i]
      <4>1. /\ i \in 1..Len(c1) - 1 /\ i \in 1..Len(c) - 2 /\ 1 + i \in 1..Len(c) - 1
            /\ 1 + (1 + i) = 2 + i
        BY <2>3, <3>2, <3>len
      <4>2. e[i] = c1[1 + i]
        BY <3>2, <4>1
      <4>3. c1[1 + i] = c[1 + (1 + i)]
        BY <2>3, <4>1
      <4> QED
        BY <3>3, <4>1, <4>2, <4>3
    <3>6. Len(e) = Len(rest)
      BY <1>1, <2>3, <3>2, <3>3
    <3>7. e = rest
      BY <3>2, <3>3, <3>5, <3>6, SeqEqual
    <3> QED
      BY <3>4, <3>7
  <2>7. Ordered(r, d2, rest, n) /\ Ordered(r, Append(d2, Garbage), rest, n)
    BY <2>5, <2>6, OrderedGarbage
  <2>8. /\ <<c[1]>> \in Seq(Halves) /\ two \in Seq(Halves)
        /\ two = Append(<<c[1]>>, c[2])
    BY <1>5, <2>1
  <2>9. d \o two = d2
    <3>1. d \o Append(<<c[1]>>, c[2]) = Append(d \o <<c[1]>>, c[2])
      BY <1>1, <2>1, <2>8, ConcatAppend
    <3>2. d \o <<c[1]>> = d1
      BY <1>1, <1>5
    <3> QED
      BY <2>8, <3>1, <3>2
  <2>10. d \o Append(two, Garbage) = Append(d2, Garbage)
    BY <1>1, <2>8, <2>9, ConcatAppend
  <2>11. text = two \/ text = Append(two, Garbage)
    BY <1>5, <1>9, <2>1
  <2> HIDE DEF two, d2
  <2> QED
    BY <2>7, <2>9, <2>10, <2>11
<1> QED
  BY <1>3, <1>7, <1>8, <1>9, PrintedShape

(* One packet of returnResults.                                            *)
LEMMA PacketInOrder ==
  ASSUME NEW r, ReplyType(r), NEW j \in 1..Len(Sent(r)),
         NEW d, NEW c, Ordered(r, d, c, 2 * j)
  PROVE  Ordered(r, d, c \o Packet(Sent(r)[j]), 2 * (j + 1))
<1> DEFINE t == Sent(r)[j]
           h1 == Half(t, "front")
           h2 == Half(t, "back")
<1>1. t \in Texts \cup {Sentinel} /\ j \in Nat /\ c \in Seq(Halves)
  <2>1. Sent(r) \in Seq(Texts \cup {Sentinel}) /\ Len(Sent(r)) \in Nat
    BY SentType
  <2> QED
    BY <2>1 DEF Ordered
<1>2. /\ h1 \in Halves /\ h1.text = t /\ h1.part = "front"
      /\ h2 \in Halves /\ h2.text = t /\ h2.part = "back"
  BY <1>1, HalfType
<1>3. Packet(t) = <<h1, h2>>
  BY DEF Packet
<1> HIDE DEF t, h1, h2
<1>4. Place(r, h1) = 2 * j /\ InReply(r, h1) /\ Place(r, h2) = 2 * j + 1 /\ InReply(r, h2)
  <2>1. h1.text = Sent(r)[j] /\ h2.text = Sent(r)[j]
    BY <1>2 DEF t
  <2> QED
    BY <1>1, <1>2, <2>1, PlaceOf
<1>5. 2 * j \in Nat /\ 2 * j + 1 \in Nat /\ (2 * j + 1) + 1 = 2 * (j + 1)
  BY <1>1
<1>6. Ordered(r, d, Append(c, h1), 2 * j + 1)
  BY <1>2, <1>4, <1>5, OrderedSent
<1>7. Ordered(r, d, Append(Append(c, h1), h2), (2 * j + 1) + 1)
  BY <1>2, <1>4, <1>5, <1>6, OrderedSent
<1>8. c \o Packet(t) = Append(Append(c, h1), h2)
  <2>1. Packet(t) = Append(<<h1>>, h2) /\ <<h1>> \in Seq(Halves) /\ c \o <<h1>> = Append(c, h1)
    BY <1>1, <1>2, <1>3
  <2> QED
    BY <1>1, <1>2, <2>1, ConcatAppend
<1> QED
  BY <1>5, <1>7, <1>8 DEF t

LEMMA NextTextIs ==
  ASSUME TypeInv, reply # NotYet
  PROVE  /\ s_at \in {"out", "err", "gone"} /\ ReplyType(reply)
         /\ NextText \in 1..Len(Sent(reply)) + 1
         /\ s_at = "out" => /\ NextText = index /\ index \in 1..Outs(reply) + 1
         /\ s_at = "err" => /\ NextText = Outs(reply) + 1 + index
                            /\ index \in 1..Errs(reply) + 1
         /\ s_at = "gone" => NextText = Len(Sent(reply)) + 1
<1>1. ReplyType(reply) /\ s_at \in {"out", "err", "gone"} /\ TypeOK
  BY DEF TypeInv, TypeOK
<1>2. /\ Outs(reply) \in Nat /\ Errs(reply) \in Nat /\ Len(Sent(reply)) \in Nat
      /\ Len(Sent(reply)) = Outs(reply) + 1 + Errs(reply)
  BY <1>1, SentType
<1>3. CASE s_at = "out"
  <2>1. NextText = index /\ index \in 1..Outs(reply) + 1
    BY <1>1, <1>3 DEF NextText, TypeOK, Outs
  <2> QED
    BY <1>1, <1>2, <1>3, <2>1
<1>4. CASE s_at = "err"
  <2>1. NextText = Outs(reply) + 1 + index /\ index \in 1..Errs(reply) + 1
    BY <1>1, <1>4 DEF NextText, TypeOK, Errs
  <2> QED
    BY <1>1, <1>2, <1>4, <2>1
<1>5. CASE s_at = "gone"
  <2>1. NextText = Len(Sent(reply)) + 1
    BY <1>5 DEF NextText
  <2> QED
    BY <1>1, <1>2, <1>5, <2>1
<1> QED
  BY <1>1, <1>3, <1>4, <1>5

(* The text the server sends, and the one it sends next.                   *)
LEMMA LateSteps ==
  ASSUME TypeInv, SendOut \/ SendSentinel \/ SendErr \/ Close
  PROVE  /\ reply # NotYet /\ ServerSteps /\ UNCHANGED <<up, file, reply>>
         /\ NextText' \in Nat /\ NextText <= NextText'
         /\ \/ /\ NextText \in 1..Len(Sent(reply)) /\ NextText' = NextText + 1
               /\ link = "up" /\ UNCHANGED <<link, process>>
               /\ c_at \in {"flag", "file", "read"}
               /\ down' = down \o Packet(Sent(reply)[NextText])
            \/ /\ UNCHANGED down
               /\ link' = "reset" \/ process' = "terminated" \/ NextText' = NextText
<1>0. s_at \in {"out", "err"} /\ reply # NotYet
  <2>1. SendOut => s_at = "out"
    BY DEF SendOut
  <2>2. SendErr => s_at = "err"
    BY DEF SendErr
  <2> QED
    BY <2>1, <2>2, SendSentinelDef, CloseDef DEF TypeInv
<1>1. /\ ReplyType(reply) /\ NextText \in 1..Len(Sent(reply)) + 1
      /\ s_at = "out" => NextText = index /\ index \in 1..Outs(reply) + 1
      /\ s_at = "err" => /\ NextText = Outs(reply) + 1 + index
                         /\ index \in 1..Errs(reply) + 1
  BY <1>0, NextTextIs
<1>2. /\ Outs(reply) \in Nat /\ Errs(reply) \in Nat /\ Len(Sent(reply)) \in Nat
      /\ Len(Sent(reply)) = Outs(reply) + 1 + Errs(reply)
  BY <1>1, SentType
<1>3. ASSUME s_at' = "gone", reply' = reply
      PROVE  NextText' \in Nat /\ NextText <= NextText' /\ NextText' = Len(Sent(reply)) + 1
  <2>1. NextText' = Len(Sent(reply)) + 1
    BY <1>3 DEF NextText
  <2> QED
    BY <1>1, <1>2, <2>1
<1>4. CASE SendOut
  <2>1. s_at = "out" /\ SendText(reply.out)
    BY <1>4 DEF SendOut
  <2>2. index <= Outs(reply) /\ ServerSteps /\ UNCHANGED <<up, file, reply>>
    BY <2>1, SendTextDef DEF Outs, Errs
  <2>3. CASE Breakdown
    <3>1. s_at' = "gone" /\ down' = down /\ process' = "terminated"
      BY <2>3 DEF Breakdown
    <3> QED
      BY <1>0, <1>3, <2>2, <3>1
  <2>4. CASE ~Breakdown
    <3>1. /\ Sending(Packet(reply.out[index])) /\ UNCHANGED <<s_at, s_flag>>
          /\ index' = index + 1 \/ (index' = Outs(reply) + 1 /\ link = "reset")
      BY <2>1, <2>4, SendTextDef DEF Outs, Errs
    <3>2. NextText' = index'
      BY <2>1, <3>1 DEF NextText
    <3>3. index \in 1..Outs(reply) /\ index \in 1..Len(Sent(reply))
      BY <1>1, <1>2, <2>1, <2>2
    <3>4. Sent(reply)[index] = reply.out[index]
      BY <1>1, <3>3, SentType
    <3>5. NextText = index /\ index \in Nat /\ NextText' \in Nat /\ NextText <= NextText'
      BY <1>1, <1>2, <2>1, <3>1, <3>2, <3>3
    <3>6. CASE link = "reset"
      BY <1>0, <2>2, <3>1, <3>5, <3>6 DEF Sending
    <3>7. CASE link = "up"
      <4>1. NextText' = NextText + 1
        BY <3>1, <3>2, <3>5, <3>7
      <4>2. \/ /\ down' = down \o Packet(reply.out[index]) /\ UNCHANGED <<link, process>>
               /\ c_at \in {"flag", "file", "read"}
            \/ down' = down /\ link' = "reset"
        BY <3>1, <3>7 DEF Sending
      <4> QED
        BY <1>0, <2>2, <3>3, <3>4, <3>5, <3>7, <4>1, <4>2
    <3> QED
      BY <3>6, <3>7 DEF TypeInv, TypeOK
  <2> QED
    BY <2>3, <2>4
<1>5. CASE SendErr
  <2>1. s_at = "err" /\ SendText(reply.err)
    BY <1>5 DEF SendErr
  <2>2. index <= Errs(reply) /\ ServerSteps /\ UNCHANGED <<up, file, reply>>
    BY <2>1, SendTextDef DEF Outs, Errs
  <2>3. CASE Breakdown
    <3>1. s_at' = "gone" /\ down' = down /\ process' = "terminated"
      BY <2>3 DEF Breakdown
    <3> QED
      BY <1>0, <1>3, <2>2, <3>1
  <2>4. CASE ~Breakdown
    <3>1. /\ Sending(Packet(reply.err[index])) /\ UNCHANGED <<s_at, s_flag>>
          /\ index' = index + 1 \/ (index' = Errs(reply) + 1 /\ link = "reset")
      BY <2>1, <2>4, SendTextDef DEF Outs, Errs
    <3>2. NextText' = Outs(reply) + 1 + index'
      BY <2>1, <2>2, <3>1 DEF NextText
    <3>3. index \in 1..Errs(reply) /\ Outs(reply) + 1 + index \in 1..Len(Sent(reply))
      BY <1>1, <1>2, <2>1, <2>2
    <3>4. Sent(reply)[Outs(reply) + 1 + index] = reply.err[index]
      BY <1>1, <3>3, SentType
    <3>5. /\ NextText = Outs(reply) + 1 + index /\ NextText \in Nat
          /\ NextText' \in Nat /\ NextText <= NextText'
      BY <1>1, <1>2, <2>1, <3>1, <3>2, <3>3
    <3>6. CASE link = "reset"
      BY <1>0, <2>2, <3>1, <3>5, <3>6 DEF Sending
    <3>7. CASE link = "up"
      <4>1. NextText' = NextText + 1
        BY <1>2, <3>1, <3>2, <3>3, <3>5, <3>7
      <4>2. \/ /\ down' = down \o Packet(reply.err[index]) /\ UNCHANGED <<link, process>>
               /\ c_at \in {"flag", "file", "read"}
            \/ down' = down /\ link' = "reset"
        BY <3>1, <3>7 DEF Sending
      <4> QED
        BY <1>0, <2>2, <3>3, <3>4, <3>5, <3>7, <4>1, <4>2
    <3> QED
      BY <3>6, <3>7 DEF TypeInv, TypeOK
  <2> QED
    BY <2>3, <2>4
<1>6. CASE SendSentinel
  <2>1. s_at = "out" /\ index > Outs(reply) /\ ServerSteps /\ UNCHANGED <<up, file, reply>>
    BY <1>6, SendSentinelDef DEF Outs
  <2>2. CASE Breakdown
    <3>1. s_at' = "gone" /\ down' = down /\ process' = "terminated"
      BY <2>2 DEF Breakdown
    <3> QED
      BY <1>0, <1>3, <2>1, <3>1
  <2>3. CASE ~Breakdown
    <3>1. Sending(Packet(Sentinel)) /\ s_at' = "err" /\ index' = 1
      BY <1>6, <2>3, SendSentinelDef
    <3>2. NextText = Outs(reply) + 1 /\ NextText \in 1..Len(Sent(reply)) /\ NextText \in Nat
      BY <1>1, <1>2, <2>1
    <3>3. NextText' = Outs(reply) + 1 + 1
      BY <2>1, <3>1 DEF NextText
    <3>4. NextText' = NextText + 1 /\ NextText' \in Nat /\ NextText <= NextText'
      BY <1>2, <3>2, <3>3
    <3>5. Sent(reply)[NextText] = Sentinel
      BY <1>1, <3>2, SentType
    <3>6. \/ /\ link = "up" /\ down' = down \o Packet(Sentinel) /\ UNCHANGED <<link, process>>
             /\ c_at \in {"flag", "file", "read"}
          \/ link = "up" /\ down' = down /\ link' = "reset"
          \/ link = "reset" /\ link' = link /\ down' = down
      BY <3>1 DEF Sending
    <3>7. CASE /\ link = "up" /\ down' = down \o Packet(Sentinel) /\ UNCHANGED <<link, process>>
               /\ c_at \in {"flag", "file", "read"}
      BY <1>0, <2>1, <3>2, <3>4, <3>5, <3>7
    <3>8. CASE down' = down /\ link' = "reset"
      BY <1>0, <2>1, <3>4, <3>8
    <3> QED
      BY <3>6, <3>7, <3>8
  <2> QED
    BY <2>2, <2>3
<1>7. CASE Close
  <2>1. /\ s_at = "err" /\ index > Errs(reply) /\ s_at' = "gone" /\ down' = down
        /\ ServerSteps /\ UNCHANGED <<up, file, reply>>
    BY <1>7, CloseDef DEF Errs
  <2>2. NextText = Len(Sent(reply)) + 1
    BY <1>1, <1>2, <2>1
  <2> QED
    BY <1>0, <1>3, <2>1, <2>2
<1> QED
  BY <1>4, <1>5, <1>6, <1>7

(* What the client prints, .out and .err together.                         *)
LEMMA PrintedGrows ==
  ASSUME TypeInv, NEW text \in Seq(Halves), files' = [files EXCEPT ![curr] = @ \o text]
  PROVE  printed' = printed \o text
<1>1. /\ files \in [{"out", "err"} -> Seq(Halves)] /\ curr \in {"out", "err"}
      /\ files.out \in Seq(Halves) /\ files.err \in Seq(Halves)
  BY DEF TypeInv, TypeOK
<1>2. CASE curr = "out"
  <2>1. files'.out = files.out \o text /\ files'.err = <<>> /\ files.err = <<>>
    BY <1>1, <1>2 DEF TypeInv
  <2>2. printed' = (files.out \o text) \o <<>> /\ printed = files.out \o <<>>
    BY <2>1 DEF printed
  <2>3. files.out \o text \in Seq(Halves)
    BY <1>1
  <2>4. printed' = files.out \o text /\ printed = files.out
    BY <1>1, <2>2, <2>3
  <2> QED
    BY <2>4
<1>3. CASE curr = "err"
  <2>1. files'.out = files.out /\ files'.err = files.err \o text
    BY <1>1, <1>3
  <2>2. printed' = files.out \o (files.err \o text)
    BY <2>1 DEF printed
  <2>types. files.out \in Seq(Halves) /\ files.err \in Seq(Halves) /\ text \in Seq(Halves)
    BY <1>1
  <2>3. files.out \o (files.err \o text) = (files.out \o files.err) \o text
    <3>1. ASSUME NEW a \in Seq(Halves), NEW b \in Seq(Halves), NEW c \in Seq(Halves)
          PROVE  a \o (b \o c) = (a \o b) \o c
      BY ConcatAssociative
    <3> QED
      BY <2>types, <3>1
  <2> QED
    BY <2>2, <2>3 DEF printed
<1> QED
  BY <1>1, <1>2, <1>3

LEMMA InitInOrder == Init => InOrder
BY DEF Init, InOrder

LEMMA NextInOrder ==
  ASSUME TypeInv, InOrder, [Next]_vars
  PROVE  InOrder'
<1>1. CASE SendFlag \/ SendFile \/ ClientMoves \/ Break \/ UNCHANGED vars
  <2>1. UNCHANGED <<reply, files, down, s_at, index>>
    BY <1>1, SendFlagDef, SendFileDef, ClientMovesDef, BreakDef
       DEF ClientSteps, ServerSteps, serverVars, vars, clientVars
  <2>2. NextText' = NextText /\ printed' = printed
    BY <2>1 DEF NextText, printed
  <2> QED
    BY <2>1, <2>2 DEF InOrder
<1>2. CASE Receive
  <2>1. reply # NotYet /\ reply' = reply /\ NextText' = NextText
    BY <1>2, ReceiveTypes DEF Receive, serverVars, NextText
  <2>2. NextText \in Int /\ 2 * NextText \in Int
    <3>1. Len(Sent(reply)) \in Nat /\ NextText \in 1..Len(Sent(reply)) + 1
      BY <2>1, NextTextIs, SentType
    <3> QED
      BY <3>1
  <2>3. Ordered(reply, printed, down, 2 * NextText)
    BY <2>1 DEF InOrder
  <2>4. PICK n \in 1..2 :
           /\ n <= Len(down)
           /\ down' = SubSeq(down, n + 1, Len(down))
           /\ \/ curr' = "err" /\ files' = files
              \/ /\ curr' = curr
                 /\ \E text \in Printed(SubSeq(down, 1, n)) :
                      files' = [files EXCEPT ![curr] = @ \o text]
    BY <1>2, ReceiveDef
  <2>5. down \in Seq(Halves)
    BY DEF TypeInv, TypeOK
  <2>6. n \in 1..Len(down)
    BY <2>4, <2>5
  <2>7. CASE files' = files
    <3>1. printed' = printed
      BY <2>7 DEF printed
    <3>2. Ordered(reply, printed, down', 2 * NextText)
      BY <2>2, <2>3, <2>4, <2>6, OrderedDropped
    <3> QED
      BY <2>1, <3>1, <3>2 DEF InOrder
  <2>8. CASE \E text \in Printed(SubSeq(down, 1, n)) :
               files' = [files EXCEPT ![curr] = @ \o text]
    <3>1. PICK text \in Printed(SubSeq(down, 1, n)) :
            files' = [files EXCEPT ![curr] = @ \o text]
      BY <2>8
    <3>2. SubSeq(down, 1, n) \in Seq(Halves) /\ Len(SubSeq(down, 1, n)) = n
      BY <2>5, <2>6, TakeDrop
    <3>3. text \in Seq(Halves)
      BY <2>4, <3>2, PrintedType
    <3>4. printed' = printed \o text
      BY <3>1, <3>3, PrintedGrows
    <3>5. Ordered(reply, printed \o text, down', 2 * NextText)
      BY <2>2, <2>3, <2>4, OrderedReceived
    <3> QED
      BY <2>1, <3>4, <3>5 DEF InOrder
  <2> QED
    BY <2>4, <2>7, <2>8
<1>3. CASE ReadFlag \/ NoFlag \/ ReadFile \/ EndOfFile
  <2>1. reply' = reply /\ s_at \in {"flag", "file"}
    BY <1>3, ReadFlagDef, NoFlagDef, ReadFileDef, EndOfFileDef
  <2> QED
    BY <2>1 DEF TypeInv, InOrder
<1>4. CASE Start
  <2>1. /\ s_at \in {"file", "run"} /\ s_at' = "out"
        /\ UNCHANGED <<down, files, index, curr>>
    BY <1>4, StartDef DEF ServerSteps
  <2>2. down' = <<>> /\ files'.out = <<>> /\ files'.err = <<>>
    BY <2>1 DEF TypeInv
  <2>3. printed' = <<>>
    BY <2>2 DEF printed
  <2>4. Ordered(reply', <<>>, <<>>, (2 * NextText)')
    BY DEF Ordered
  <2> QED
    BY <2>2, <2>3, <2>4 DEF InOrder
<1>5. CASE SendOut \/ SendSentinel \/ SendErr \/ Close
  <2>1. /\ reply # NotYet /\ ServerSteps /\ reply' = reply
        /\ NextText' \in Nat /\ NextText <= NextText'
        /\ \/ /\ NextText \in 1..Len(Sent(reply)) /\ NextText' = NextText + 1
              /\ down' = down \o Packet(Sent(reply)[NextText])
           \/ UNCHANGED down
    BY <1>5, LateSteps
  <2>2. NextText \in Int /\ ReplyType(reply)
    <3>1. Len(Sent(reply)) \in Nat /\ NextText \in 1..Len(Sent(reply)) + 1 /\ ReplyType(reply)
      BY <2>1, NextTextIs, SentType
    <3> QED
      BY <3>1
  <2>3. Ordered(reply, printed, down, 2 * NextText) /\ printed' = printed
    BY <2>1 DEF InOrder, printed, ServerSteps
  <2>4. CASE UNCHANGED down
    <3>1. Ordered(reply, printed, down, 2 * NextText')
      <4>1. 2 * NextText \in Int /\ 2 * NextText' \in Int /\ 2 * NextText <= 2 * NextText'
        <5>1. \A a \in Int, b \in Nat : a <= b => 2 * a \in Int /\ 2 * b \in Int /\ 2 * a <= 2 * b
          OBVIOUS
        <5>2. NextText \in Int /\ NextText' \in Nat /\ NextText <= NextText'
          BY <2>1, <2>2
        <5> QED
          BY <5>1, <5>2
      <4> QED
        BY <2>3, <4>1, OrderedLater
    <3> QED
      BY <2>1, <2>3, <2>4, <3>1 DEF InOrder
  <2>5. CASE /\ NextText \in 1..Len(Sent(reply)) /\ NextText' = NextText + 1
             /\ down' = down \o Packet(Sent(reply)[NextText])
    <3>1. Ordered(reply, printed, down \o Packet(Sent(reply)[NextText]), 2 * (NextText + 1))
      BY <2>2, <2>3, <2>5, PacketInOrder
    <3> QED
      BY <2>1, <2>3, <2>5, <3>1 DEF InOrder
  <2> QED
    BY <2>1, <2>4, <2>5
<1> QED
  BY <1>1, <1>2, <1>3, <1>4, <1>5, Steps

-----------------------------------------------------------------------------
(* FilesKeptApart: what the texts before one come to.                      *)

LEMMA PieceType ==
  ASSUME NEW t \in Texts
  PROVE  Piece(t) \in Seq(Halves)
BY HalfType, ShownType DEF Piece

LEMMA ContentNext ==
  ASSUME NEW texts \in Seq(Texts), NEW n \in Nat, n < Len(texts)
  PROVE  /\ ContentUpTo(texts, n) \in Seq(Halves)
         /\ ContentUpTo(texts, n + 1) = ContentUpTo(texts, n) \o Piece(texts[n + 1])
<1> DEFINE p == [i \in 1..n |-> Piece(texts[i])]
           q == [i \in 1..n + 1 |-> Piece(texts[i])]
           x == Piece(texts[n + 1])
<1>1. \A i \in 1..n + 1 : Piece(texts[i]) \in Seq(Halves)
  BY PieceType
<1>2. p \in Seq(Seq(Halves)) /\ Len(p) = n /\ \A i \in 1..n : p[i] = Piece(texts[i])
  BY <1>1
<1>3. q \in Seq(Seq(Halves)) /\ Len(q) = n + 1 /\ \A i \in 1..n + 1 : q[i] = Piece(texts[i])
  BY <1>1
<1>4. x \in Seq(Halves) /\ q[n + 1] = x
  BY <1>1, <1>3
<1>5. ContentUpTo(texts, n) = FlattenSeq(p) /\ ContentUpTo(texts, n + 1) = FlattenSeq(q)
  BY DEF ContentUpTo
<1> HIDE DEF p, q, x
<1>6. q = Append(p, x)
  <2> DEFINE u == Append(p, x)
  <2>1. /\ u \in Seq(Seq(Halves)) /\ Len(u) = n + 1 /\ u[n + 1] = x
        /\ \A i \in 1..n : u[i] = p[i]
    BY <1>2, <1>4
  <2> HIDE DEF u
  <2>2. ASSUME NEW i \in 1..Len(q) PROVE q[i] = u[i]
    <3>1. CASE i \in 1..n
      BY <1>2, <1>3, <2>1, <3>1
    <3>2. CASE i = n + 1
      BY <1>4, <2>1, <3>2
    <3> QED
      BY <1>3, <3>1, <3>2
  <2>3. q = u
    BY <1>3, <2>1, <2>2, SeqEqual
  <2> QED
    BY <2>3 DEF u
<1>7. FlattenSeq(p) \in Seq(Halves) /\ FlattenSeq(Append(p, x)) = FlattenSeq(p) \o x
  BY <1>2, <1>4, FlattenAppend
<1> QED
  BY <1>5, <1>6, <1>7 DEF x

LEMMA ContentEnds ==
  ASSUME NEW texts \in Seq(Texts)
  PROVE  /\ ContentUpTo(texts, 0) = <<>>
         /\ ContentUpTo(texts, Len(texts)) = Content(texts)
         /\ Content(texts) \in Seq(Halves)
<1>1. ContentUpTo(texts, 0) = <<>>
  <2>1. [i \in 1..0 |-> Piece(texts[i])] = <<>>
    OBVIOUS
  <2> QED
    BY <2>1, FlattenEmpty DEF ContentUpTo
<1>2. ContentUpTo(texts, Len(texts)) = Content(texts)
  <2>1. DOMAIN texts = 1..Len(texts)
    OBVIOUS
  <2> QED
    BY <2>1 DEF ContentUpTo, Content, Piece
<1>3. Content(texts) \in Seq(Halves)
  <2> DEFINE p == [i \in 1..Len(texts) |-> Piece(texts[i])]
  <2>1. p \in Seq(Seq(Halves))
    BY PieceType
  <2>2. <<>> \in Seq(Halves) /\ ContentUpTo(texts, Len(texts)) = FlattenSeq(p)
    BY DEF ContentUpTo
  <2> HIDE DEF p
  <2>3. FlattenSeq(p) \in Seq(Halves)
    BY <2>1, <2>2, FlattenAppend
  <2> QED
    BY <1>2, <2>2, <2>3
<1> QED
  BY <1>1, <1>2, <1>3

(* The content of the first texts is a prefix of the content of all.       *)
LEMMA ContentPrefix ==
  ASSUME NEW texts \in Seq(Texts), NEW n \in 0..Len(texts)
  PROVE  IsPrefix(ContentUpTo(texts, n), Content(texts))
<1> DEFINE Longer(k) ==
             \E rest \in Seq(Halves) : ContentUpTo(texts, k) = ContentUpTo(texts, n) \o rest
           T == {k \in n..Len(texts) : ~Longer(k)}
<1>0. n \in Nat /\ Len(texts) \in Nat /\ n <= Len(texts)
  OBVIOUS
<1>1. ContentUpTo(texts, n) \in Seq(Halves)
  BY <1>0, ContentNext, ContentEnds
<1> HIDE DEF Longer
<1>2. T = {}
  <2>1. SUFFICES ASSUME T # {} PROVE FALSE
    OBVIOUS
  <2>2. T \subseteq Nat
    BY <1>0
  <2>3. PICK k \in T : \A l \in T : k <= l
    BY <2>1, <2>2, LeastNat
  <2>4. k \in n..Len(texts) /\ ~Longer(k) /\ k \in Nat
    BY <1>0, <2>3
  <2>5. k # n
    <3>1. ContentUpTo(texts, n) = ContentUpTo(texts, n) \o <<>> /\ <<>> \in Seq(Halves)
      BY <1>1
    <3> QED
      BY <2>4, <3>1 DEF Longer
  <2>6. k - 1 \in n..Len(texts) /\ k - 1 \in Nat /\ k - 1 < Len(texts) /\ ~(k <= k - 1)
    BY <1>0, <2>4, <2>5
  <2>7. Longer(k - 1)
    BY <2>3, <2>6
  <2>8. PICK rest \in Seq(Halves) : ContentUpTo(texts, k - 1) = ContentUpTo(texts, n) \o rest
    BY <2>7 DEF Longer
  <2>9. ContentUpTo(texts, (k - 1) + 1) = ContentUpTo(texts, k - 1) \o Piece(texts[(k - 1) + 1])
    BY <2>6, ContentNext
  <2>10. texts[k] \in Texts /\ (k - 1) + 1 = k
    <3>1. k \in 1..Len(texts) /\ (k - 1) + 1 = k
      BY <1>0, <2>4, <2>6
    <3> QED
      BY <3>1
  <2>11. Piece(texts[k]) \in Seq(Halves)
    BY <2>10, PieceType
  <2>12. ContentUpTo(texts, k) = (ContentUpTo(texts, n) \o rest) \o Piece(texts[k])
    BY <2>8, <2>9, <2>10
  <2>13. ContentUpTo(texts, k) = ContentUpTo(texts, n) \o (rest \o Piece(texts[k]))
    <3> DEFINE a == ContentUpTo(texts, n)
               p == Piece(texts[k])
    <3>1. a \in Seq(Halves) /\ p \in Seq(Halves)
      BY <1>1, <2>11
    <3> HIDE DEF a, p
    <3>2. (a \o rest) \o p = a \o (rest \o p)
      BY <3>1, ConcatAssociative
    <3> QED
      BY <2>12, <3>2 DEF a, p
  <2>14. rest \o Piece(texts[k]) \in Seq(Halves)
    BY <2>11
  <2> QED
    BY <2>4, <2>13, <2>14 DEF Longer
<1>3. Longer(Len(texts))
  BY <1>0, <1>2
<1> HIDE DEF T
<1> DEFINE s == ContentUpTo(texts, n)
           t == Content(texts)
<1>4. PICK rest \in Seq(Halves) : t = s \o rest
  BY <1>3, ContentEnds DEF Longer
<1>5. s \in Seq(Halves)
  BY <1>1
<1> HIDE DEF s, t
<1>6. /\ Len(s) \in Nat /\ Len(t) = Len(s) + Len(rest) /\ Len(rest) \in Nat /\ t \in Seq(Halves)
      /\ \A i \in 1..Len(s) : t[i] = s[i]
  BY <1>4, <1>5, ConcatProperties
<1>7. Len(s) <= Len(t)
  BY <1>6
<1>8. SubSeq(s, 1, Len(s)) = SubSeq(t, 1, Len(s))
  <2> DEFINE u == SubSeq(s, 1, Len(s))
             v == SubSeq(t, 1, Len(s))
  <2>1. u \in Seq(Halves) /\ Len(u) = Len(s) /\ \A i \in 1..Len(s) : u[i] = s[i]
    BY <1>5
  <2>2. v \in Seq(Halves) /\ Len(v) = Len(s) /\ \A i \in 1..Len(s) : v[i] = t[i]
    BY <1>6
  <2> HIDE DEF u, v
  <2>3. u = v
    BY <1>6, <2>1, <2>2, SeqEqual
  <2> QED
    BY <2>3 DEF u, v
<1>9. IsPrefix(s, t)
  BY <1>7, <1>8 DEF IsPrefix
<1> QED
  BY <1>9 DEF s, t

-----------------------------------------------------------------------------
(* FilesKeptApart: the steps.                                              *)

(* What is broken, closed or dead stays so.                                *)
LEMMA ConnectedBefore ==
  ASSUME TypeInv, [Next]_vars, Connected'
  PROVE  Connected
<1>0. /\ link \in {"up", "reset"} /\ process \in {"running", "terminated"}
      /\ c_at \in {"flag", "file", "read", "done", "exited", "threw"}
  BY DEF TypeInv, TypeOK
<1>1. link' = "up" /\ process' = "running" /\ c_at' \in {"flag", "file", "read"}
  BY DEF Connected, ClientOpen
<1> SUFFICES link = "up" /\ process = "running" /\ c_at \in {"flag", "file", "read"}
  BY DEF Connected, ClientOpen
<1>2. CASE SendFlag
  BY <1>0, <1>1, <1>2, SendFlagDef DEF ClientSteps, serverVars
<1>3. CASE SendFile
  BY <1>0, <1>1, <1>3, SendFileDef DEF ClientSteps, serverVars
<1>4. CASE ClientMoves
  BY <1>0, <1>1, <1>4, ClientMovesDef DEF ClientSteps, serverVars
<1>5. CASE Receive
  BY <1>1, <1>5 DEF Receive, serverVars
<1>6. CASE ReadFlag
  BY <1>0, <1>1, <1>6, ReadFlagDef DEF ServerSteps
<1>7. CASE NoFlag
  BY <1>1, <1>7, NoFlagDef
<1>8. CASE ReadFile
  BY <1>1, <1>8, ReadFileDef DEF ServerSteps
<1>9. CASE Start
  BY <1>1, <1>9, StartDef DEF ServerSteps
<1>10. CASE SendOut \/ SendErr \/ SendSentinel
  <2>1. PICK bytes : Sending(bytes) \/ Breakdown
    BY <1>10, SendTextDef, SendSentinelDef DEF SendOut, SendErr
  <2>2. ServerSteps
    BY <1>10, SendTextDef, SendSentinelDef DEF SendOut, SendErr
  <2> QED
    BY <1>1, <2>1, <2>2 DEF Sending, Breakdown, ServerSteps
<1>11. CASE Close
  BY <1>0, <1>1, <1>11, CloseDef DEF ServerSteps
<1>12. CASE Break
  BY <1>1, <1>12, BreakDef
<1>13. CASE UNCHANGED vars
  BY <1>1, <1>13 DEF vars, serverVars, clientVars
<1>14. CASE EndOfFile
  BY <1>1, <1>14, EndOfFileDef DEF ServerSteps
<1> QED
  BY <1>2, <1>3, <1>4, <1>5, <1>6, <1>7, <1>8, <1>9, <1>10, <1>11, <1>12, <1>13, <1>14, Steps

(* What one whole packet does to the files.                                *)
LEMMA PacketReceived ==
  ASSUME TypeInv, Receive, net.whole, Carried(reply),
         NEW k \in 1..Len(Sent(reply)),
         down[1] = Half(Sent(reply)[k], "front"), down[2] = Half(Sent(reply)[k], "back")
  PROVE  /\ Len(down) >= 2 /\ down' = SubSeq(down, 3, Len(down))
         /\ k = Outs(reply) + 1 => curr' = "err" /\ files' = files
         /\ k # Outs(reply) + 1 =>
              curr' = curr /\ files' = [files EXCEPT ![curr] = @ \o Piece(Sent(reply)[k])]
<1> DEFINE t == Sent(reply)[k]
<1>1. reply # NotYet /\ ReplyType(reply)
  BY ReceiveTypes DEF TypeInv
<1>2. /\ 2 <= Len(down) /\ down' = SubSeq(down, 2 + 1, Len(down))
      /\ \/ TRUE \in FourthIsBang(down[2]) /\ curr' = "err" /\ files' = files
         \/ /\ FALSE \in FourthIsBang(down[2])
            /\ curr' = curr
            /\ \E text \in Printed(SubSeq(down, 1, 2)) :
                 files' = [files EXCEPT ![curr] = @ \o text]
  BY ReceiveDef
<1>3. down \in Seq(Halves) /\ 2 \in 1..Len(down) /\ Len(down) \in Nat
  <2>1. down \in Seq(Halves)
    BY DEF TypeInv, TypeOK
  <2> QED
    BY <1>2, <2>1
<1>4. down' = SubSeq(down, 3, Len(down))
  BY <1>2
<1>5. t \in Texts \cup {Sentinel}
  BY <1>1, SentType
<1>6. /\ down[1] \in Halves /\ down[1].text = t /\ down[1].part = "front"
      /\ down[2] \in Halves /\ down[2].text = t /\ down[2].part = "back"
  BY <1>5, HalfType
<1>7. /\ SubSeq(down, 1, 2) \in Seq(Halves) /\ Len(SubSeq(down, 1, 2)) = 2
      /\ SubSeq(down, 1, 2)[1] = down[1] /\ SubSeq(down, 1, 2)[2] = down[2]
  BY <1>3, TakeDrop
<1>8. CASE k = Outs(reply) + 1
  <2>1. t = Sentinel
    BY <1>1, <1>8, SentType
  <2>2. FourthIsBang(down[2]) = {TRUE}
    BY <1>6, <2>1 DEF FourthIsBang
  <2> HIDE DEF t
  <2>3. curr' = "err" /\ files' = files
    BY <1>2, <2>2
  <2> QED
    BY <1>2, <1>3, <1>4, <1>8, <2>3
<1>9. CASE k # Outs(reply) + 1
  <2>1. t \in Texts /\ t \notin HugeTexts /\ t \notin BangAt260
    <3>1. /\ Outs(reply) \in Nat /\ Errs(reply) \in Nat
          /\ Len(Sent(reply)) = Outs(reply) + 1 + Errs(reply)
      BY <1>1, SentType
    <3>2. CASE k \in 1..Outs(reply)
      <4>1. t = reply.out[k] /\ reply.out \in Seq(Texts \ (HugeTexts \cup BangAt260))
        BY <1>1, <3>2, SentType DEF ReplyType
      <4>2. k \in 1..Len(reply.out)
        BY <3>2 DEF Outs
      <4>3. t \in Texts \ (HugeTexts \cup BangAt260)
        BY <4>1, <4>2
      <4> QED
        BY <4>3, WireAssumption
    <3>3. CASE k \notin 1..Outs(reply)
      <4> DEFINE i == k - Outs(reply) - 1
      <4>1. i \in 1..Errs(reply) /\ k = Outs(reply) + 1 + i
        BY <1>9, <3>1, <3>3
      <4> HIDE DEF i
      <4>2. t = reply.err[i] /\ reply.err \in Seq(Texts)
        BY <1>1, <4>1, SentType DEF ReplyType
      <4>3. i \in 1..Len(reply.err) /\ DOMAIN reply.err = 1..Len(reply.err)
        BY <4>1, <4>2 DEF Errs
      <4> QED
        BY <4>2, <4>3 DEF Carried
    <3> QED
      BY <3>2, <3>3
  <2>2. t # Sentinel
    BY <2>1, WireAssumption
  <2>3. FourthIsBang(down[2]) = {FALSE}
    <3>1. FourthIsBang(down[2]) = {(t \in BangAt260)}
      BY <1>6, <2>2 DEF FourthIsBang
    <3>2. (t \in BangAt260) = FALSE
      BY <2>1
    <3> QED
      BY <3>1, <3>2
  <2> HIDE DEF t
  <2>4. PICK text \in Printed(SubSeq(down, 1, 2)) : files' = [files EXCEPT ![curr] = @ \o text]
    BY <1>2, <2>3
  <2>5. text = Piece(t)
    <3>1. Piece(t) = Shown(down[1]) \o Shown(down[2])
      BY DEF Piece, t
    <3>2. ~Full(down[2])
      BY <1>6, <2>1 DEF Full
    <3>3. CASE Full(down[1])
      BY <1>7, <3>1, <3>2, <3>3 DEF Printed
    <3>4. CASE ~Full(down[1])
      <4>1. ~Long(t)
        BY <1>6, <3>4 DEF Full
      <4>2. Shown(down[2]) = <<>>
        BY <1>6, <4>1 DEF Shown, HasText
      <4>3. Shown(down[1]) \in Seq(Halves)
        BY <1>6, ShownType
      <4>4. Piece(t) = Shown(down[1])
        BY <3>1, <4>2, <4>3
      <4>5. text = Shown(down[1])
        BY <1>7, <2>4, <3>4 DEF Printed
      <4> QED
        BY <4>4, <4>5
    <3> QED
      BY <3>3, <3>4
  <2>6. curr' = curr
    BY <1>2, <2>3
  <2> QED
    BY <1>2, <1>3, <1>4, <1>9, <2>4, <2>5, <2>6 DEF t
<1> QED
  BY <1>8, <1>9

LEMMA FiledNext ==
  ASSUME TypeInv, reply # NotYet, reply' = reply,
         NEW r \in Nat, r < Len(Sent(reply)), Filed(r),
         r = Outs(reply) => curr' = "err" /\ files' = files,
         r # Outs(reply) =>
           curr' = curr /\ files' = [files EXCEPT ![curr] = @ \o Piece(Sent(reply)[r + 1])]
  PROVE  Filed(r + 1)'
<1>1. /\ ReplyType(reply) /\ Outs(reply) \in Nat /\ Errs(reply) \in Nat
      /\ Len(Sent(reply)) = Outs(reply) + 1 + Errs(reply)
      /\ files \in [{"out", "err"} -> Seq(Halves)]
  BY SentType DEF TypeInv, TypeOK
<1>2. /\ reply.out \in Seq(Texts) /\ reply.err \in Seq(Texts)
      /\ Len(reply.out) = Outs(reply) /\ Len(reply.err) = Errs(reply)
  BY DEF TypeInv, TypeOK, Outs, Errs
<1>3. CASE r = Outs(reply)
  <2>1. curr = "out" /\ files.out = ContentUpTo(reply.out, r) /\ files.err = <<>>
    BY <1>1, <1>3 DEF Filed
  <2>2. ContentUpTo(reply.out, r) = Content(reply.out) /\ ContentUpTo(reply.err, 0) = <<>>
    BY <1>2, <1>3, ContentEnds
  <2>3. r + 1 > Outs(reply) /\ (r + 1) - Outs(reply) - 1 = 0
    BY <1>1, <1>3
  <2>4. curr' = "err" /\ files' = files
    BY <1>3
  <2> QED
    BY <2>1, <2>2, <2>3, <2>4 DEF Filed
<1>4. CASE r < Outs(reply)
  <2>1. curr = "out" /\ files.out = ContentUpTo(reply.out, r) /\ files.err = <<>>
    BY <1>1, <1>4 DEF Filed
  <2>2. r # Outs(reply) /\ r + 1 \in 1..Outs(reply) /\ r + 1 <= Outs(reply)
    BY <1>1, <1>4
  <2>3. Sent(reply)[r + 1] = reply.out[r + 1]
    BY <1>1, <2>2, SentType
  <2>4. curr' = "out" /\ files' = [files EXCEPT !["out"] = @ \o Piece(reply.out[r + 1])]
    BY <2>1, <2>2, <2>3
  <2>5. files'.out = files.out \o Piece(reply.out[r + 1]) /\ files'.err = files.err
    BY <1>1, <2>4
  <2>6. ContentUpTo(reply.out, r + 1) = ContentUpTo(reply.out, r) \o Piece(reply.out[r + 1])
    BY <1>2, <1>4, ContentNext
  <2> QED
    BY <2>1, <2>2, <2>4, <2>5, <2>6 DEF Filed
<1>5. CASE r > Outs(reply)
  <2> DEFINE i == r - Outs(reply) - 1
  <2>1. /\ curr = "err" /\ files.out = Content(reply.out)
        /\ files.err = ContentUpTo(reply.err, i)
    BY <1>1, <1>5 DEF Filed
  <2>2. /\ i \in Nat /\ i < Errs(reply) /\ i + 1 \in 1..Errs(reply) /\ r # Outs(reply)
        /\ r + 1 = Outs(reply) + 1 + (i + 1) /\ (r + 1) - Outs(reply) - 1 = i + 1
        /\ r + 1 > Outs(reply)
    BY <1>1, <1>5
  <2> HIDE DEF i
  <2>3. Sent(reply)[r + 1] = reply.err[i + 1]
    <3>1. ReplyType(reply)
      BY <1>1
    <3>2. Sent(reply)[Outs(reply) + 1 + (i + 1)] = reply.err[i + 1]
      BY <2>2, <3>1, SentType
    <3> QED
      BY <2>2, <3>2
  <2>4. curr' = "err" /\ files' = [files EXCEPT !["err"] = @ \o Piece(reply.err[i + 1])]
    BY <2>1, <2>2, <2>3
  <2>5. files'.err = files.err \o Piece(reply.err[i + 1]) /\ files'.out = files.out
    BY <1>1, <2>4
  <2>6. ContentUpTo(reply.err, i + 1) = ContentUpTo(reply.err, i) \o Piece(reply.err[i + 1])
    BY <1>2, <2>2, ContentNext
  <2>7. files'.err = ContentUpTo(reply.err, (r + 1) - Outs(reply) - 1)
    BY <2>1, <2>2, <2>5, <2>6
  <2> QED
    BY <2>1, <2>2, <2>4, <2>5, <2>7 DEF Filed
<1> QED
  BY <1>1, <1>3, <1>4, <1>5

(* The packet behind those under way, and the first of them gone.          *)
LEMMA UnderWayMore ==
  ASSUME TypeInv, reply # NotYet, reply' = reply,
         NEW r \in Nat, NEW d \in Nat, r + d < Len(Sent(reply)), UnderWay(r, d),
         down' = down \o Packet(Sent(reply)[r + d + 1])
  PROVE  UnderWay(r, d + 1)'
<1> DEFINE t == Sent(reply)[r + d + 1]
<1>1. Sent(reply) \in Seq(Texts \cup {Sentinel}) /\ Len(Sent(reply)) \in Nat
  BY SentType DEF TypeInv
<1>2. r + d + 1 \in 1..Len(Sent(reply))
  BY <1>1
<1>3. t \in Texts \cup {Sentinel}
  BY <1>1, <1>2
<1>4. /\ Packet(t) \in Seq(Halves) /\ Len(Packet(t)) = 2
      /\ Packet(t)[1] = Half(t, "front") /\ Packet(t)[2] = Half(t, "back")
  BY <1>3, PacketType
<1>5. down \in Seq(Halves) /\ Len(down) = 2 * d
  BY DEF TypeInv, TypeOK, UnderWay
<1>6. down' = down \o Packet(t)
  OBVIOUS
<1> HIDE DEF t
<1>7. /\ Len(down') = Len(down) + 2
      /\ \A i \in 1..Len(down) : down'[i] = down[i]
      /\ down'[Len(down) + 1] = Half(t, "front") /\ down'[Len(down) + 2] = Half(t, "back")
  <2> DEFINE p == Packet(t)
  <2>1. Len(p) = 2 /\ 1 \in 1..Len(p) /\ 2 \in 1..Len(p)
    BY <1>4
  <2>0. p \in Seq(Halves) /\ down \in Seq(Halves)
    BY <1>4, <1>5
  <2> HIDE DEF p
  <2>2. /\ Len(down \o p) = Len(down) + Len(p)
        /\ \A i \in 1..Len(down) : (down \o p)[i] = down[i]
        /\ \A i \in 1..Len(p) : (down \o p)[Len(down) + i] = p[i]
    BY <2>0, ConcatParts
  <2>3. p[1] = Half(t, "front") /\ p[2] = Half(t, "back") /\ down' = down \o p
    BY <1>4, <1>6 DEF p
  <2> QED
    BY <2>1, <2>2, <2>3
<1>8. Len(down') = 2 * (d + 1)
  BY <1>5, <1>7
<1>9. ASSUME NEW m \in 1..d + 1
      PROVE  /\ down'[2 * m - 1] = Half(Sent(reply)[r + m], "front")
             /\ down'[2 * m] = Half(Sent(reply)[r + m], "back")
  <2>1. CASE m \in 1..d
    <3>1. 2 * m - 1 \in 1..Len(down) /\ 2 * m \in 1..Len(down)
      BY <1>5, <2>1
    <3>2. down'[2 * m - 1] = down[2 * m - 1] /\ down'[2 * m] = down[2 * m]
      BY <1>7, <3>1
    <3> QED
      BY <2>1, <3>2 DEF UnderWay
  <2>2. CASE m = d + 1
    <3>1. 2 * m - 1 = Len(down) + 1 /\ 2 * m = Len(down) + 2 /\ r + m = r + d + 1
      BY <1>5, <2>2
    <3>2. t = Sent(reply)[r + m]
      BY <3>1 DEF t
    <3> QED
      BY <1>7, <3>1, <3>2
  <2>3. m \in 1..d \/ m = d + 1
    OBVIOUS
  <2> QED
    BY <2>1, <2>2, <2>3
<1> QED
  BY <1>8, <1>9 DEF UnderWay

LEMMA UnderWayLess ==
  ASSUME TypeInv, reply' = reply,
         NEW r \in Nat, NEW d \in Nat, d >= 1, UnderWay(r, d),
         down' = SubSeq(down, 3, Len(down))
  PROVE  UnderWay(r + 1, d - 1)'
<1>1. down \in Seq(Halves) /\ Len(down) = 2 * d /\ Len(down) \in Nat
  BY DEF TypeInv, TypeOK, UnderWay
<1>2. 2 \in 1..Len(down) /\ down' = SubSeq(down, 2 + 1, Len(down))
  BY <1>1
<1>3. /\ Len(down') = Len(down) - 2
      /\ \A i \in 1..Len(down) - 2 : down'[i] = down[2 + i]
  BY <1>1, <1>2, TakeDrop
<1>4. Len(down') = 2 * (d - 1)
  BY <1>1, <1>3
<1>5. ASSUME NEW m \in 1..d - 1
      PROVE  /\ down'[2 * m - 1] = Half(Sent(reply)[(r + 1) + m], "front")
             /\ down'[2 * m] = Half(Sent(reply)[(r + 1) + m], "back")
  <2>1. 2 * m - 1 \in 1..Len(down) - 2 /\ 2 * m \in 1..Len(down) - 2
    BY <1>1
  <2>2. down'[2 * m - 1] = down[2 + (2 * m - 1)] /\ down'[2 * m] = down[2 + 2 * m]
    BY <1>3, <2>1
  <2>3. m + 1 \in 1..d /\ 2 + (2 * m - 1) = 2 * (m + 1) - 1 /\ 2 + 2 * m = 2 * (m + 1)
        /\ r + (m + 1) = (r + 1) + m
    OBVIOUS
  <2>4. /\ down[2 * (m + 1) - 1] = Half(Sent(reply)[r + (m + 1)], "front")
        /\ down[2 * (m + 1)] = Half(Sent(reply)[r + (m + 1)], "back")
    BY <2>3 DEF UnderWay
  <2> QED
    BY <2>2, <2>3, <2>4
<1> QED
  BY <1>4, <1>5 DEF UnderWay

LEMMA NextAlive ==
  ASSUME Alive, [Next]_vars
  PROVE  Alive'
<1> SUFFICES ASSUME s_at' # "gone"
             PROVE  s_at # "gone" /\ process' = process
  BY DEF Alive
<1>1. CASE SendFlag \/ SendFile \/ ClientMoves \/ Receive \/ Break \/ UNCHANGED vars
  BY <1>1, SendFlagDef, SendFileDef, ClientMovesDef, BreakDef
     DEF ClientSteps, Receive, serverVars, vars
<1>2. CASE ReadFlag \/ NoFlag \/ ReadFile \/ EndOfFile \/ Start \/ Close
  BY <1>2, ReadFlagDef, NoFlagDef, ReadFileDef, EndOfFileDef, StartDef, CloseDef
<1>3. CASE SendOut \/ SendErr \/ SendSentinel
  <2>1. s_at \in {"out", "err"} /\ \E bytes : Sending(bytes) \/ Breakdown
    BY <1>3, SendTextDef, SendSentinelDef DEF SendOut, SendErr
  <2> QED
    BY <2>1 DEF Sending, Breakdown
<1> QED
  BY <1>1, <1>2, <1>3, Steps

LEMMA InitInPackets == Init => InPackets /\ Alive
BY DEF Init, InPackets, Alive

(* The packets under way and the texts filed, in this state.               *)
LEMMA InPacketsNow ==
  ASSUME TypeInv, InPackets, net.whole, reply # NotYet, Carried(reply)
  PROVE  \E r, d \in Nat :
           /\ r + d <= Len(Sent(reply)) /\ r <= Len(Sent(reply))
           /\ UnderWay(r, d) /\ Filed(r)
           /\ Connected => r + d = NextText - 1
<1>1. Len(Sent(reply)) \in Nat
  BY SentType DEF TypeInv
<1> QED
  BY <1>1 DEF InPackets

(* InPackets holds if there are such numbers.                              *)
LEMMA InPacketsThen ==
  ASSUME TypeInv, reply # NotYet, reply' = reply,
         NEW r \in Nat, NEW d \in Nat, r + d <= Len(Sent(reply)),
         UnderWay(r, d)', Filed(r)', Connected' => r + d = NextText' - 1
  PROVE  InPackets'
<1>1. Len(Sent(reply)) \in Nat
  BY SentType DEF TypeInv
<1>2. r \in 0..Len(Sent(reply)) /\ d \in 0..Len(Sent(reply))
  BY <1>1
<1>3. r \in 0..Len(Sent(reply')) /\ d \in 0..Len(Sent(reply')) /\ r + d <= Len(Sent(reply'))
  BY <1>2
<1> QED
  BY <1>3 DEF InPackets

LEMMA ReceiveInPackets ==
  ASSUME TypeInv, InPackets, Receive
  PROVE  InPackets'
<1>1. /\ reply # NotYet /\ UNCHANGED <<net, reply, NextText, Connected>>
  BY ReceiveTypes DEF Receive, serverVars, NextText, Connected, ClientOpen
<1> SUFFICES ASSUME net.whole, Carried(reply) PROVE InPackets'
  BY <1>1 DEF InPackets
<1>2. PICK r, d \in Nat :
        /\ r + d <= Len(Sent(reply)) /\ r <= Len(Sent(reply))
        /\ UnderWay(r, d) /\ Filed(r)
        /\ Connected => r + d = NextText - 1
  BY <1>1, InPacketsNow
<1>3. Len(down) >= 2
  BY ReceiveDef
<1>4. d >= 1
  BY <1>2, <1>3 DEF UnderWay
<1>5. Len(Sent(reply)) \in Nat
  BY <1>1, SentType DEF TypeInv
<1>6. r + 1 \in 1..Len(Sent(reply)) /\ r < Len(Sent(reply))
  BY <1>2, <1>4, <1>5
<1>7. down[1] = Half(Sent(reply)[r + 1], "front") /\ down[2] = Half(Sent(reply)[r + 1], "back")
  <2>1. 1 \in 1..d /\ 2 * 1 - 1 = 1 /\ 2 * 1 = 2
    BY <1>4
  <2>2. /\ down[2 * 1 - 1] = Half(Sent(reply)[r + 1], "front")
        /\ down[2 * 1] = Half(Sent(reply)[r + 1], "back")
    BY <1>2, <2>1 DEF UnderWay
  <2> QED
    BY <2>1, <2>2
<1>8. /\ down' = SubSeq(down, 3, Len(down))
      /\ r + 1 = Outs(reply) + 1 => curr' = "err" /\ files' = files
      /\ r + 1 # Outs(reply) + 1 =>
           /\ curr' = curr
           /\ files' = [files EXCEPT ![curr] = @ \o Piece(Sent(reply)[r + 1])]
  BY <1>6, <1>7, PacketReceived
<1>9. UnderWay(r + 1, d - 1)'
  BY <1>1, <1>2, <1>4, <1>8, UnderWayLess
<1>10. Filed(r + 1)'
  <2>1. Outs(reply) \in Nat
    BY <1>1, SentType DEF TypeInv
  <2>2. (r = Outs(reply)) <=> (r + 1 = Outs(reply) + 1)
    BY <2>1
  <2> QED
    BY <1>1, <1>2, <1>6, <1>8, <2>2, FiledNext
<1>11. /\ r + 1 \in Nat /\ d - 1 \in Nat /\ (r + 1) + (d - 1) = r + d
  BY <1>4
<1>12. (r + 1) + (d - 1) <= Len(Sent(reply)) /\ (Connected' => (r + 1) + (d - 1) = NextText' - 1)
  BY <1>1, <1>2, <1>11
<1> QED
  BY <1>1, <1>9, <1>10, <1>11, <1>12, InPacketsThen

LEMMA NextInPackets ==
  ASSUME TypeInv, Alive, InPackets, [Next]_vars
  PROVE  InPackets'
<1>1. CASE SendFlag \/ SendFile \/ ClientMoves \/ Break \/ UNCHANGED vars
  <2>1. UNCHANGED <<net, reply, files, curr, down, s_at, index>>
    BY <1>1, SendFlagDef, SendFileDef, ClientMovesDef, BreakDef
       DEF ClientSteps, ServerSteps, serverVars, vars, clientVars
  <2>2. NextText' = NextText
    BY <2>1 DEF NextText
  <2> SUFFICES ASSUME net.whole, reply # NotYet, Carried(reply) PROVE InPackets'
    BY <2>1 DEF InPackets
  <2>3. PICK r, d \in Nat :
          /\ r + d <= Len(Sent(reply)) /\ r <= Len(Sent(reply))
          /\ UnderWay(r, d) /\ Filed(r)
          /\ Connected => r + d = NextText - 1
    BY InPacketsNow
  <2>4. UnderWay(r, d)' /\ Filed(r)'
    BY <2>1, <2>3 DEF UnderWay, Filed
  <2> QED
    BY <2>1, <2>2, <2>3, <2>4, ConnectedBefore, InPacketsThen
<1>2. CASE Receive
  BY <1>2, ReceiveInPackets
<1>3. CASE ReadFlag \/ NoFlag \/ ReadFile \/ EndOfFile
  <2>1. reply' = reply /\ s_at \in {"flag", "file"}
    BY <1>3, ReadFlagDef, NoFlagDef, ReadFileDef, EndOfFileDef
  <2> QED
    BY <2>1 DEF TypeInv, InPackets
<1>4. CASE Start
  <2>1. /\ s_at \in {"file", "run"} /\ s_at' = "out"
        /\ UNCHANGED <<down, files, index, curr>>
    BY <1>4, StartDef DEF ServerSteps
  <2>2. /\ down' = <<>> /\ files'.out = <<>> /\ files'.err = <<>> /\ curr' = "out"
        /\ index' = 1 /\ reply'.out \in Seq(Texts) /\ ReplyType(reply')
    BY <1>4, <2>1, NewReply DEF TypeInv
  <2>3. NextText' = 1
    BY <2>1, <2>2 DEF NextText
  <2>4. ContentUpTo(reply'.out, 0) = <<>>
    BY <2>2, ContentEnds
  <2>5. 0 <= Outs(reply') /\ 0 \in 0..Len(Sent(reply'))
    <3>1. Outs(reply') \in Nat /\ Len(Sent(reply')) \in Nat
      BY <2>2, SentType
    <3> QED
      BY <3>1
  <2>6. Filed(0)'
    BY <2>2, <2>4, <2>5 DEF Filed
  <2>7. UnderWay(0, 0)'
    BY <2>2 DEF UnderWay
  <2>8. 0 + 0 <= Len(Sent(reply')) /\ 0 + 0 = NextText' - 1
    BY <2>3, <2>5
  <2> QED
    BY <2>5, <2>6, <2>7, <2>8 DEF InPackets
<1>5. CASE SendOut \/ SendSentinel \/ SendErr \/ Close
  <2>1. /\ reply # NotYet /\ ServerSteps /\ reply' = reply /\ NextText' \in Nat
        /\ \/ /\ NextText \in 1..Len(Sent(reply)) /\ NextText' = NextText + 1
              /\ link = "up" /\ c_at \in {"flag", "file", "read"}
              /\ down' = down \o Packet(Sent(reply)[NextText])
           \/ /\ UNCHANGED down
              /\ link' = "reset" \/ process' = "terminated" \/ NextText' = NextText
    BY <1>5, LateSteps
  <2>2. UNCHANGED <<net, curr, files, reply>>
    BY <2>1 DEF ServerSteps
  <2> SUFFICES ASSUME net.whole, Carried(reply) PROVE InPackets'
    BY <2>2 DEF InPackets
  <2>3. PICK r, d \in Nat :
          /\ r + d <= Len(Sent(reply)) /\ r <= Len(Sent(reply))
          /\ UnderWay(r, d) /\ Filed(r)
          /\ Connected => r + d = NextText - 1
    BY <2>1, InPacketsNow
  <2>4. Filed(r)'
    BY <2>2, <2>3 DEF Filed
  <2>5. CASE /\ UNCHANGED down
             /\ link' = "reset" \/ process' = "terminated" \/ NextText' = NextText
    <3>1. UnderWay(r, d)'
      BY <2>2, <2>3, <2>5 DEF UnderWay
    <3>2. Connected' => r + d = NextText' - 1
      <4>1. SUFFICES ASSUME Connected' PROVE r + d = NextText' - 1
        OBVIOUS
      <4>2. link' = "up" /\ process' = "running" /\ Connected
        BY <4>1, ConnectedBefore DEF Connected
      <4> QED
        BY <2>3, <2>5, <4>2
    <3> QED
      BY <2>1, <2>3, <2>4, <3>1, <3>2, InPacketsThen
  <2>6. CASE /\ NextText \in 1..Len(Sent(reply)) /\ NextText' = NextText + 1
             /\ link = "up" /\ c_at \in {"flag", "file", "read"}
             /\ down' = down \o Packet(Sent(reply)[NextText])
    <3>1. s_at # "gone"
      <4>1. s_at = "gone" => NextText = Len(Sent(reply)) + 1
        BY DEF NextText
      <4>2. Len(Sent(reply)) \in Nat
        BY <2>1, SentType DEF TypeInv
      <4> QED
        BY <2>6, <4>1, <4>2
    <3>2. Connected
      BY <2>6, <3>1 DEF Connected, ClientOpen, Alive
    <3>3. Len(Sent(reply)) \in Nat /\ r + d + 1 = NextText /\ NextText \in Nat
      <4>1. Len(Sent(reply)) \in Nat
        BY <2>1, SentType DEF TypeInv
      <4>2. NextText \in Int
        BY <2>6, <4>1
      <4> QED
        BY <2>3, <2>6, <3>2, <4>1, <4>2
    <3>4. r + d < Len(Sent(reply))
      BY <2>6, <3>3
    <3>5. UnderWay(r, d + 1)'
      BY <2>1, <2>3, <2>6, <3>3, <3>4, UnderWayMore
    <3>6. d + 1 \in Nat /\ r + (d + 1) <= Len(Sent(reply)) /\ r + (d + 1) = NextText' - 1
      BY <2>6, <3>3, <3>4
    <3> QED
      BY <2>1, <2>4, <3>5, <3>6, InPacketsThen
  <2> QED
    BY <2>1, <2>5, <2>6
<1> QED
  BY <1>1, <1>2, <1>3, <1>4, <1>5, Steps

-----------------------------------------------------------------------------
(* A sound exchange.                                                       *)

LEMMA SoundBefore ==
  ASSUME TypeInv, [Next]_vars
  PROVE  /\ UNCHANGED <<net, asked, flag, size>>
         /\ reply # NotYet => reply' = reply
         /\ Sound' => Sound
<1>1. UNCHANGED <<net, asked, flag, size>>
  <2>1. CASE SendFlag \/ SendFile \/ ClientMoves \/ Receive \/ UNCHANGED vars
    BY <2>1, SendFlagDef, SendFileDef, ClientMovesDef DEF ClientSteps, Receive, vars
  <2>2. CASE ReadFlag \/ NoFlag \/ ReadFile \/ EndOfFile \/ Start \/ Break
    BY <2>2, ReadFlagDef, NoFlagDef, ReadFileDef, EndOfFileDef, StartDef, BreakDef DEF ServerSteps
  <2>3. CASE SendOut \/ SendSentinel \/ SendErr \/ Close
    BY <2>3, LateSteps DEF ServerSteps
  <2> QED
    BY <2>1, <2>2, <2>3, Steps
<1>2. reply # NotYet => reply' = reply
  <2>1. CASE SendFlag \/ SendFile \/ ClientMoves \/ Receive \/ Break \/ UNCHANGED vars
    BY <2>1, SendFlagDef, SendFileDef, ClientMovesDef, BreakDef
       DEF ClientSteps, Receive, serverVars, vars
  <2>2. CASE ReadFlag \/ NoFlag \/ ReadFile \/ EndOfFile
    BY <2>2, ReadFlagDef, NoFlagDef, ReadFileDef, EndOfFileDef
  <2>3. CASE Start
    BY <2>3, StartDef DEF TypeInv
  <2>4. CASE SendOut \/ SendSentinel \/ SendErr \/ Close
    BY <2>4, LateSteps
  <2> QED
    BY <2>1, <2>2, <2>3, <2>4, Steps
<1> QED
  BY <1>1, <1>2 DEF Sound

LEMMA InitProceeds == Init => Proceeds
BY DEF Init, Proceeds, Healthy

(* Nothing breaks, so neither end gives up.                                *)
LEMMA SoundClient ==
  ASSUME TypeInv, Healthy, Sound, SendFlag \/ SendFile \/ ClientMoves
  PROVE  Healthy'
<1>0. /\ sent \in 0..size /\ size \in Nat /\ up \in Seq(0..size) /\ TypeOK
  BY WireAssumption DEF TypeInv, TypeOK
<1>1. /\ link = "up" /\ net.faults = {} /\ size <= 2 /\ size <= MaxSize
  BY <1>0, WireAssumption DEF Healthy, Sound
<1>2. CASE SendFlag
  <2>1. /\ UNCHANGED <<net, asked, flag, size, down, s_at, process, s_flag, file, reply>>
        /\ c_at = "flag" /\ s_at = "flag" /\ up = <<>> /\ sent = 0
        /\ sent' = 0 /\ c_at' = "file" /\ link' = link /\ up' = up \o <<FlagByte>>
    BY <1>1, <1>2, SendFlagDef DEF Healthy, ClientSteps, serverVars
  <2>2. Len(up') = 1 /\ up'[1] = FlagByte
    BY <2>1
  <2>3. /\ Len(up') = sent' + 1 /\ \A i \in 1..sent' : up'[i + 1] = i
    BY <2>1, <2>2
  <2> QED
    BY <2>1, <2>2, <2>3 DEF Healthy
<1>3. CASE SendFile
  <2>1. /\ UNCHANGED <<net, asked, flag, size, down, s_at, process, s_flag, file, reply>>
        /\ c_at = "file" /\ sent < size
    BY <1>3, SendFileDef DEF ClientSteps, serverVars
  <2>2. s_at \in {"flag", "file"}
    BY <2>1, <1>0 DEF Healthy, TypeOK
  <2>3. /\ c_at' = "file" /\ sent' = sent + 1 /\ link' = link /\ up' = up \o <<sent + 1>>
    BY <1>1, <1>3, <2>1, <2>2, SendFileDef
  <2>4. sent + 1 \in 0..size
    BY <1>0, <2>1
  <2>5. /\ Len(up') = Len(up) + 1 /\ up'[Len(up) + 1] = sent + 1 /\ Len(up) \in Nat
        /\ \A i \in 1..Len(up) : up'[i] = up[i]
    <3>1. <<sent + 1>> \in Seq(0..size)
      BY <2>4
    <3>2. up' = Append(up, sent + 1)
      BY <1>0, <2>3, <2>4, ConcatAppend
    <3> QED
      BY <1>0, <2>4, <3>2
  <2>6. CASE s_at = "flag"
    <3>1. Len(up) = sent + 1 /\ up[1] = FlagByte /\ \A i \in 1..sent : up[i + 1] = i
      BY <2>1, <2>6 DEF Healthy
    <3>2. Len(up') = sent' + 1 /\ up'[1] = FlagByte
      <4>1. 1 \in 1..Len(up)
        BY <1>0, <3>1
      <4> QED
        BY <2>3, <2>5, <3>1, <4>1
    <3>3. ASSUME NEW i \in 1..sent + 1 PROVE up'[i + 1] = i
      <4>1. CASE i \in 1..sent
        <5>1. i + 1 \in 1..Len(up)
          BY <1>0, <3>1, <4>1
        <5> QED
          BY <2>5, <3>1, <4>1, <5>1
      <4>2. CASE i = sent + 1
        BY <2>5, <3>1, <4>2
      <4>3. i \in 1..sent \/ i = sent + 1
        BY <1>0
      <4> QED
        BY <4>1, <4>2, <4>3
    <3> QED
      BY <2>1, <2>3, <2>6, <3>2, <3>3 DEF Healthy
  <2>7. CASE s_at = "file"
    <3>1. /\ Len(file) + Len(up) = sent /\ Len(file) \in Nat
          /\ \A i \in 1..Len(file) : file[i] = i
          /\ \A i \in 1..Len(up) : up[i] = Len(file) + i
      BY <1>0, <2>7 DEF Healthy, TypeOK
    <3>2. Len(file) + Len(up') = sent'
      BY <2>3, <2>5, <3>1
    <3>3. ASSUME NEW i \in 1..Len(up') PROVE up'[i] = Len(file) + i
      <4>1. CASE i \in 1..Len(up)
        BY <2>5, <3>1, <4>1
      <4>2. CASE i = Len(up) + 1
        <5>1. sent + 1 = Len(file) + (Len(up) + 1)
          BY <2>5, <3>1
        <5> QED
          BY <2>5, <4>2, <5>1
      <4>3. i \in 1..Len(up) \/ i = Len(up) + 1
        BY <2>5
      <4> QED
        BY <4>1, <4>2, <4>3
    <3> QED
      BY <2>1, <2>3, <2>7, <3>1, <3>2, <3>3 DEF Healthy
  <2> QED
    BY <2>2, <2>6, <2>7
<1>4. CASE ClientMoves
  <2>1. /\ UNCHANGED <<net, asked, flag, size, down, s_at, process, s_flag, file, reply>>
        /\ UNCHANGED <<link, up, sent>>
    BY <1>4, ClientMovesDef DEF ClientSteps, serverVars
  <2>2. \/ c_at = "file" /\ c_at' = "read" /\ sent = size
        \/ c_at = "read" /\ c_at' = "done" /\ down = <<>> /\ s_at = "gone"
    <3>1. MaxSize \in Nat
      BY WireAssumption
    <3>2. ~(size > MaxSize)
      BY <1>0, <1>1, <3>1
    <3> QED
      BY <1>1, <1>4, <3>2, ClientMovesDef
  <2>3. CASE c_at = "file" /\ c_at' = "read" /\ sent = size
    BY <2>1, <2>3 DEF Healthy
  <2>4. CASE c_at = "read" /\ c_at' = "done" /\ down = <<>> /\ s_at = "gone"
    BY <2>1, <2>4 DEF Healthy
  <2> QED
    BY <2>2, <2>3, <2>4
<1> QED
  BY <1>2, <1>3, <1>4

LEMMA SoundFile ==
  ASSUME TypeInv, Healthy, Sound, ReadFlag \/ NoFlag \/ ReadFile \/ EndOfFile
  PROVE  Healthy'
<1>0. /\ sent \in 0..size /\ size \in Nat /\ up \in Seq(0..size) /\ file \in Seq(0..size)
      /\ TypeOK
  BY WireAssumption DEF TypeInv, TypeOK
<1>1. link = "up" /\ net.faults = {} /\ size <= 2 /\ flag # -1 /\ net.intact
  <2>1. asked \in {0, 1}
    BY <1>0 DEF TypeOK
  <2> QED
    BY <2>1 DEF Healthy, Sound
<1>2. CASE ReadFlag
  <2>1. /\ UNCHANGED <<net, asked, flag, size, c_at, sent, curr, files, down, file, reply, index>>
        /\ s_at = "flag" /\ up # <<>> /\ up' = Tail(up)
        /\ s_flag' = flag /\ s_at' = "file" /\ UNCHANGED <<process, link>>
    BY <1>1, <1>2, ReadFlagDef DEF ServerSteps, FlagsRead
  <2>2. c_at # "flag" /\ c_at # "done"
    BY <2>1 DEF Healthy
  <2>3. /\ Len(up) = sent + 1 /\ \A i \in 1..sent : up[i + 1] = i
        /\ file = <<>> /\ reply = NotYet
    BY <2>1, <2>2 DEF Healthy
  <2>4. /\ Len(up') = Len(up) - 1 /\ \A i \in 1..Len(up) - 1 : up'[i] = up[i + 1]
    BY <1>0, <2>1
  <2>5. Len(file) = 0 /\ Len(file) + Len(up') = sent
    BY <1>0, <2>3, <2>4
  <2>6. \A i \in 1..Len(up') : up'[i] = Len(file) + i
    BY <1>0, <2>3, <2>4, <2>5
  <2>7. c_at \in {"file", "read"} /\ (c_at = "read" => sent = size)
    BY <2>2 DEF Healthy
  <2>8. process = "running"
    BY DEF Healthy
  <2> QED
    BY <1>1, <2>1, <2>5, <2>6, <2>7, <2>8 DEF Healthy
<1>3. CASE NoFlag
  <2>1. s_at = "flag" /\ c_at \notin {"flag", "file", "read"}
    BY <1>1, <1>3, NoFlagDef
  <2> QED
    BY <2>1 DEF Healthy
<1>4. CASE ReadFile
  <2>1. /\ UNCHANGED <<net, asked, flag, size, c_at, sent, curr, files>>
        /\ UNCHANGED <<link, down, s_at, process, s_flag, reply, index>>
        /\ s_at = "file"
    BY <1>4, ReadFileDef DEF ServerSteps
  <2>2. PICK n \in 1..2 :
          /\ n <= Len(up) /\ up' = SubSeq(up, n + 1, Len(up))
          /\ \/ file' = file \o SubSeq(up, 1, n)
             \/ /\ n = 2 /\ SubSeq(up, 1, n)[2] # size
                /\ file' = file \o SubSeq(up, 1, n) \o <<GarbageCell>>
    BY <1>4, ReadFileDef
  <2>3. n \in 1..Len(up) /\ Len(up) \in Nat /\ Len(file) \in Nat
    BY <1>0, <2>2
  <2> DEFINE c == SubSeq(up, 1, n)
  <2>4. /\ c \in Seq(0..size) /\ Len(c) = n /\ \A i \in 1..n : c[i] = up[i]
        /\ Len(up') = Len(up) - n /\ \A i \in 1..Len(up) - n : up'[i] = up[n + i]
    <3> DEFINE left == SubSeq(up, n + 1, Len(up))
    <3>0. up \in Seq(0..size)
      BY <1>0
    <3>1. /\ c \in Seq(0..size) /\ Len(c) = n /\ \A i \in 1..n : c[i] = up[i]
          /\ Len(left) = Len(up) - n /\ \A i \in 1..Len(up) - n : left[i] = up[n + i]
      BY <2>3, <3>0, TakeDrop
    <3>2. up' = left
      BY <2>2
    <3> HIDE DEF c, left
    <3> QED
      BY <3>1, <3>2
  <2> HIDE DEF c
  <2>5. /\ Len(file) + Len(up) = sent
        /\ \A i \in 1..Len(file) : file[i] = i
        /\ \A i \in 1..Len(up) : up[i] = Len(file) + i
    BY <2>1 DEF Healthy
  <2>6. file' = file \o c
    <3>1. SUFFICES ASSUME n = 2, c[2] # size PROVE FALSE
      BY <2>2 DEF c
    <3>2. c[2] = Len(file) + 2
      <4>1. 2 \in 1..n /\ 2 \in 1..Len(up)
        BY <2>3, <3>1
      <4> QED
        BY <2>4, <2>5, <4>1
    <3>3. Len(file) = 0 /\ size = 2
      BY <1>0, <1>1, <2>3, <2>5, <3>1
    <3> QED
      BY <3>1, <3>2, <3>3
  <2>7. /\ Len(file') = Len(file) + Len(c)
        /\ \A i \in 1..Len(file) : file'[i] = file[i]
        /\ \A i \in 1..Len(c) : file'[Len(file) + i] = c[i]
    BY <1>0, <2>4, <2>6, ConcatParts
  <2>8. Len(file') = Len(file) + n /\ Len(file') + Len(up') = sent
    BY <2>3, <2>4, <2>5, <2>7
  <2>9. ASSUME NEW i \in 1..Len(file') PROVE file'[i] = i
    <3>1. CASE i \in 1..Len(file)
      BY <2>5, <2>7, <3>1
    <3>2. CASE i \notin 1..Len(file)
      <4> DEFINE k == i - Len(file)
      <4>1. k \in 1..n /\ i = Len(file) + k /\ k \in 1..Len(up)
        BY <2>3, <2>8, <3>2
      <4> HIDE DEF k
      <4>2. file'[i] = c[k] /\ c[k] = up[k]
        BY <2>4, <2>7, <4>1
      <4> QED
        BY <2>5, <4>1, <4>2
    <3> QED
      BY <3>1, <3>2
  <2>10. ASSUME NEW i \in 1..Len(up') PROVE up'[i] = Len(file') + i
    <3>1. i \in 1..Len(up) - n /\ n + i \in 1..Len(up)
      BY <2>3, <2>4
    <3>2. up'[i] = up[n + i] /\ up[n + i] = Len(file) + (n + i)
      BY <2>4, <2>5, <3>1
    <3> QED
      BY <2>3, <2>8, <3>2
  <2> QED
    BY <2>1, <2>8, <2>9, <2>10 DEF Healthy
<1>5. CASE EndOfFile   \* nothing for a second: the whole file has been read
  <2>1. /\ UNCHANGED <<net, asked, flag, size, c_at, sent, curr, files>>
        /\ UNCHANGED <<link, up, down, process, s_flag, file, reply, index>>
        /\ s_at = "file" /\ s_at' = "run" /\ up = <<>> /\ c_at # "file"
    BY <1>1, <1>5, EndOfFileDef DEF ServerSteps
  <2>2. c_at = "read" /\ sent = size /\ process = "running" /\ s_flag = flag
    BY <2>1 DEF Healthy
  <2>3. Len(file) + Len(up) = sent /\ \A i \in 1..Len(file) : file[i] = i
    BY <2>1 DEF Healthy
  <2>4. Len(file) = size
    BY <1>0, <2>1, <2>2, <2>3
  <2>5. file = Whole(size)
    BY <1>0, <2>3, <2>4 DEF Whole
  <2> QED
    BY <1>1, <2>1, <2>2, <2>5 DEF Healthy
<1> QED
  BY <1>2, <1>3, <1>4, <1>5

(* What is run is the whole file.                                          *)
LEMMA SoundStart ==
  ASSUME TypeInv, Healthy, Sound, Start
  PROVE  /\ Healthy' /\ s_at = "run" /\ reply = NotYet /\ reply' \in Replies
         /\ s_flag = asked /\ file = Whole(size) /\ c_at = "read"
<1>1. link = "up" /\ flag = asked
  BY DEF Healthy, Sound
<1>2. /\ UNCHANGED <<net, asked, flag, size, c_at, sent, curr, files>>
      /\ UNCHANGED <<link, up, down, process, s_flag, file, index>>
      /\ s_at = "run" /\ s_at' = "out" /\ reply' \in Replies
  BY <1>1, StartDef DEF ServerSteps
<1>3. /\ up = <<>> /\ c_at = "read" /\ file = Whole(size) /\ sent = size
      /\ process = "running" /\ s_flag = flag
  BY <1>2 DEF Healthy
<1>4. reply' # NotYet
  BY NewReply
<1>5. reply = NotYet
  BY <1>2 DEF TypeInv
<1> QED
  BY <1>1, <1>2, <1>3, <1>4, <1>5 DEF Healthy

LEMMA SoundLate ==
  ASSUME TypeInv, Healthy, Sound, SendOut \/ SendSentinel \/ SendErr \/ Close
  PROVE  Healthy'
<1>0. /\ reply # NotYet /\ ReplyType(reply) /\ UNCHANGED <<file, reply>> /\ ServerSteps
      /\ Carried(reply) /\ TypeOK /\ up' = up
  BY LateSteps DEF TypeInv, Sound
<1>1. link = "up" /\ process = "running"
  BY DEF Healthy
<1>2. s_at \in {"out", "err"}
  <2>1. SendOut => s_at = "out"
    BY DEF SendOut
  <2>2. SendErr => s_at = "err"
    BY DEF SendErr
  <2> QED
    BY <2>1, <2>2, SendSentinelDef, CloseDef
<1>3. up = <<>> /\ c_at = "read" /\ file = Whole(size) /\ sent = size /\ s_flag = flag
  BY <1>2 DEF Healthy
<1>4. /\ s_at' \in {"out", "err", "gone"} /\ link' = "up" /\ process' = "running"
      /\ s_flag' = s_flag
  <2>1. CASE SendOut
    <3>1. SendText(reply.out) /\ s_at = "out"
      BY <2>1 DEF SendOut
    <3>2. index \in DOMAIN reply.out /\ reply.out \in Seq(Texts \ (HugeTexts \cup BangAt260))
      <4>1. index <= Len(reply.out) /\ index \in 1..Len(reply.out) + 1
        BY <1>0, <3>1, SendTextDef DEF TypeOK
      <4>2. reply.out \in Seq(Texts \ (HugeTexts \cup BangAt260))
        BY <1>0 DEF ReplyType
      <4> QED
        BY <4>1, <4>2
    <3>3. reply.out[index] \notin HugeTexts
      BY <3>2, WireAssumption
    <3>4. ~(link = "reset" \/ reply.out[index] \in HugeTexts)
      BY <1>1, <3>3
    <3>5. Sending(Packet(reply.out[index])) /\ UNCHANGED <<s_at, s_flag>>
      BY <3>1, <3>4, SendTextDef
    <3> QED
      BY <1>1, <1>3, <3>1, <3>5 DEF Sending
  <2>2. CASE SendErr
    <3>1. SendText(reply.err) /\ s_at = "err"
      BY <2>2 DEF SendErr
    <3>2. index \in DOMAIN reply.err
      <4>1. index <= Len(reply.err) /\ index \in 1..Len(reply.err) + 1
        BY <1>0, <3>1, SendTextDef DEF TypeOK
      <4>2. reply.err \in Seq(Texts)
        BY <1>0 DEF ReplyType
      <4> QED
        BY <4>1, <4>2
    <3>3. reply.err[index] \notin HugeTexts
      BY <1>0, <3>2 DEF Carried
    <3>4. ~(link = "reset" \/ reply.err[index] \in HugeTexts)
      BY <1>1, <3>3
    <3>5. Sending(Packet(reply.err[index])) /\ UNCHANGED <<s_at, s_flag>>
      BY <3>1, <3>4, SendTextDef
    <3> QED
      BY <1>1, <1>3, <3>1, <3>5 DEF Sending
  <2>3. CASE SendSentinel
    <3>1. Sending(Packet(Sentinel)) /\ s_at' = "err" /\ UNCHANGED s_flag
      BY <1>1, <2>3, SendSentinelDef
    <3> QED
      BY <1>1, <1>3, <3>1 DEF Sending
  <2>4. CASE Close
    BY <1>1, <1>3, <2>4, CloseDef
  <2> QED
    BY <2>1, <2>2, <2>3, <2>4
<1> QED
  BY <1>0, <1>3, <1>4 DEF Healthy, ServerSteps

LEMMA NextProceeds ==
  ASSUME TypeInv, Proceeds, [Next]_vars
  PROVE  Proceeds'
<1> SUFFICES ASSUME Sound' PROVE Healthy'
  BY DEF Proceeds
<1>1. Sound /\ Healthy
  BY SoundBefore DEF Proceeds
<1>2. CASE Receive
  <2>1. /\ UNCHANGED <<net, asked, flag, size, link, up, c_at, sent, s_at, process, s_flag, file,
                       reply>>
        /\ c_at = "read"
    BY <1>2 DEF Receive, serverVars
  <2> QED
    BY <1>1, <2>1 DEF Healthy
<1>3. CASE Break
  BY <1>1, <1>3, BreakDef DEF Sound
<1>4. CASE UNCHANGED vars
  <2>1. UNCHANGED <<net, asked, flag, size, link, up, down, c_at, sent, s_at, process, s_flag, file,
                    reply>>
    BY <1>4 DEF vars, serverVars, clientVars
  <2> QED
    BY <1>1, <2>1 DEF Healthy
<1>5. CASE Start
  BY <1>1, <1>5, SoundStart
<1> QED
  BY <1>1, <1>2, <1>3, <1>4, <1>5, SoundClient, SoundFile, SoundLate, Steps

-----------------------------------------------------------------------------
LEMMA InitTypeInv == Init => TypeInv
<1> SUFFICES ASSUME Init PROVE TypeInv
  OBVIOUS
<1>1. /\ size \in Nat /\ net \in Nets /\ size \in Sizes
      /\ asked \in {0, 1} /\ flag \in Flags \cup {1}
  BY WireAssumption DEF Init
<1>2. /\ 0 \in 0..size /\ <<>> \in Seq(0..size) /\ <<>> \in Seq(Halves)
      /\ [f \in {"out", "err"} |-> <<>>] \in [{"out", "err"} -> Seq(Halves)]
  BY <1>1
<1>3. /\ up = <<>> /\ down = <<>> /\ file = <<>> /\ sent = 0
      /\ files = [f \in {"out", "err"} |-> <<>>]
  BY DEF Init
<1>4. /\ sent \in 0..size /\ up \in Seq(0..size) /\ down \in Seq(Halves)
      /\ file \in Seq(0..size) /\ files \in [{"out", "err"} -> Seq(Halves)]
  BY <1>2, <1>3
<1>5. TypeOK
  BY <1>1, <1>4 DEF Init, TypeOK
<1>6. files.out = <<>> /\ files.err = <<>>
  BY <1>3
<1> QED
  BY <1>5, <1>6 DEF Init, TypeInv

(* The inductive invariant, and what follows from it.                      *)
THEOREM Invariance == Spec => []IInv
<1>1. Init => IInv
  BY InitTypeInv, InitInOrder, InitInPackets, InitProceeds DEF IInv
<1>2. IInv /\ [Next]_vars => IInv'
  BY NextTypeInv, NextInOrder, NextAlive, NextInPackets, NextProceeds DEF IInv
<1> QED
  BY <1>1, <1>2, PTL DEF Spec

(* The loops of returnResults stay in their vectors, the file buffer holds *)
(* cells of the file, and what is under way was sent.                      *)
THEOREM TypeCorrect == Spec => []TypeOK
<1>1. IInv => TypeOK
  BY DEF IInv, TypeInv
<1> QED
  BY <1>1, Invariance, PTL

(* Whatever breaks or times out, .out holds a prefix of the output and     *)
(* .err of the errors while packets stay whole.                            *)
THEOREM KeptApart == Spec => []FilesKeptApart
<1>1. IInv => FilesKeptApart
  <2> SUFFICES ASSUME IInv, net.whole, reply # NotYet, Carried(reply)
               PROVE  /\ IsPrefix(files.out, Content(reply.out))
                      /\ IsPrefix(files.err, Content(reply.err))
    BY DEF FilesKeptApart
  <2>1. PICK r, d \in Nat : r <= Len(Sent(reply)) /\ Filed(r)
    BY InPacketsNow DEF IInv
  <2>2. /\ Outs(reply) \in Nat /\ Errs(reply) \in Nat
        /\ Len(Sent(reply)) = Outs(reply) + 1 + Errs(reply)
    BY SentType DEF IInv, TypeInv
  <2>3. /\ reply.out \in Seq(Texts) /\ reply.err \in Seq(Texts)
        /\ Len(reply.out) = Outs(reply) /\ Len(reply.err) = Errs(reply)
    BY DEF IInv, TypeInv, TypeOK, Outs, Errs
  <2>4. /\ IsPrefix(ContentUpTo(reply.out, Outs(reply)), Content(reply.out))
        /\ ContentUpTo(reply.out, Outs(reply)) = Content(reply.out)
        /\ IsPrefix(ContentUpTo(reply.err, 0), Content(reply.err))
        /\ ContentUpTo(reply.err, 0) = <<>>
    <3>1. Outs(reply) \in 0..Len(reply.out) /\ 0 \in 0..Len(reply.err)
      BY <2>2, <2>3
    <3> QED
      BY <2>3, <3>1, ContentPrefix, ContentEnds
  <2>5. CASE /\ r <= Outs(reply) /\ curr = "out"
             /\ files.out = ContentUpTo(reply.out, r) /\ files.err = <<>>
    <3>1. r \in 0..Len(reply.out)
      BY <2>2, <2>3, <2>5
    <3> QED
      BY <2>3, <2>4, <2>5, <3>1, ContentPrefix
  <2>6. CASE /\ r > Outs(reply) /\ curr = "err"
             /\ files.out = Content(reply.out)
             /\ files.err = ContentUpTo(reply.err, r - Outs(reply) - 1)
    <3>1. r - Outs(reply) - 1 \in 0..Len(reply.err)
      BY <2>1, <2>2, <2>3, <2>6
    <3> QED
      BY <2>3, <2>4, <2>6, <3>1, ContentPrefix
  <2> QED
    BY <2>1, <2>5, <2>6 DEF Filed
<1> QED
  BY <1>1, Invariance, PTL

(* However the packets are cut, what is printed is in the order sent.      *)
THEOREM InSendingOrder == Spec => []PrintedInOrder
<1>1. IInv => PrintedInOrder
  <2> SUFFICES ASSUME IInv PROVE PrintedInOrder
    OBVIOUS
  <2> DEFINE Parts == {i \in DOMAIN printed : printed[i] # Garbage}
  <2>1. files.out \in Seq(Halves) /\ files.err \in Seq(Halves)
    BY DEF IInv, TypeInv, TypeOK
  <2>2. DOMAIN printed = 1..Len(printed)
    BY <2>1 DEF printed
  <2>3. reply = NotYet => printed = <<>>
    BY DEF IInv, TypeInv, printed
  <2>4. CASE reply = NotYet
    <3>1. Parts = {}
      BY <2>3, <2>4
    <3> QED
      BY <3>1 DEF PrintedInOrder, printed
  <2>5. CASE reply # NotYet
    <3>1. Ordered(reply, printed, down, 2 * NextText)
      BY <2>5 DEF IInv, InOrder
    <3>2. DOMAIN Sent(reply) = 1..Len(Sent(reply))
      BY <2>5, SentType DEF IInv, TypeInv
    <3>3. \A i \in Parts : InReply(reply, printed[i])
      BY <2>2, <3>1 DEF Ordered
    <3>4. \A i, j \in Parts : i < j => Place(reply, printed[i]) < Place(reply, printed[j])
      BY <2>2, <3>1 DEF Ordered
    <3>5. \A i \in Parts : \E j \in DOMAIN Sent(reply) : Sent(reply)[j] = printed[i].text
      BY <3>2, <3>3 DEF InReply
    <3> QED
      BY <2>5, <3>4, <3>5 DEF PrintedInOrder, printed
  <2> QED
    BY <2>4, <2>5
<1> QED
  BY <1>1, Invariance, PTL

-----------------------------------------------------------------------------
(* The exchange implements Exchange, step by step.                         *)

LEMMA Stutters ==
  ASSUME UNCHANGED <<net, asked, flag, size, reply, files, process, ClientOpen>>,
         reply # NotYet => UNCHANGED <<s_flag, file>>
  PROVE  UNCHANGED Promise!vars
BY DEF Promise!vars, Sound

LEMMA Crashes ==
  ASSUME UNCHANGED <<net, asked, flag, size, reply, files, ClientOpen>>,
         reply # NotYet => UNCHANGED <<s_flag, file>>,
         process' = "terminated", ~Sound
  PROVE  Promise!Crash
BY DEF Promise!Crash, Sound

LEMMA MadeReply ==
  ASSUME NEW r, r.out \in Seq(Texts), r.err \in Seq(Texts)
  PROVE  [out |-> Content(r.out), err |-> Content(r.err)] # NotYet
<1>1. Content(r.out) \in Seq(Halves) /\ Content(r.err) \in Seq(Halves)
  BY ContentEnds
<1>2. Content(r.out) \in Seq(Texts \cup Halves) /\ Content(r.err) \in Seq(Texts \cup Halves)
  BY <1>1, SeqWider
<1> DEFINE made == [out |-> Content(r.out), err |-> Content(r.err)]
<1>3. made \in [out : Seq(Texts \cup Halves), err : Seq(Texts \cup Halves)]
  BY <1>2
<1> HIDE DEF made
<1>4. made # NotYet
  BY <1>3, WireAssumption
<1> QED
  BY <1>4 DEF made

(* The client ends.                                                        *)
LEMMA Finishes ==
  ASSUME IInv, SendFlag \/ SendFile \/ ClientMoves, IInv', ClientOpen, ~ClientOpen'
  PROVE  Promise!Finish
<1>1. UNCHANGED <<net, asked, flag, size, down, files, s_at, process, s_flag, file, reply>>
  BY SendFlagDef, SendFileDef, ClientMovesDef DEF ClientSteps, serverVars
<1>2. ASSUME Sound
      PROVE  reply # NotYet /\ files.out = Content(reply.out) /\ files.err = Content(reply.err)
  <2>1. Healthy /\ Sound' /\ Healthy'
    BY <1>1, <1>2 DEF IInv, Proceeds, Sound
  <2>2. c_at' = "done"
    BY <2>1 DEF Healthy, ClientOpen
  <2>3. s_at = "gone" /\ down = <<>>
    BY <1>1, <2>1, <2>2 DEF Healthy
  <2>4. reply # NotYet /\ Connected /\ Carried(reply) /\ net.whole
    BY <1>2, <2>1, <2>3 DEF Healthy, Connected, Sound
  <2>5. PICK r, d \in Nat : UnderWay(r, d) /\ Filed(r) /\ r + d = NextText - 1
    BY <2>4, InPacketsNow DEF IInv
  <2>6. d = 0
    <3>1. 2 * d = 0
      BY <2>3, <2>5 DEF UnderWay
    <3> QED
      BY <3>1
  <2>7. /\ Outs(reply) \in Nat /\ Errs(reply) \in Nat /\ Len(Sent(reply)) \in Nat
        /\ Len(Sent(reply)) = Outs(reply) + 1 + Errs(reply)
    BY <2>4, SentType DEF IInv, TypeInv
  <2>8. NextText = Len(Sent(reply)) + 1
    BY <2>3 DEF NextText
  <2>9. r > Outs(reply) /\ ~(r <= Outs(reply)) /\ r - Outs(reply) - 1 = Errs(reply)
    <3>1. r + 0 = (Len(Sent(reply)) + 1) - 1
      BY <2>5, <2>6, <2>8
    <3>2. r = Outs(reply) + 1 + Errs(reply)
      BY <2>7, <3>1
    <3> QED
      BY <2>7, <3>2
  <2>10. files.out = Content(reply.out) /\ files.err = ContentUpTo(reply.err, Errs(reply))
    BY <2>5, <2>9 DEF Filed
  <2>11. ContentUpTo(reply.err, Errs(reply)) = Content(reply.err)
    <3>1. reply.err \in Seq(Texts)
      BY <2>4 DEF IInv, TypeInv, TypeOK
    <3> QED
      BY <3>1, ContentEnds DEF Errs
  <2> QED
    BY <2>4, <2>10, <2>11
<1>3. reply # NotYet => [out |-> Content(reply.out), err |-> Content(reply.err)] # NotYet
  BY MadeReply DEF IInv, TypeInv, TypeOK
<1> DEFINE made == IF reply = NotYet THEN NotYet
                   ELSE [out |-> Content(reply.out), err |-> Content(reply.err)]
<1>4. Sound => made # NotYet /\ files.out = made.out /\ files.err = made.err
  BY <1>2, <1>3
<1>5. UNCHANGED <<[flag |-> asked, file |-> Whole(size)], Sound,
                  IF reply = NotYet THEN NotYet ELSE [flag |-> s_flag, file |-> file], made,
                  files.out, files.err, process = "running">>
  BY <1>1 DEF Sound
<1>6. ~~ClientOpen /\ (~ClientOpen)' = TRUE
  OBVIOUS
<1> QED
  BY <1>4, <1>5, <1>6 DEF Promise!Finish

(* The client stores what it receives.                                     *)
LEMMA Stores ==
  ASSUME IInv, Receive, IInv'
  PROVE  Promise!Store
<1>1. /\ UNCHANGED <<net, asked, flag, size, c_at, process, s_flag, file, reply>>
      /\ c_at = "read" /\ reply # NotYet
  BY ReceiveTypes DEF Receive, serverVars, IInv
<1>2. IsPrefix(files.out, files'.out) /\ IsPrefix(files.err, files'.err)
  <2>1. PICK n \in 1..2 :
          /\ n <= Len(down)
          /\ \/ files' = files
             \/ \E text \in Printed(SubSeq(down, 1, n)) :
                  files' = [files EXCEPT ![curr] = @ \o text]
    BY ReceiveDef DEF IInv
  <2>2. /\ down \in Seq(Halves) /\ files \in [{"out", "err"} -> Seq(Halves)]
        /\ curr \in {"out", "err"} /\ files.out \in Seq(Halves) /\ files.err \in Seq(Halves)
    BY DEF IInv, TypeInv, TypeOK
  <2>3. CASE files' = files
    BY <2>2, <2>3, PrefixConcat
  <2>4. CASE \E text \in Printed(SubSeq(down, 1, n)) :
               files' = [files EXCEPT ![curr] = @ \o text]
    <3>1. PICK text \in Printed(SubSeq(down, 1, n)) :
            files' = [files EXCEPT ![curr] = @ \o text]
      BY <2>4
    <3>2. text \in Seq(Halves)
      <4>1. n \in 1..Len(down)
        BY <2>1, <2>2
      <4>2. SubSeq(down, 1, n) \in Seq(Halves) /\ Len(SubSeq(down, 1, n)) = n
        BY <2>2, <4>1, TakeDrop
      <4> QED
        BY <4>2, PrintedType
    <3>3. CASE curr = "out"
      <4>1. files'.out = files.out \o text /\ files'.err = files.err
        BY <2>2, <3>1, <3>3
      <4> QED
        BY <2>2, <3>2, <4>1, PrefixConcat
    <3>4. CASE curr = "err"
      <4>1. files'.err = files.err \o text /\ files'.out = files.out
        BY <2>2, <3>1, <3>4
      <4> QED
        BY <2>2, <3>2, <4>1, PrefixConcat
    <3> QED
      BY <2>2, <3>3, <3>4
  <2> QED
    BY <2>1, <2>3, <2>4
<1>3. ASSUME Sound
      PROVE  /\ IsPrefix(files'.out, Content(reply.out)) /\ IsPrefix(files'.err, Content(reply.err))
             /\ files'.err # <<>> => files'.out = Content(reply.out)
  <2>1. net.whole /\ Carried(reply)
    BY <1>1, <1>3 DEF Sound
  <2>2. PICK r \in 0..Len(Sent(reply)) : Filed(r)'
    BY <1>1, <2>1 DEF IInv, InPackets
  <2>3. /\ Outs(reply) \in Nat /\ Errs(reply) \in Nat
        /\ Len(Sent(reply)) = Outs(reply) + 1 + Errs(reply)
    BY <1>1, SentType DEF IInv, TypeInv
  <2>4. /\ reply.out \in Seq(Texts) /\ reply.err \in Seq(Texts)
        /\ Len(reply.out) = Outs(reply) /\ Len(reply.err) = Errs(reply)
    BY <1>1 DEF IInv, TypeInv, TypeOK, Outs, Errs
  <2>5. CASE /\ r <= Outs(reply) /\ files'.out = ContentUpTo(reply.out, r) /\ files'.err = <<>>
    <3>1. r \in 0..Len(reply.out) /\ 0 \in 0..Len(reply.err)
      BY <2>3, <2>4, <2>5
    <3>2. ContentUpTo(reply.err, 0) = <<>>
      BY <2>4, ContentEnds
    <3> QED
      BY <2>4, <2>5, <3>1, <3>2, ContentPrefix
  <2>6. CASE /\ r > Outs(reply) /\ files'.out = Content(reply.out)
             /\ files'.err = ContentUpTo(reply.err, r - Outs(reply) - 1)
    <3>1. r - Outs(reply) - 1 \in 0..Len(reply.err)
      BY <2>3, <2>4, <2>6
    <3>2. Content(reply.out) \in Seq(Halves)
      BY <2>4, ContentEnds
    <3> QED
      BY <2>4, <2>6, <3>1, <3>2, ContentPrefix, PrefixConcat
  <2> QED
    BY <1>1, <2>2, <2>5, <2>6 DEF Filed
<1>4. ClientOpen /\ UNCHANGED ClientOpen
  BY <1>1 DEF ClientOpen
<1>5. [out |-> Content(reply.out), err |-> Content(reply.err)] # NotYet
  BY <1>1, MadeReply DEF IInv, TypeInv, TypeOK
<1> DEFINE made == IF reply = NotYet THEN NotYet
                   ELSE [out |-> Content(reply.out), err |-> Content(reply.err)]
<1>6. made # NotYet /\ made.out = Content(reply.out) /\ made.err = Content(reply.err)
  BY <1>1, <1>5
<1>7. UNCHANGED <<[flag |-> asked, file |-> Whole(size)], Sound,
                  IF reply = NotYet THEN NotYet ELSE [flag |-> s_flag, file |-> file], made,
                  ~ClientOpen, process = "running">>
  BY <1>1, <1>4 DEF Sound
<1>8. \A s, u : Promise!IsPrefix(s, u) = IsPrefix(s, u)
  BY DEF Promise!IsPrefix, IsPrefix
<1> HIDE DEF made
<1>9. /\ Promise!IsPrefix(files.out, files'.out) /\ Promise!IsPrefix(files.err, files'.err)
      /\ Sound => /\ made # NotYet
                  /\ Promise!IsPrefix(files'.out, made.out)
                  /\ Promise!IsPrefix(files'.err, made.err)
                  /\ files'.err # <<>> => files'.out = made.out
  BY <1>2, <1>3, <1>6, <1>8
<1> QED
  BY <1>4, <1>7, <1>9 DEF Promise!Store, made

(* The program has been run.                                               *)
LEMMA Runs ==
  ASSUME IInv, Start, IInv'
  PROVE  Promise!Run
<1>1. /\ TypeInv /\ UNCHANGED <<net, asked, flag, size, c_at, files, process, s_flag, file>>
      /\ reply = NotYet
  BY StartDef DEF ServerSteps, IInv, TypeInv
<1>2. /\ reply' # NotYet /\ reply'.out \in Seq(Texts) /\ reply'.err \in Seq(Texts)
  BY <1>1, NewReply
<1>3. [out |-> Content(reply'.out), err |-> Content(reply'.err)] # NotYet
  BY <1>2, MadeReply
<1>4. ASSUME Sound'
      PROVE  Sound /\ s_flag = asked /\ file = Whole(size) /\ ClientOpen
  <2>1. Sound
    BY <1>1, <1>4 DEF Sound
  <2>2. Healthy
    BY <2>1 DEF IInv, Proceeds
  <2>3. s_flag = asked /\ file = Whole(size) /\ c_at = "read"
    BY <1>1, <2>1, <2>2, SoundStart
  <2>4. ClientOpen
    BY <2>3 DEF ClientOpen
  <2> QED
    BY <2>1, <2>3, <2>4
<1>5. UNCHANGED ClientOpen
  BY <1>1 DEF ClientOpen
<1> QED
  BY <1>1, <1>2, <1>3, <1>4, <1>5 DEF Promise!Run

LEMMA ProcessEnds ==
  ASSUME ReadFlag \/ NoFlag \/ ReadFile \/ EndOfFile \/ SendOut \/ SendSentinel \/ SendErr \/ Close,
         process' # process
  PROVE  process' = "terminated"
<1>1. CASE ReadFlag \/ NoFlag \/ ReadFile \/ EndOfFile \/ Close
  BY <1>1, ReadFlagDef, NoFlagDef, ReadFileDef, EndOfFileDef, CloseDef
<1>2. CASE SendOut \/ SendErr \/ SendSentinel
  <2>1. \E bytes : Sending(bytes) \/ Breakdown
    BY <1>2, SendTextDef, SendSentinelDef DEF SendOut, SendErr
  <2> QED
    BY <2>1 DEF Sending, Breakdown
<1> QED
  BY <1>1, <1>2

LEMMA Refines ==
  ASSUME IInv, [Next]_vars, IInv'
  PROVE  [Promise!Next]_(Promise!vars)
<1>0. /\ UNCHANGED <<net, asked, flag, size>>
      /\ TypeInv /\ (Sound => Healthy) /\ (Sound' => Healthy')
  BY SoundBefore DEF IInv, Proceeds
<1>1. CASE SendFlag \/ SendFile \/ ClientMoves
  <2>1. UNCHANGED <<net, asked, flag, size, files, process, s_flag, file, reply>>
    BY <1>1, SendFlagDef, SendFileDef, ClientMovesDef DEF ClientSteps, serverVars
  <2>2. ClientOpen
    BY <1>1, SendFlagDef, SendFileDef, ClientMovesDef DEF ClientOpen
  <2>3. CASE ClientOpen'
    <3>1. UNCHANGED ClientOpen
      BY <2>2, <2>3 DEF ClientOpen
    <3> QED
      BY <2>1, <3>1, Stutters
  <2>4. CASE ~ClientOpen'
    BY <1>1, <2>2, <2>4, Finishes DEF Promise!Next
  <2> QED
    BY <2>3, <2>4
<1>2. CASE Receive
  BY <1>2, Stores DEF Promise!Next
<1>3. CASE Break \/ UNCHANGED vars
  <2>1. UNCHANGED <<net, asked, flag, size, files, process, s_flag, file, reply, ClientOpen>>
    BY <1>3, BreakDef DEF ServerSteps, serverVars, vars, clientVars, ClientOpen
  <2> QED
    BY <2>1, Stutters
<1>4. CASE \/ ReadFlag \/ NoFlag \/ ReadFile \/ EndOfFile
           \/ SendOut \/ SendSentinel \/ SendErr \/ Close
  <2>1. /\ UNCHANGED <<reply, files, ClientOpen>>
        /\ reply # NotYet => UNCHANGED <<s_flag, file>>
    <3>1. CASE ReadFlag \/ NoFlag \/ ReadFile \/ EndOfFile
      BY <1>0, <3>1, ReadFlagDef, NoFlagDef, ReadFileDef, EndOfFileDef
      DEF ServerSteps, ClientOpen, TypeInv
    <3>2. CASE SendOut \/ SendSentinel \/ SendErr \/ Close
      <4>1. ServerSteps /\ UNCHANGED <<file, reply>>
        BY <1>0, <3>2, LateSteps
      <4>2. s_flag' = s_flag
        <5>1. CASE SendOut \/ SendErr \/ SendSentinel
          <6>1. s_flag' = s_flag \/ Breakdown
            BY <5>1, SendTextDef, SendSentinelDef DEF SendOut, SendErr
          <6> QED
            BY <6>1 DEF Breakdown
        <5>2. CASE Close
          BY <5>2, CloseDef
        <5> QED
          BY <3>2, <5>1, <5>2
      <4> QED
        BY <4>1, <4>2 DEF ServerSteps, ClientOpen
    <3> QED
      BY <1>4, <3>1, <3>2
  <2>2. process \in {"running", "terminated"} /\ process' \in {"running", "terminated"}
    BY DEF IInv, TypeInv, TypeOK
  <2>3. CASE process' = process
    BY <1>0, <2>1, <2>3, Stutters
  <2>4. CASE process' # process
    <3>1. process' = "terminated"
      BY <1>0, <1>4, <2>2, <2>4, ProcessEnds
    <3>2. ~Sound
      <4>1. Sound = Sound'
        BY <1>0, <2>1 DEF Sound
      <4> QED
        BY <1>0, <3>1, <4>1 DEF Healthy
    <3>3. Promise!Crash
      BY <1>0, <2>1, <3>1, <3>2, Crashes
    <3> QED
      BY <3>3 DEF Promise!Next
  <2> QED
    BY <2>3, <2>4
<1>5. CASE Start
  BY <1>5, Runs DEF Promise!Next
<1> QED
  BY <1>1, <1>2, <1>3, <1>4, <1>5, Steps

(* In a sound exchange the server runs what was sent, .out and .err become *)
(* the output and the errors, complete when the client ends, and the       *)
(* server survives.                                                        *)
THEOREM Implements == Spec => ExchangeImplemented
<1>1. Init => Promise!Init
  <2> SUFFICES ASSUME Init PROVE Promise!Init
    OBVIOUS
  <2>1. /\ asked \in {0, 1} /\ size \in Sizes /\ reply = NotYet
        /\ files.out = <<>> /\ files.err = <<>> /\ ClientOpen /\ process = "running"
    BY DEF Init, ClientOpen
  <2>2. Sound \in BOOLEAN
    BY DEF Sound
  <2> QED
    BY <2>1, <2>2 DEF Promise!Init
<1>2. IInv /\ [Next]_vars /\ IInv' => [Promise!Next]_(Promise!vars)
  BY Refines
<1> QED
  BY <1>1, <1>2, Invariance, PTL DEF Spec, Promise!Spec, ExchangeImplemented
=============================================================================
