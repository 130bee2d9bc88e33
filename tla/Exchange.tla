------------------------------ MODULE Exchange ------------------------------
(***************************************************************************)
(* What a user of MIS_client is promised, without packets, timers and      *)
(* processes: the server runs the file that was handed over, under the     *)
(* flag that was given; what the program prints is filed in .out, the      *)
(* errors in .err, both complete and in order.                             *)
(*                                                                         *)
(* The promise is made to an exchange that is sound: nothing goes wrong on *)
(* the network and neither the file nor the reply is beyond what the       *)
(* protocol can carry.  Whether the reply is shows when it is there, so    *)
(* running the program may end soundness.                                  *)
(***************************************************************************)
EXTENDS Sequences, SequencesExt

CONSTANTS
  Requests,   \* the files, each with its flag
  NotYet      \* stands for what the server has not made yet

VARIABLES
  request,    \* what the user asks for
  sound,      \* is this exchange one the promise is made to
  ran,        \* what the server runs
  reply,      \* [out, err]: what the program printed and the errors
  out, err,   \* the user's two files
  over,       \* the client has ended
  alive       \* the server, which has other clients to serve, still runs

vars == <<request, sound, ran, reply, out, err, over, alive>>

Init ==
  /\ request \in Requests
  /\ sound \in BOOLEAN
  /\ ran = NotYet
  /\ reply = NotYet
  /\ out = <<>>
  /\ err = <<>>
  /\ over = FALSE
  /\ alive = TRUE

(* The server has received a file, ran it, and has the outcome.            *)
Run ==
  /\ reply = NotYet
  /\ reply' # NotYet
  /\ sound' => sound /\ ran' = request /\ ~over
  /\ UNCHANGED <<request, out, err, over, alive>>

(* The user's files grow.  Errors come after all of the output.            *)
Store ==
  /\ ~over
  /\ IsPrefix(out, out')
  /\ IsPrefix(err, err')
  /\ sound => /\ reply # NotYet
              /\ IsPrefix(out', reply.out)
              /\ IsPrefix(err', reply.err)
              /\ err' # <<>> => out' = reply.out
  /\ UNCHANGED <<request, sound, ran, reply, over, alive>>

Finish ==
  /\ ~over
  /\ over' = TRUE
  /\ sound => reply # NotYet /\ out = reply.out /\ err = reply.err
  /\ UNCHANGED <<request, sound, ran, reply, out, err, alive>>

(* An exchange that is not sound can take the server down.                 *)
Crash ==
  /\ ~sound
  /\ alive' = FALSE
  /\ UNCHANGED <<request, sound, ran, reply, out, err, over>>

Next == Run \/ Store \/ Finish \/ Crash

Spec == Init /\ [][Next]_vars
=============================================================================
