------------------------------- MODULE MCWire -------------------------------
(* Replies and networks for Wire: each fault alone and all together, with  *)
(* whole and with cut packets; memory that is not intact with none and all *)
(* of the faults.                                                          *)
EXTENDS Wire

MCFlags == {-1, 0, 1}

MCTexts == {"a", "b!", "real", "oops", "long", "marked", "huge", "failed"}
MCLong == {"real", "long", "marked", "huge"}
MCHuge == {"huge"}
MCBangAt4 == {"b!"}
MCBangAt260 == {"marked"}

R(out, err) == [out |-> out, err |-> err]
MCReplies ==
  {R(<<>>, <<>>), R(<<"a", "b!">>, <<"oops", "long">>), R(<<"a", "b!">>, <<>>),
   R(<<"real", "a">>, <<"long", "marked", "oops">>), R(<<"a">>, <<"huge", "oops">>)}

Faults == {"flag", "file", "reply", "reset"}
MCNets ==
  [whole : BOOLEAN, intact : {TRUE}, faults : {{}, Faults} \cup {{f} : f \in Faults}]
    \cup [whole : {TRUE}, intact : {FALSE}, faults : {{}, Faults}]

(* Nothing goes wrong on the way.                                          *)
GoodNets == [whole : {TRUE}, intact : {TRUE}, faults : {{}}]
=============================================================================
