------------------------------- MODULE MCPlList -------------------------------
(* Five handles; two clash by their names, two by their ids. *)
EXTENDS PlList, TLC

CONSTANTS p1, p2, p3, p4, p5
MCPayloads == {p1, p2, p3, p4, p5}
MCName == (p1 :> "edc" @@ p2 :> "cam" @@ p3 :> "rad" @@ p4 :> "sdr" @@ p5 :> "edc")
MCId == (p1 :> 1 @@ p2 :> 2 @@ p3 :> 3 @@ p4 :> 2 @@ p5 :> 5)
=============================================================================
