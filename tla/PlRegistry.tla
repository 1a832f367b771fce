------------------------------ MODULE PlRegistry ------------------------------
(***************************************************************************)
(* What the payload list of libmop promises (pl_list.h): it keeps the      *)
(* payloads that were added, in that order, each until it is removed, and  *)
(* no two of them with the same name or id.                                *)
(***************************************************************************)
EXTENDS Naturals, Sequences

CONSTANTS Payloads, Name, Id

VARIABLES members, call

Clash(p, q) == Name[p] = Name[q] \/ Id[p] = Id[q]

Init == members = <<>> /\ call = <<>>

\* A new payload goes to the end; one that clashes, with itself even, changes nothing.
Add(p) ==
  /\ call' = <<"add", p>>
  /\ members' = IF \E k \in DOMAIN members : Clash(p, members[k]) THEN members
                ELSE Append(members, p)

Member(p) == \E k \in DOMAIN members : members[k] = p

Remove(p) ==
  /\ call' = <<"remove", p>>
  /\ \/ ~Member(p) /\ UNCHANGED members
     \/ \E k \in DOMAIN members :
          /\ members[k] = p
          /\ members' = SubSeq(members, 1, k - 1) \o SubSeq(members, k + 1, Len(members))

Next == \E p \in Payloads : Add(p) \/ Remove(p)

Spec == Init /\ [][Next]_<<members, call>>
=============================================================================
