-------------------------------- MODULE PlList --------------------------------
(***************************************************************************)
(* The payload list of libmop (src/subprojects/libmop/src/pl_list.c): a    *)
(* list linked through the handles themselves, so that adding or removing  *)
(* a handle writes to the handle and to its neighbours.  The list has no   *)
(* lock and one caller, so each function is one step.                      *)
(***************************************************************************)
EXTENDS Naturals, Sequences, FiniteSets

CONSTANTS
  Payloads,   \* the handles
  NULL,
  Name, Id    \* the fields that identify a handle

ASSUME PlListConstants == /\ IsFiniteSet(Payloads) /\ NULL \notin Payloads
                          /\ DOMAIN Name = Payloads /\ DOMAIN Id = Payloads

VARIABLES
  payload_list,  \* the head
  next,          \* the field of each handle
  call           \* history: the last call and its handle

list == <<payload_list, next>>
listVars == <<payload_list, next, call>>

ListTypeOK ==
  /\ payload_list \in Payloads \cup {NULL}
  /\ next \in [Payloads -> Payloads \cup {NULL}]
  /\ call \in {<<>>} \cup ({"add", "remove"} \X Payloads)

\* A handle starts zeroed, in no list.
ListInit ==
  /\ payload_list = NULL
  /\ next = [p \in Payloads |-> NULL]
  /\ call = <<>>

\* for_each_payload: the handles met on the way from the head.
Steps == 1 .. Cardinality(Payloads)
Nth[k \in Steps] ==
  IF k = 1 THEN payload_list
  ELSE IF Nth[k - 1] = NULL THEN NULL ELSE next[Nth[k - 1]]
Walk == [k \in {j \in Steps : Nth[j] # NULL} |-> Nth[k]]
Listed == {Walk[k] : k \in DOMAIN Walk}
Last == Walk[Len(Walk)]

\* Mutation: ids are not compared.
Clash_NameOnly(p, q) == p = q \/ Name[p] = Name[q]

\* The handle itself, or its name or id, is met.
Clash(p, q) == p = q \/ Name[p] = Name[q] \/ Id[p] = Id[q]

\* pl_list_add: pl->next is cleared first; then a clash met on the walk ends the
\* call, or the handle goes to the end.
Add(pl) ==
  LET cleared == [next EXCEPT ![pl] = NULL]
  IN IF payload_list = NULL
       THEN payload_list' = pl /\ next' = cleared
     ELSE /\ UNCHANGED payload_list
          /\ next' = IF \E q \in Listed : Clash(pl, q) THEN cleared
                     ELSE [cleared EXCEPT ![Last] = pl]

\* Mutation: the rest of the list goes with the removed handle.
Remove_CutTail(pl) ==
  IF pl = payload_list
    THEN payload_list' = next[pl] /\ next' = [next EXCEPT ![pl] = NULL]
  ELSE IF \E cur \in Listed : next[cur] = pl
    THEN LET cur == CHOOSE c \in Listed : next[c] = pl
         IN next' = [next EXCEPT ![cur] = NULL, ![pl] = NULL] /\ UNCHANGED payload_list
  ELSE UNCHANGED list

\* pl_list_remove; a handle that is not listed is left alone.
Remove(pl) ==
  IF pl = payload_list
    THEN payload_list' = next[pl] /\ next' = [next EXCEPT ![pl] = NULL]
  ELSE IF \E cur \in Listed : next[cur] = pl
    THEN LET cur == CHOOSE c \in Listed : next[c] = pl
         IN next' = [next EXCEPT ![cur] = next[pl], ![pl] = NULL] /\ UNCHANGED payload_list
  ELSE UNCHANGED list

\* pl_list_get_by_name and pl_list_get_by_id: the first one that matches.
FirstWhere(Match(_)) ==
  IF \E k \in DOMAIN Walk : Match(Walk[k])
    THEN Walk[CHOOSE k \in DOMAIN Walk : Match(Walk[k]) /\ \A j \in 1 .. k - 1 : ~Match(Walk[j])]
    ELSE NULL
GetByName(name) == FirstWhere(LAMBDA p : Name[p] = name)
GetById(id) == FirstWhere(LAMBDA p : Id[p] = id)

\* Any handle may be added or removed at any time, a listed one added again too.
ListNext ==
  \E pl \in Payloads : \/ Add(pl) /\ call' = <<"add", pl>>
                       \/ Remove(pl) /\ call' = <<"remove", pl>>
ListSpec == ListInit /\ [][ListNext]_listVars
-----------------------------------------------------------------------------
Registry == INSTANCE PlRegistry WITH members <- Walk

\* The k-th of the listed handles is added again, and those behind it are gone: its
\* next was cleared before it was met (pl_list.c:19), which no registry allows.
CutsTail ==
  \E k \in 1 .. Len(Walk) - 1 : call' = <<"add", Walk[k]>> /\ Walk' = SubSeq(Walk, 1, k)

\* Call by call the list is a registry in the order of addition (pl_list.h), the handles
\* met on a walk being its members: whatever is added, removed or added again, the only
\* other step it takes is to cut off what is behind a listed handle that is added again.
ImplementsRegistry == Registry!Init /\ [][Registry!Next \/ CutsTail]_<<Walk, call>>

\* Both lookups find every listed payload itself, which takes unique names and
\* ids and a walk that reaches them all.
LookupFindsListed == \A p \in Listed : GetByName(Name[p]) = p /\ GetById(Id[p]) = p
-----------------------------------------------------------------------------
(* The inductive invariant *)

\* The links lead through s, from the head to a handle without a successor.
Path(s) ==
  /\ payload_list = IF s = <<>> THEN NULL ELSE s[1]
  /\ \A k \in DOMAIN s : next[s[k]] = IF k = Len(s) THEN NULL ELSE s[k + 1]

\* No two of the handles of s clash, so no handle is met twice.
Distinct(s) == \A j, k \in DOMAIN s : j # k => ~Clash(s[j], s[k])

\* The walk is such a path: it has an end, and meets every listed handle before it.
ListInv == ListTypeOK /\ Walk \in Seq(Payloads) /\ Path(Walk) /\ Distinct(Walk)
=============================================================================
