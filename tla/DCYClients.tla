----------------------------- MODULE DCYClients -----------------------------
(***************************************************************************)
(* The registry of opt_datacyclotron.c shared by several clients.  The     *)
(* MAL wrappers (addRegWrap, DCYaddRegist) call addRegist on the global    *)
(* `catalog` from each client's thread and nothing in the file takes a     *)
(* lock.  addRegist reads the list once (findRegist, line 67) and writes   *)
(* it later (the push at 75, the stores at 88-91): here those are two      *)
(* steps, AddLookup and AddStore, and the other clients' calls may run     *)
(* between them.  removePartRegist and dropRegist stay single steps.       *)
(***************************************************************************)
EXTENDS DCYCatalog

CONSTANTS Clients

VARIABLE pending   \* per client: the addRegist it is inside, with its lookup

vars == <<regVars, pending>>

Idle == [col |-> "idle"]

ClientInit ==
  /\ RegInit
  /\ pending = [c \in Clients |-> Idle]

\* addRegist up to line 67: the call starts and findRegist returns `found`.
AddLookup(c, col, acc, part) ==
  /\ pending[c] = Idle
  /\ RegCall("add", col, acc, part)
  /\ pending' = [pending EXCEPT ![c] = [col |-> col, acc |-> acc, part |-> part,
                                        found |-> FoundId(col, acc)]]
  /\ UNCHANGED <<catalog, fault, nextId>>

\* addRegist from line 68: allocate or reuse what the lookup returned, and
\* store the partition.
AddStore(c) ==
  /\ pending[c] # Idle
  /\ fault = "none"
  /\ LET p == pending[c] IN AddStoreTo(p.col, p.acc, p.part, p.found)
  /\ pending' = [pending EXCEPT ![c] = Idle]
  /\ UNCHANGED <<calls, last>>

\* removePartRegist and dropRegist by a client not inside addRegist.
OtherCall(c) ==
  /\ pending[c] = Idle
  /\ \E col \in Names, acc \in Accesses :
       \/ \E part \in PartIds : RemovePartRegist(col, acc, part)
       \/ DropRegist(col, acc)
  /\ UNCHANGED pending

ClientNext ==
  \E c \in Clients :
    \/ \E col \in Names, acc \in Accesses, part \in PartIds :
         AddLookup(c, col, acc, part)
    \/ AddStore(c)
    \/ OtherCall(c)

ClientSpec == ClientInit /\ [][ClientNext]_vars

=============================================================================
