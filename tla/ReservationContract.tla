------------------------- MODULE ReservationContract -------------------------
(***************************************************************************)
(* What the reservation discipline promises its clients, with neither      *)
(* queue, pin, spill, event nor policy in sight.                           *)
(*                                                                         *)
(* A client brings a number of jobs that are worked off one at a time.     *)
(* When it joins it is either entitled to a host or not.  An entitlement   *)
(* is one of at most Bound, is covered by memory of its host that no other *)
(* entitlement counts on, and lasts until the client is over.  The job of  *)
(* an entitled client is begun on its host, eventually, and is never       *)
(* interrupted; the job of any other client may be.                        *)
(***************************************************************************)
EXTENDS Integers, FiniteSets, Capacity

CONSTANTS Clients, Hosts, Jobs, Size, Capacities, Bound, Nowhere

VARIABLES
    joined,     \* clients that were let in
    entitled,   \* host a client is entitled to, or Nowhere
    worksAt,    \* host its job is being worked on, or Nowhere
    done        \* jobs that are over, finished or given up

vars == <<joined, entitled, worksAt, done>>

Over(c) == done[c] >= Jobs[c]
EntitledTo(h) == {c \in Clients : entitled[c] = h}
Grants == {c \in Clients : entitled[c] # Nowhere}

Init ==
    /\ joined = {}
    /\ entitled = [c \in Clients |-> Nowhere]
    /\ worksAt = [c \in Clients |-> Nowhere]
    /\ done = [c \in Clients |-> 0]

JoinPlain(c) ==
    /\ c \notin joined
    /\ joined' = joined \cup {c}
    /\ UNCHANGED <<entitled, worksAt, done>>

JoinEntitled(c, h) ==
    /\ c \notin joined
    /\ Cardinality(Grants) < Bound
    /\ Total(EntitledTo(h), Size) + Size[c] <= Capacities[h]
    /\ joined' = joined \cup {c}
    /\ entitled' = [entitled EXCEPT ![c] = h]
    /\ UNCHANGED <<worksAt, done>>

Begin(c, h) ==
    /\ c \in joined /\ ~Over(c) /\ worksAt[c] = Nowhere
    /\ entitled[c] \in {Nowhere, h}
    /\ worksAt' = [worksAt EXCEPT ![c] = h]
    /\ UNCHANGED <<joined, entitled, done>>

\* One job is finished, or all that are left are given up.
End(c, n) ==
    /\ worksAt[c] # Nowhere
    /\ worksAt' = [worksAt EXCEPT ![c] = Nowhere]
    /\ done' = [done EXCEPT ![c] = @ + n]
    /\ entitled' = IF done'[c] >= Jobs[c]
                   THEN [entitled EXCEPT ![c] = Nowhere] ELSE entitled
    /\ UNCHANGED joined
Finish(c) == End(c, 1)
GiveUp(c) == End(c, Jobs[c] - done[c])

Interrupt(c) ==
    /\ worksAt[c] # Nowhere /\ entitled[c] = Nowhere
    /\ worksAt' = [worksAt EXCEPT ![c] = Nowhere]
    /\ UNCHANGED <<joined, entitled, done>>

Next ==
    \E c \in Clients :
        \/ JoinPlain(c) \/ Finish(c) \/ GiveUp(c) \/ Interrupt(c)
        \/ \E h \in Hosts : JoinEntitled(c, h) \/ Begin(c, h)

\* The job of an entitled client is begun, and what is begun ends.
EntitledWork(c) ==
    /\ entitled[c] # Nowhere
    /\ \/ \E h \in Hosts : Begin(c, h)
       \/ Finish(c) \/ GiveUp(c)

Spec == Init /\ [][Next]_vars /\ \A c \in Clients : WF_vars(EntitledWork(c))
=============================================================================
