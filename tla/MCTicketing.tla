---------------------------- MODULE MCTicketing -----------------------------
(***************************************************************************)
(* Small instances of Ticketing for TLC.                                   *)
(***************************************************************************)
EXTENDS TicketingProperties, TLC

CONSTANTS Fair, Host, Guest    \* the one event, its organizer, a user

MCEventOf == [t \in Ticket |-> Fair]
MCOrganizer == [e \in Event |-> Host]

\* Requests, the tickets of the one event, transfer and credential ids are
\* interchangeable; users and jobs of the instances are not.
Symmetry == Permutations(Request) \cup Permutations(Ticket)
                \cup Permutations(Transfer) \cup Permutations(Key)

-----------------------------------------------------------------------------
(* Liveness is checked from a state that Init leads to: the host has all    *)
(* tickets and has offered each of them to the guest.                       *)

Injective(f) == \A a, b \in DOMAIN f : f[a] = f[b] => a = b
CodeOf == CHOOSE f \in [Ticket -> Key] : Injective(f)
OfferOf == CHOOSE f \in [Ticket -> Transfer] : Injective(f)

AllOffered ==
    /\ event = [e \in Event |-> [status |-> "PUBLISHED", clock |-> "before"]]
    /\ ticket = [t \in Ticket |-> [owner |-> Host, status |-> "TRANSFER_PENDING"]]
    /\ cred \in [Key -> [status : {"ACTIVE"}, ticket : Ticket, holder : {Host}]
                   \cup [status : {"UNUSED"}, ticket : {None}, holder : {None}]]
    /\ \A k \in Key, t \in Ticket : cred[k].ticket = t <=> CodeOf[t] = k
    /\ transfer \in [Transfer -> [status : {"PENDING"}, ticket : Ticket,
                        initiator : {Host}, recipient : {Guest}, due : {FALSE}]]
    /\ \A t \in Ticket : transfer[OfferOf[t]].ticket = t
    /\ assigned = {}
    /\ entries = [t \in Ticket |-> 0]
    /\ late = {}
    /\ holds = [s \in Session |-> {}]
    /\ tx = [s \in Session |-> NoTx]
    /\ sweep = [j \in Job |-> {}]

OfferedFairSpec == AllOffered /\ [][Next]_vars /\ Fairness
=============================================================================
