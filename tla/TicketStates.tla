---------------------------- MODULE TicketStates ----------------------------
(***************************************************************************)
(* The ticket state machine of modules/tickets/ticket-state.ts: the        *)
(* statuses a ticket row can have and the transitions the code allows.     *)
(***************************************************************************)

Statuses == {"ISSUED", "ACTIVE", "TRANSFER_PENDING", "TRANSFERRED",
             "USED", "CANCELLED", "EXPIRED"}

\* The statuses event cancellation turns into CANCELLED (event.service.ts).
LiveStatuses == {"ISSUED", "ACTIVE", "TRANSFER_PENDING", "TRANSFERRED"}

TerminalStatuses == {"USED", "CANCELLED", "EXPIRED"}

Transitions ==
    [ ISSUED           |-> {"ACTIVE"},
      ACTIVE           |-> {"TRANSFER_PENDING", "USED", "CANCELLED", "EXPIRED"},
      TRANSFER_PENDING |-> {"ACTIVE", "TRANSFERRED", "CANCELLED"},
      TRANSFERRED      |-> {"ACTIVE"},
      USED             |-> {},
      CANCELLED        |-> {},
      EXPIRED          |-> {} ]

\* assertTicketTransition throws exactly when this is FALSE.
CanTransition(from, to) == to \in Transitions[from]
=============================================================================
