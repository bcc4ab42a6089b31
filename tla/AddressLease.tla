---------------------------- MODULE AddressLease ----------------------------
(***************************************************************************)
(* What an address manager promises to its clients.  Every address has at  *)
(* most one holder.  A client's request changes only what that client      *)
(* holds, and gives it only addresses nobody holds; reconfiguring the      *)
(* manager may take addresses away but gives none.                         *)
(***************************************************************************)
CONSTANTS
    Addresses,  \* what is handed out
    Clients,    \* who may hold it
    NoClient    \* an address nobody holds

VARIABLE holder

TypeOK == holder \in [Addresses -> Clients \cup {NoClient}]

Init == holder = [a \in Addresses |-> NoClient]

\* A request of client c: it may get free addresses and give up its own.
Serve(c) ==
    /\ holder' \in [Addresses -> Clients \cup {NoClient}]
    /\ \A a \in Addresses :
          holder'[a] # holder[a] => {holder[a], holder'[a]} = {c, NoClient}

\* Reconfiguration: addresses fall back to nobody.
Revoke ==
    /\ holder' \in [Addresses -> Clients \cup {NoClient}]
    /\ \A a \in Addresses : holder'[a] \in {holder[a], NoClient}

Next == Revoke \/ \E c \in Clients : Serve(c)

Spec == Init /\ [][Next]_holder

=============================================================================
