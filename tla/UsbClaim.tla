------------------------------ MODULE UsbClaim ------------------------------
(***************************************************************************)
(* What the USB host kit promises the clients of one device: an interface  *)
(* stays bound in the kernel as long as a client claims it, and the two    *)
(* I/O threads run exactly while a handle is open.  The promise ends with  *)
(* the first event the kit does not recover from, broken.                  *)
(***************************************************************************)
EXTENDS FiniteSets

CONSTANTS Clients, Ifaces, NoIface

VARIABLES claim,     \* the interface each client claims
          opened,    \* clients with an open handle
          bound,     \* interfaces bound in the kernel
          serving,   \* the I/O threads run
          broken

vars == <<claim, opened, bound, serving, broken>>

Init ==
    /\ claim = [c \in Clients |-> NoIface]
    /\ opened = {}
    /\ bound = {}
    /\ serving = FALSE
    /\ broken = FALSE

Claimed == {claim[c] : c \in Clients} \ {NoIface}

\* The first client that claims an interface binds it.
Claim(c, i) ==
    /\ claim[c] = NoIface
    /\ claim' = [claim EXCEPT ![c] = i]
    /\ bound' \in {bound, bound \cup {i}}
    /\ UNCHANGED <<opened, serving>>

Release(c) ==
    /\ claim[c] # NoIface
    /\ c \notin opened
    /\ claim' = [claim EXCEPT ![c] = NoIface]
    /\ bound' \in {bound, bound \ {claim[c]}}
    /\ bound \cap Claimed' \subseteq bound'
    /\ UNCHANGED <<opened, serving>>

Open(c) ==
    /\ claim[c] # NoIface
    /\ c \notin opened
    /\ opened' = opened \cup {c}
    /\ serving' = TRUE
    /\ UNCHANGED <<claim, bound>>

Close(c) ==
    /\ c \in opened
    /\ opened' = opened \ {c}
    /\ serving' = (opened' # {})
    /\ UNCHANGED <<claim, bound>>

\* The device is closed once nothing of it is claimed.
CloseDevice ==
    /\ Claimed = {}
    /\ bound' = {}
    /\ UNCHANGED <<claim, opened, serving>>

Next ==
    \/ /\ UNCHANGED broken
       /\ \/ \E c \in Clients : \/ \E i \in Ifaces : Claim(c, i)
                                \/ Release(c)
                                \/ Open(c)
                                \/ Close(c)
          \/ CloseDevice
    \/ broken'

Spec == Init /\ [][Next]_vars
=============================================================================
