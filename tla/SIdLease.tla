------------------------------ MODULE SIdLease ------------------------------
(***************************************************************************)
(* What the naming service promises about service identifiers (SIds): each *)
(* is leased to one service at a time, and not leased again before every   *)
(* service that used it for the former holder has stopped doing so.  This  *)
(* is what the acknowledged removal of doRemove (naming_service.cpp:350)   *)
(* is for.  The leases of different SIds are independent of each other.    *)
(***************************************************************************)
CONSTANTS SIds, Services, NoService

VARIABLES
  holder,     \* [SIds -> Services \cup {NoService}]: whom the SId is leased to
  retiring,   \* [SIds -> BOOLEAN]: the holder is being removed
  uses        \* [SIds -> pairs <<user, service the user reaches with the SId>>]

leaseVars == <<holder, retiring, uses>>

Init ==
  /\ holder = [i \in SIds |-> NoService]
  /\ retiring = [i \in SIds |-> FALSE]
  /\ uses = [i \in SIds |-> {}]

Same(i) ==
  /\ holder'[i] = holder[i] /\ retiring'[i] = retiring[i] /\ uses'[i] = uses[i]

(* A free SId that nobody uses any more is given to a service.             *)
Grant(i) ==
  /\ holder[i] = NoService /\ uses[i] = {}
  /\ holder'[i] \in Services /\ ~retiring'[i] /\ uses'[i] = {}

(* A service learns who holds the SId; it can only learn the truth.        *)
Learn(i) ==
  /\ holder[i] # NoService
  /\ \E s \in Services : uses'[i] = uses[i] \cup {<<s, holder[i]>>}
  /\ holder'[i] = holder[i] /\ retiring'[i] = retiring[i]

(* Users forget the holder or disappear.                                   *)
Forget(i) ==
  /\ uses'[i] \in SUBSET uses[i]
  /\ holder'[i] = holder[i] /\ retiring'[i] = retiring[i]

(* The holder is gone, or has been told to go.                             *)
Retire(i) ==
  /\ holder[i] # NoService /\ ~retiring[i]
  /\ holder'[i] = holder[i] /\ retiring'[i] /\ uses'[i] \in SUBSET uses[i]

(* The SId is free again; a holder nobody else uses needs no retirement.   *)
Release(i) ==
  /\ holder[i] # NoService
  /\ IF retiring[i] THEN uses[i] = {} ELSE \A u \in uses[i] : u[1] = holder[i]
  /\ holder'[i] = NoService /\ ~retiring'[i] /\ uses'[i] = {}

Next ==
  \A i \in SIds :
    Same(i) \/ Grant(i) \/ Learn(i) \/ Forget(i) \/ Retire(i) \/ Release(i)

Spec == Init /\ [][Next]_leaseVars
=============================================================================
