------------------------------- MODULE Lease -------------------------------
(* What a DHCP client promises about the address of its interface, without *)
(* messages and timers: it takes an address only while a server's lease on *)
(* it runs, and as long as it says that the address is settled the lease   *)
(* does not run out.                                                       *)
EXTENDS Integers

CONSTANTS Addrs, None

VARIABLES lease,     \* time left of the lease a server holds for the client
          inUse,     \* the address in use, or None
          settled    \* the client relies on the address

leaseVars == <<lease, inUse, settled>>

Init ==
  /\ lease = [a \in Addrs |-> 0]
  /\ inUse = None
  /\ settled = FALSE

(* A server grants or prolongs a lease; it does not take time back.        *)
Grant ==
  \E a \in Addrs :
    /\ lease'[a] >= lease[a]
    /\ lease' = [lease EXCEPT ![a] = lease'[a]]
    /\ UNCHANGED <<inUse, settled>>

Elapse ==
  /\ settled => lease[inUse] > 1
  /\ lease' = [a \in Addrs |-> IF lease[a] > 0 THEN lease[a] - 1 ELSE 0]
  /\ UNCHANGED <<inUse, settled>>

Take ==
  \E a \in Addrs :
    /\ lease[a] > 0
    /\ inUse' = a
    /\ settled' \in BOOLEAN
    /\ UNCHANGED lease

(* The address may stay on the interface, but it is not relied on.         *)
Unsettle ==
  /\ inUse' \in {inUse, None}
  /\ settled' = FALSE
  /\ UNCHANGED lease

Next == Grant \/ Elapse \/ Take \/ Unsettle

Spec == Init /\ [][Next]_leaseVars
=============================================================================
