------------------------------ MODULE Membership ------------------------------
(***************************************************************************)
(* What the packets of clients may rely on, whatever the controller does:   *)
(* a slot of backends_map is nobody's or one backend's and never goes from  *)
(* one backend to another without having been nobody's in between; and a    *)
(* service is given a virtual IP once, one that no other service has, from   *)
(* a block of max_services addresses.                                       *)
(***************************************************************************)
EXTENDS Integers

CONSTANTS
    Backend,   \* addresses of backends
    Nobody,    \* the address of a slot that is not active
    Id,        \* slots
    Service,
    Vip,       \* the block of virtual IPs
    NoVip

VARIABLES
    member,    \* Id -> the backend that packets for the slot are sent to
    vip        \* Service -> its virtual IP

vars == <<member, vip>>

Init ==
    /\ member = [i \in Id |-> Nobody]
    /\ vip = [s \in Service |-> NoVip]

Join(i, p) ==
    /\ member[i] = Nobody
    /\ member' = [member EXCEPT ![i] = p]

Leave(i) ==
    /\ member[i] # Nobody
    /\ member' = [member EXCEPT ![i] = Nobody]

Assign(s, v) ==
    /\ vip[s] = NoVip
    /\ \A t \in Service : vip[t] # v
    /\ vip' = [vip EXCEPT ![s] = v]

\* A registration may assign an address and fill a slot in one step.
SlotStep ==
    \/ \E i \in Id : Leave(i) \/ \E p \in Backend : Join(i, p)
    \/ UNCHANGED member

VipStep ==
    \/ \E s \in Service, v \in Vip : Assign(s, v)
    \/ UNCHANGED vip

Next == SlotStep /\ VipStep

Spec == Init /\ [][Next]_vars
=============================================================================
