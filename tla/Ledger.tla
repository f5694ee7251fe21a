------------------------------- MODULE Ledger -------------------------------
(***************************************************************************)
(* What placement promises, without how: devices are leased.  A lease gets *)
(* all its devices at once, keeps exactly those until it is over, shares   *)
(* none of them meanwhile, and never comes back.  Module Head implements   *)
(* this with its placement groups as the leases.                           *)
(***************************************************************************)
CONSTANTS Leases, Devices

VARIABLE lease   \* lease id -> its state and the devices it holds

NoLease  == [state |-> "free", devices |-> {}]
Wanted   == [state |-> "wanted", devices |-> {}]
Over     == [state |-> "over", devices |-> {}]
Held(ds) == [state |-> "held", devices |-> ds]

\* What one step may do to one lease.
MayBecome(old, new) ==
  \/ new = old
  \/ old = NoLease /\ new = Wanted
  \/ old \in {NoLease, Wanted} /\ \E ds \in SUBSET Devices : new = Held(ds)
  \/ old # NoLease /\ new = Over

Init == lease = [l \in Leases |-> NoLease]

\* A step may end some leases and grant others, the devices of the former too.
Next ==
  /\ DOMAIN lease' = Leases
  /\ \A l \in Leases : MayBecome(lease[l], lease'[l])
  /\ \A l, m \in Leases : l # m => lease'[l].devices \cap lease'[m].devices = {}

Spec == Init /\ [][Next]_lease
=============================================================================
