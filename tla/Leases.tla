------------------------------- MODULE Leases -------------------------------
(***************************************************************************)
(* What the control plane's allocators promise: a thing is leased to one    *)
(* holder at a time, a holder has the same one for as long as it holds any, *)
(* and none is returned while its holder uses it.  The subnet blocks of     *)
(* nodes (module Network) and the ClusterIPs and NodePorts of services      *)
(* (module Services) are shown to be leased in this way.                    *)
(***************************************************************************)
CONSTANTS Holder,       \* who may hold something
          Thing,        \* what may be held
          NoEntry       \* nothing

VARIABLES lease,        \* what each holder holds, or NoEntry
          inUse         \* what each holder uses, or NoEntry

leaseVars == <<lease, inUse>>

\* Leases may be there from before; nothing is used yet.
LeaseInit ==
  /\ lease \in [Holder -> Thing \cup {NoEntry}]
  /\ \A h, k \in Holder : h # k /\ lease[h] # NoEntry => lease[h] # lease[k]
  /\ inUse = [h \in Holder |-> NoEntry]

\* A holder without a lease gets something nobody holds.
Grant(h) ==
  /\ lease[h] = NoEntry
  /\ \E x \in Thing : /\ \A k \in Holder : lease[k] # x
                      /\ lease' = [lease EXCEPT ![h] = x]
  /\ UNCHANGED inUse

\* It starts to use what it holds, ...
Use(h) ==
  /\ lease[h] # NoEntry
  /\ inUse' = [inUse EXCEPT ![h] = lease[h]]
  /\ UNCHANGED lease

\* ... stops using it, ...
Drop(h) ==
  /\ inUse' = [inUse EXCEPT ![h] = NoEntry]
  /\ UNCHANGED lease

\* ... and gives it back.
Return(h) ==
  /\ inUse[h] = NoEntry
  /\ lease' = [lease EXCEPT ![h] = NoEntry]
  /\ UNCHANGED inUse

LeaseNext == \E h \in Holder : Grant(h) \/ Use(h) \/ Drop(h) \/ Return(h)

LeaseSpec == LeaseInit /\ [][LeaseNext]_leaseVars

\* What follows from it: no two holders use the same thing.
UsedByOne == \A h, k \in Holder : h # k /\ inUse[h] # NoEntry => inUse[h] # inUse[k]
=============================================================================
