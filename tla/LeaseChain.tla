----------------------------- MODULE LeaseChain -----------------------------
(***************************************************************************)
(* The billing module of the chain, external, as fred and core use it: the *)
(* state of each lease, and the transactions callers have under way.  A    *)
(* caller has one blocking cosmosTx at a time, which TxExecution shows to  *)
(* reach the node at most once; a transaction whose caller gave up waiting *)
(* may still be executed later, or never.                                  *)
(***************************************************************************)
CONSTANTS Leases, Callers

VARIABLES
  lease,      \* the state of each lease
  tx,         \* the transaction a caller has in the mempool, or NoTx
  receipt     \* what its last transaction's execution said

chainVars == <<lease, tx, receipt>>

Terminal == {"closed", "rejected", "expired"}
LeaseStates == {"none", "pending", "active"} \cup Terminal
Kinds == {"create-lease", "cancel-lease", "close-lease", "set-item-custom-domain"}

NoTx == [kind |-> "none"]
Tx(kind, l) == [kind |-> kind, of |-> l]
Txs == {NoTx} \cup [kind : Kinds, of : Leases]

LeaseChainInit ==
  /\ lease = [l \in Leases |-> "none"]
  /\ tx = [c \in Callers |-> NoTx]
  /\ receipt = [c \in Callers |-> "none"]

LeaseChainTypeOK ==
  /\ lease \in [Leases -> LeaseStates]
  /\ tx \in [Callers -> Txs]
  /\ receipt \in [Callers -> {"none", "ok", "failed"}]

\* The node accepts a caller's transaction.
Submit(c, kind, l) ==
  /\ tx' = [tx EXCEPT ![c] = Tx(kind, l)]
  /\ receipt' = [receipt EXCEPT ![c] = "none"]
  /\ UNCHANGED lease

\* The transition a message makes, from the states it is legal in.
From(kind) == CASE kind = "create-lease" -> {"none"}
                [] kind = "cancel-lease" -> {"pending"}
                [] kind = "close-lease" -> {"active"}
                [] kind = "set-item-custom-domain" -> {"pending", "active"}
To(kind, s) == CASE kind = "create-lease" -> "pending"
                 [] kind = "cancel-lease" -> "rejected"
                 [] kind = "close-lease" -> "closed"
                 [] kind = "set-item-custom-domain" -> s

\* Included and executed: a message that finds its lease in another state
\* fails, and so may any other, for want of credit or gas.
Execute(c) ==
  /\ tx[c] # NoTx
  /\ tx' = [tx EXCEPT ![c] = NoTx]
  /\ \/ /\ lease[tx[c].of] \in From(tx[c].kind)
        /\ lease' = [lease EXCEPT ![tx[c].of] = To(tx[c].kind, @)]
        /\ receipt' = [receipt EXCEPT ![c] = "ok"]
     \/ /\ receipt' = [receipt EXCEPT ![c] = "failed"]
        /\ UNCHANGED lease

\* The mempool lets go of it.
Evict(c) ==
  /\ tx[c] # NoTx
  /\ tx' = [tx EXCEPT ![c] = NoTx]
  /\ UNCHANGED <<lease, receipt>>

\* The provider acknowledges a lease it provisions.
Acknowledge(l) ==
  /\ lease[l] = "pending"
  /\ lease' = [lease EXCEPT ![l] = "active"]
  /\ UNCHANGED <<tx, receipt>>

\* A lease ends by other hands: the provider rejects or closes it, it expires
\* unacknowledged, or its credit runs out.
Lapse(l) ==
  /\ \/ lease[l] = "pending" /\ \E s \in {"rejected", "expired"} :
                                  lease' = [lease EXCEPT ![l] = s]
     \/ lease[l] = "active" /\ lease' = [lease EXCEPT ![l] = "closed"]
  /\ UNCHANGED <<tx, receipt>>

\* What a read can show of a lease: a node that lags behind still shows a state
\* the lease has left.
Past(s) == CASE s = "none" -> {}
             [] s = "pending" -> {"none"}
             [] s \in {"active", "rejected", "expired"} -> {"none", "pending"}
             [] s = "closed" -> {"none", "pending", "active"}
Seen(l) == {lease[l]} \cup Past(lease[l])
=============================================================================
