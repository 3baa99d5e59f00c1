---------------------------- MODULE Transactions -----------------------------
(***************************************************************************)
(* The transactions the Odoo models run in: one per RPC call, at           *)
(* PostgreSQL's REPEATABLE READ.  A call reads the database as it was when *)
(* the transaction opened; it commits only if no row it writes or locks    *)
(* with SELECT ... FOR UPDATE was written by a transaction that committed  *)
(* since.  A row it merely reads may have changed meanwhile.               *)
(*                                                                         *)
(* A module that extends this one keeps the database in a variable of its  *)
(* own, evaluates the guards of a call on the member of tx[s], and applies *)
(* what the call writes to the present database when the call commits.     *)
(***************************************************************************)
CONSTANT
  Session         (* concurrent database sessions                          *)

VARIABLES
  tx,             (* the snapshot of a session's open transaction, or {}   *)
  stale           (* rows written by others since that snapshot            *)

NoTransaction ==
  /\ tx = [s \in Session |-> {}]
  /\ stale = [s \in Session |-> {}]

Opened(s, database) ==
  /\ tx[s] = {}
  /\ tx' = [tx EXCEPT ![s] = {database}]
  /\ UNCHANGED stale

(* Faulty variant: READ COMMITTED, where a blocked UPDATE goes through     *)
(* after the other transaction's.                                          *)
Committed_Overwrites(s, locked, written) ==
  /\ tx' = [tx EXCEPT ![s] = {}]
  /\ stale' = [t \in Session |->
                 IF t = s \/ tx[t] = {} THEN {} ELSE stale[t] \cup written]

Committed(s, locked, written) ==
  /\ stale[s] \cap (locked \cup written) = {}
  /\ tx' = [tx EXCEPT ![s] = {}]
  /\ stale' = [t \in Session |->
                 IF t = s \/ tx[t] = {} THEN {} ELSE stale[t] \cup written]

(* A UserError, a serialization failure, a lost connection, or a call that *)
(* only read.                                                              *)
RolledBack(s) ==
  /\ tx[s] # {}
  /\ tx' = [tx EXCEPT ![s] = {}]
  /\ stale' = [stale EXCEPT ![s] = {}]
==============================================================================
