--------------------------- MODULE BundleHistory ---------------------------
(***************************************************************************)
(* The bundles a node collected, over all of its blocks.  The state holds  *)
(* the pending one only (state/src/lib.rs, bundle): locked is a history of *)
(* it that no process keeps, added to module Node for what must hold of    *)
(* any two of them.                                                        *)
(***************************************************************************)
EXTENDS NodeProperties

VARIABLE locked         \* the bundles that were pending in a committed state

Pending(st) == IF st.bundle = None THEN {} ELSE {st.bundle}

LockedInit == Init /\ locked = {}

LockedNext == Next /\ locked' = locked \cup Pending(db')

LockedSpec == LockedInit /\ [][LockedNext]_<<vars, locked>> /\ WF_vars(HandlerStep)

(***************************************************************************)
(* Whatever calls fail and wherever the process ends: no withdrawal is in  *)
(* two bundles that blocks of the chain collected, and none of a bundle    *)
(* that the mainchain paid, or may still pay, is in the utxo set again: no *)
(* later block collects it, refunds it or lets a transaction spend it.     *)
(***************************************************************************)
CollectedOnce ==
  /\ \A b, c \in locked : b # c => ToSet(b) \cap ToSet(c) = {}
  /\ \A b \in locked \ failed : ToSet(b) \cap db.utxos = {}
=============================================================================
