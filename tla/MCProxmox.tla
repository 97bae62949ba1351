------------------------------ MODULE MCProxmox ------------------------------
(***************************************************************************)
(* The instance of Proxmox that TLC checks.                                *)
(***************************************************************************)
EXTENDS Proxmox, TLC

\* Requests are alike, and so are passwords; the nodes are not, since one is local.
Alike == Permutations(Handler) \cup Permutations(Password)
=============================================================================
