---------------------------- MODULE MCDhcpLeases ----------------------------
(* Small instances of DhcpLeases. *)
EXTENDS DhcpLeases

\* DHCP on, without a firewall.
OnlyOn ==
  {[enabled |-> TRUE, mode |-> "off", allowMacs |-> {}, allowVmids |-> {},
    denyMacs |-> {}, denyVmids |-> {}]}
=============================================================================
