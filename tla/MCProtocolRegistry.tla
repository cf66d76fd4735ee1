------------------------- MODULE MCProtocolRegistry -------------------------
(* Every version list of protocol/admin.py and protocol/group.py.           *)
EXTENDS ProtocolRegistry

MCApis == DOMAIN Registry

=============================================================================
