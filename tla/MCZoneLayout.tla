---------------------------- MODULE MCZoneLayout ----------------------------
(* The real sizes, on the page sizes Linux has (and one large enough that  *)
(* n_blocks meets its cap), at two page-aligned addresses.                 *)
EXTENDS ZoneLayout

MCMachines ==
  {[page_size |-> p, base |-> p * b] : p \in {4096, 16384, 65536, 262144}, b \in {1, 3}}
=============================================================================
