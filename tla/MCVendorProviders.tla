-------------------------- MODULE MCVendorProviders --------------------------
(***************************************************************************)
(* VendorProviders for TLC.  Calls are compared for equality only.  The    *)
(* bounds differ by vendor: a page of Neon holds one entry, so that a      *)
(* listing takes several requests; Neon and Upstash may handle a request   *)
(* late; a request is sent again to Upstash.                               *)
(***************************************************************************)
EXTENDS VendorProviders, TLC

MCMaxSends == [v \in Vendors |-> IF v = "upstash" THEN 2 ELSE 1]
MCMaxAdrift == [v \in Vendors |-> IF v = "cloudflare" THEN 0 ELSE 1]
MCNoneAdrift == [v \in Vendors |-> 0]
MCPageSize == [v \in Vendors |-> IF v = "neon" THEN 1 ELSE Cardinality(Ids)]
Renamings == Permutations(Calls)

=============================================================================
