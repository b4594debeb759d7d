----------------------------- MODULE MCProxyLoop ------------------------------
(* ProxyLoop on small instances.  ClientState addresses are interchangeable: *)
(* no definition orders them, so permuting them is a symmetry.  Descriptors  *)
(* are not, because the kernel hands out the lowest free one.                *)
EXTENDS ProxyLoop, TLC

AddrSymmetry == Permutations(Addr)
=============================================================================
