----------------------------- MODULE MCBgThread -----------------------------
(* BgThread on small rings; the threads are model values. *)
EXTENDS BgThread, TLC

=============================================================================
