---------------------------- MODULE MCBrowserPage ----------------------------
(* Small instances of BrowserPage for TLC. *)
EXTENDS BrowserPage

Symmetry == Permutations(Accounts)
=============================================================================
