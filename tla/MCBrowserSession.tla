-------------------------- MODULE MCBrowserSession --------------------------
(* Small instances of signing in and out.                                  *)
EXTENDS BrowserSession, TLC

(* Tabs, sessions and requests are alike.                                  *)
Symmetry == Permutations(Tabs) \cup Permutations(Sessions) \cup Permutations(Calls)
=============================================================================
