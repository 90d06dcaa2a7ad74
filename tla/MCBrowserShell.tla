--------------------------- MODULE MCBrowserShell ---------------------------
(* A small instance of BrowserShell. *)
EXTENDS BrowserShell, TLC

\* One line up or down.
OneLine == {-1, 1}

\* The identity of a tab does not matter.
TabSymmetry == Permutations(Tabs)
=============================================================================
