---------------------------- MODULE MCPullEngine ----------------------------
(***************************************************************************)
(* Small instances of PullEngine: one peer whose two domains come through  *)
(* one folder, as personal and finance do.                                 *)
(***************************************************************************)
EXTENDS PullEngine

OneFolder == [d \in Domains |-> 1]
TwoFolders == [d \in Domains |-> d]
=============================================================================
