---------------------------- MODULE MCTrieShared ----------------------------
(***************************************************************************)
(* Four keys written at once.  The second and the third have the same      *)
(* value and end alike, so that one node stands for the ends of both; the  *)
(* fourth splits that node.                                                *)
(***************************************************************************)
EXTENDS TrieDB

SharedValues == (<<17, 17>> :> {"u"}) @@ (<<33, 17>> :> {"v"}) @@ (<<49, 17>> :> {"v"}) @@ (<<49, 18>> :> {"w"})
=============================================================================
