---------------------------- MODULE MCSocialPosts ----------------------------
(* Instances of SocialPosts for TLC. *)
EXTENDS SocialPosts, TLC

MCAny    == {TRUE, FALSE}
MCQuoted == {TRUE}

=============================================================================
