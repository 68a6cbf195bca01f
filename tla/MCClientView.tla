----------------------------- MODULE MCClientView -----------------------------
(* Small instance of ClientView: two sites besides YouTube, one of them the  *)
(* search engine, two submits of the form under way at the same time, and    *)
(* two events that have not been handled, so that one is of an earlier page. *)
EXTENDS ClientView

CONSTANTS site1, site2, youtube, empty

MCSites == {site1, site2}
MCSubmits == {1, 2}
MCMaxNotices == 2
=============================================================================
