--------------------------- MODULE MCNotifications ---------------------------
(* An instance of Notifications for TLC. *)
EXTENDS Notifications

(* Two builds of one commit; the first is retried once, and ends otherwise. *)
OneTarget == {<<"github_status", "github_status">>}
FirstRetried == << <<"failed", "succeeded">>, <<"failed">> >>
=============================================================================
