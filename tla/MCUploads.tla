----------------------------- MODULE MCUploads ------------------------------
(* The instance of Uploads for TLC.                                        *)
EXTENDS Uploads, TLC

\* One user in two chats.
Chats == {"chat1", "chat2"}

People == {"user"}

TheUser == [c \in Chats |-> "user"]

\* Chunks of 4 that overlap by 1, a tail of 2: one that is shorter than the
\* tail, and two chunks and a tail of which the header knows only the first.
Recordings == {[header |-> 2, stream |-> Unknown], [header |-> 4, stream |-> 8]}
=============================================================================
