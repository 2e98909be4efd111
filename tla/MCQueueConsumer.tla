---------------------------- MODULE MCQueueConsumer ----------------------------
(* Small instances of QueueConsumer. *)
EXTENDS QueueConsumer

CONSTANTS c1, c2

\* One message without JSON between two that must be written.
WithUnparseable == <<"event", "unparseable", "event">>

\* Two events, and one that JSON parses but process_event() cannot read.
EventsAndNoObject == <<"event", "notobject", "event">>
=============================================================================
