-------------------------- MODULE SubscriberClaims --------------------------
(* README.md:188: several arrays may come at once, get_results returns the   *)
(* first; "You have to handle the rest of data. see the subscriber.cpp file  *)
(* to know how to handle it".  What subscriber.cpp does with the rest:       *)
EXTENDS Subscriber

(* It comes to an end with it.  The loop of handle_subscribe_res does not    *)
(* when the rest is a part of an array.                                      *)
RestIsFinished == pc = "rest" ~> pc # "rest"

(* It drops none of it.  handle_subscribe_res parses a message that came     *)
(* with the acknowledgement, takes it for the last acknowledgement, and the  *)
(* subscription is given up.                                                 *)
RestIsHandled == pc = "done" => head <= 2 * (Channels + Len(handled))

(* It waits for the bytes that miss.  do_recv_msg returns NEED_MORE_DATA     *)
(* when a part of an array came behind a whole one.                          *)
RestIsAwaited == pc = "done" => code # "NEED_MORE_DATA"

=============================================================================
