---------------------------- MODULE MCRegistration ----------------------------
(***************************************************************************)
(* The registration with two of the subscribers.                           *)
(***************************************************************************)
EXTENDS Registration

\* The blacklist's subscriber and the one that falls back on the northbound credentials.
MCSubscriberOrder == <<"policy", "operational">>
=============================================================================
