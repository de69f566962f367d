------------------------------- MODULE Session -------------------------------
(***************************************************************************)
(* What the P7 client promises about the data packets it accepts, without  *)
(* IDs, windows, reports or retransmissions.  A packet is the number under *)
(* which it was accepted.  The client holds a packet until a server has    *)
(* it; the only other way to let go of packets is to drop all of them and  *)
(* count a reset.  The server never needs more than a window of packets to *)
(* put them back in order.                                                 *)
(***************************************************************************)
EXTENDS Integers

CONSTANTS
  Span,       \* packets that may overtake one another: the window
  ResetWrap   \* where the reset counter wraps around

VARIABLES
  accepted,   \* number of packets accepted
  held,       \* packets the client still holds
  received,   \* packets that have reached a server
  connected,  \* does the client accept packets?
  resets      \* the reset counter that users of the client watch

vars == <<accepted, held, received, connected, resets>>

Init ==
  /\ accepted = 0
  /\ held = {}
  /\ received = {}
  /\ connected = TRUE
  /\ resets = 0

CountReset == resets' = (resets + 1) % ResetWrap

Accept ==
  /\ connected
  /\ accepted' = accepted + 1
  /\ held' = held \cup {accepted + 1}
  /\ UNCHANGED <<received, connected, resets>>

\* The server takes packet n, at most a window ahead of the first it lacks.  A
\* late copy of a packet that is no longer held may come at any moment.
Deliver(n) ==
  /\ n \in held => \A m \in held \ received : n < m + Span
  /\ received' = received \cup {n}
  /\ UNCHANGED <<accepted, held, connected, resets>>

\* The client frees packets, all of which the server has.
Release(S) ==
  /\ S \subseteq received
  /\ held' = held \ S
  /\ UNCHANGED <<accepted, received, connected, resets>>

\* Everything is dropped; the users are told.
Drop ==
  /\ held' = {}
  /\ CountReset
  /\ UNCHANGED <<accepted, received, connected>>

Disconnect ==
  /\ connected
  /\ connected' = FALSE
  /\ UNCHANGED <<accepted, held, received, resets>>

\* A connection comes back empty-handed.
Connect ==
  /\ ~connected
  /\ held = {}
  /\ connected' = TRUE
  /\ CountReset
  /\ UNCHANGED <<accepted, held, received>>

Next ==
  \/ Accept
  \/ \E n \in 1 .. accepted : Deliver(n)
  \/ \E S \in SUBSET held : Release(S)
  \/ Drop
  \/ Disconnect
  \/ Connect

Spec == Init /\ [][Next]_vars
=============================================================================
