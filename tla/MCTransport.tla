----------------------------- MODULE MCTransport -----------------------------
(***************************************************************************)
(* Transport as an implementation of Session.                              *)
(***************************************************************************)
EXTENDS Transport

\* The client keeps every accepted packet until a server has it or a reset is
\* counted, and the server can restore the order with a window of buffers.
Promise ==
  INSTANCE Session WITH Span <- WndMaxCount, held <- Held

KeepsPromise == Promise!Spec
=============================================================================
