------------------------------ MODULE MCHandoff ------------------------------
(* Handoff for TLC.                                                          *)
EXTENDS Handoff

Deployment(overlap, reply_loss, matchmakers, max_tokens, max_crashes) ==
  [overlap |-> overlap, reply_loss |-> reply_loss, matchmakers |-> matchmakers,
   max_tokens |-> max_tokens, max_crashes |-> max_crashes]

\* One process after the other with a crash of a shard, or two at once with two
\* matchmakers and lost replies.
Sequential == Deployment(FALSE, FALSE, 1, 3, 1)
Concurrent == Deployment(TRUE, TRUE, 2, 3, 0)

MCDeployments == {Sequential, Concurrent}
=============================================================================
