--------------------------- MODULE MCJobRepository ---------------------------
(* Instances of JobRepository small enough for TLC. *)
EXTENDS JobRepository, TLC

\* Tenants are interchangeable: only their caps and flags matter.
TenantSymmetry == Permutations(Tenants)

\* One broadcast, and a batch to two platforms.
StreamRequests == {<<"stream">>, <<"stream", "stream">>}
\* Jobs of every kind, one at a time.
SingleRequests == {<<"stream">>, <<"local">>, <<"legacy">>, <<"import">>}

\* No action and no property reads the schedule or the position of an ended
\* job, nor which of its runtimes were confirmed gone: states that differ only
\* there have the same future.
LiveView ==
    <<now, enabled,
      [j \in Jobs |->
          IF state[j] \in Nonterminal
          THEN <<plan[j], state[j], attempt[j], progress[j], cancel[j], secret[j],
                 nextRun[j], lease[j], token[j], runtime[j], attempt[j] \in cleaned[j]>>
          ELSE <<state[j], cancel[j], secret[j], runtime[j]>>]>>
=============================================================================
