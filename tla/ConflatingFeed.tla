--------------------------- MODULE ConflatingFeed ---------------------------
(***************************************************************************)
(* What the discovery side promises the job manager: every source has a    *)
(* newest group (numbered by version), the consumer sees versions of a     *)
(* source in increasing order, versions may be skipped (a newer group      *)
(* replaces an older one that was not sent yet), several sources may       *)
(* arrive in one batch, and as long as the feed runs a source with news is *)
(* delivered eventually.                                                   *)
(***************************************************************************)
EXTENDS Naturals

CONSTANT Source

VARIABLES latest,   \* newest version published, per source
          seen,     \* newest version the consumer has, per source
          stopped   \* the feed is being shut down

vars == <<latest, seen, stopped>>

Init == /\ latest = [s \in Source |-> 0]
        /\ seen = [s \in Source |-> 0]
        /\ stopped = FALSE

Publish(S) == /\ latest' = [s \in Source |-> IF s \in S THEN latest[s] + 1 ELSE latest[s]]
              /\ UNCHANGED <<seen, stopped>>

\* The versions published so far.
Published == UNION {0..latest[s] : s \in Source}

\* A batch with news of the sources in S; an empty batch changes nothing.
Deliver(S) == /\ seen' \in [Source -> Published]
              /\ \A s \in Source : IF s \in S THEN seen[s] < seen'[s] /\ seen'[s] <= latest[s]
                                              ELSE seen'[s] = seen[s]
              /\ UNCHANGED <<latest, stopped>>

Stop == /\ stopped' = TRUE
        /\ UNCHANGED <<latest, seen>>

Next == \/ \E S \in SUBSET Source : Publish(S) \/ Deliver(S)
        \/ Stop

\* News of s is delivered, alone or with news of other sources.
DeliverNews(s) == /\ ~stopped
                  /\ \E S \in SUBSET Source : s \in S /\ Deliver(S)

Safety == Init /\ [][Next]_vars

Spec == Safety /\ \A s \in Source : WF_vars(DeliverNews(s))
=============================================================================
