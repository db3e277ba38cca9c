--------------------------- MODULE CollectorSteps ---------------------------
(* The vocabulary of the catalogue: the steps of one Collect, and the ways of *)
(* holding a session with the monitored application.  Module Collector gives  *)
(* these records their meaning.                                               *)
EXTENDS Integers, Sequences

----------------------------------------------------------------------------
(* Steps of Collect                                                           *)

Step(do, fail) ==
    [do |-> do, fail |-> fail, empty |-> "answer", once |-> FALSE, timer |-> 0]

Ask(fail)  == Step("ask", fail)         \* a request to the application
List(fail) == Step("list", fail)        \* a request that names the instances
Must       == Ask("error")              \* its failure ends Collect, with nothing
May        == Ask("ignored")            \* its failure is logged
Measured   == Ask("metric")             \* its failure is itself a metric
Local      == Ask("never")              \* asks nobody, cannot fail
Probe      == Step("probe", "ignored")  \* asks every seen instance; one that
                                        \* does not answer counts as unseen

\* A scrape of a Prometheus endpoint: a fetch that fails, a status that is not
\* OK and a body that cannot be parsed end Collect alike.
ScrapeSeries == List("error")

ResetMarks   == Step("reset", "none")   \* no instance is marked as seen
AddCharts    == Step("add", "none")     \* charts for the seen, untracked ones
RemoveCharts == Step("remove", "none")  \* tracked ones unseen for too long go
UpdateCharts == Step("update", "none")  \* both, in one loop over a map

Once(step)          == [step EXCEPT !.once = TRUE]      \* until it is answered
Timed(timer, step)  == [step EXCEPT !.timer = timer]    \* when the timer is due
Empty(what, step)   == [step EXCEPT !.empty = what]     \* an answer of nothing:
                                                        \* "answer", "bare" (an answer
                                                        \* that yields no metric),
                                                        \* "skips", "error", or, of
                                                        \* known instances, "scraped"

\* A request that names the instances, in the record for their kind.
Naming(kind, own, step) == IF kind = own THEN [step EXCEPT !.do = "list"] ELSE step

\* The usual body: a local set of seen names, charts added, then removed.
Seen(list) == <<ResetMarks, list, AddCharts, RemoveCharts>>

----------------------------------------------------------------------------
(* Sessions: where the client is made ("never": requests need none), whether  *)
(* making it contacts the application, whether the library reconnects by      *)
(* itself, whether it outlives the Collect, which failed requests make the    *)
(* module drop it, whether a failed opening leaves it open, and whether       *)
(* Cleanup closes it.                                                         *)

PerRequest == [needs |-> {}, at |-> "never", dials |-> FALSE, heals |-> TRUE, kept |-> TRUE,
               drops |-> "none", strays |-> FALSE, closes |-> TRUE]
Pool       == [PerRequest EXCEPT !.at = "collect"]
InitPool   == [PerRequest EXCEPT !.at = "init"]
ProbedPool == [Pool EXCEPT !.dials = TRUE]
\* pkg/socket: connected, asked line by line, and disconnected.
PerCollect == [ProbedPool EXCEPT !.heals = FALSE, !.kept = FALSE]
Held       == [ProbedPool EXCEPT !.heals = FALSE]
HeldUntilError   == [Held EXCEPT !.drops = "all"]
HeldUntilBroken  == [Held EXCEPT !.drops = "broken"]

(* What Init needs, besides a session, to succeed: valid "settings", what the *)
(* "host" provides (certificates, executables, name resolution), or that the  *)
(* "application" is there.                                                    *)

Needing(needs, session) == [session EXCEPT !.needs = needs]

TLSConfig   == {"host"}
HTTPClient  == {"settings"} \cup TLSConfig
HTTPRequest == {"settings"}

\* `checks` is the number of steps the Check runs, 0 where it is always true;
\* `limit` the rounds an instance may be unseen; `forgets` whether the removed
\* ones stop being tracked; `discovery` the steps that find the instances apart
\* from Collect.
Of(session, match, steps) ==
    [session |-> session, checks |-> Len(steps), steps |-> steps, match |-> match,
     limit |-> 1, forgets |-> TRUE, discovery |-> <<>>]

\* One request, the charts are fixed.
Plain(session, request) == Of(session, "exact", <<request>>)

\* Charts are added for what is seen and stay.
Growing(list) == <<ResetMarks, list, AddCharts>>
=============================================================================
