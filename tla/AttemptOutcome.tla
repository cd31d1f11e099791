--------------------------- MODULE AttemptOutcome ---------------------------
(***************************************************************************)
(* What the dispatch of a buyer search promises whoever started it: every  *)
(* attempt comes to one verdict, at most once, and a report of an attempt, *)
(* when there is one, is its verdict.  "never" is the verdict that the     *)
(* attempt was not issued and will not be.                                 *)
(***************************************************************************)
CONSTANTS Attempts

VARIABLES
    verdict,    \* per attempt, "open" or its verdict
    report      \* per attempt, "none" or what was reported of it

Verdicts == {"never", "cancelled", "failed", "completed"}

Init ==
    /\ verdict = [a \in Attempts |-> "open"]
    /\ report = [a \in Attempts |-> "none"]

\* Some attempts are decided: one that is issued may decide its rivals too.
Decide ==
    /\ verdict' \in [Attempts -> Verdicts \cup {"open"}]
    /\ \A a \in Attempts : verdict[a] # "open" => verdict'[a] = verdict[a]
    /\ UNCHANGED report

Report(a) ==
    /\ verdict[a] # "open"
    /\ report[a] = "none"
    /\ report' = [report EXCEPT ![a] = verdict[a]]
    /\ UNCHANGED verdict

Next == Decide \/ \E a \in Attempts : Report(a)

Spec == Init /\ [][Next]_<<verdict, report>>
=============================================================================
