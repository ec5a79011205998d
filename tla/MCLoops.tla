------------------------------- MODULE MCLoops -------------------------------
(* The components of Loops, small instances for TLC, with the fairness of each. *)
EXTENDS Loops

\* Each component is as fair as its own module says.  As focus never changes, fairness of a
\* disjunction of steps of several components is fairness of each under its own focus, and
\* TLC has fewer conditions to check.
Weak1 == \/ PSStep(PS!Worker("New"))
         \/ DOStep(DO!Tick)
         \/ DMStep(DM!Main)
         \/ HVStep(HV!Ask)
Weak2 == \/ PSStep(PS!Worker("StartServer"))
         \/ DOStep(\E m \in DO!Heartbeats : DO!Read(m))
         \/ DMStep(DM!HupTaken)
         \/ HVStep(HV!Reader)
Weak3 == \/ DOStep(\E m \in DO!Heartbeats : DO!Drain(m))
         \/ DMStep(DM!HupElapses)
         \/ HVStep(HV!Recover("h1"))
Weak4 == \/ DMStep(DM!HupSends)
         \/ HVStep(HV!Recover("h2"))
Weak5 == DMStep(DM!Fallback)
WeakRetry(l) == DMStep(DM!Retry(l))

Strong1 == \/ DOStep(DO!Return)
           \/ HVStep(HV!Serve)
           \/ DMStep(DM!Subscribe("puppet"))
Strong(l) == DMStep(DM!Subscribe(l))

Fairness ==
    /\ WF_vars(Weak1) /\ WF_vars(Weak2) /\ WF_vars(Weak3) /\ WF_vars(Weak4)
    /\ WF_dmVars(Weak5) /\ \A l \in DM!Listeners : WF_dmVars(WeakRetry(l))
    /\ SF_vars(Strong1) /\ \A l \in DM!Listeners \ {"puppet"} : SF_dmVars(Strong(l))

FairSpec == Init /\ [][Next]_vars /\ Fairness
==============================================================================
