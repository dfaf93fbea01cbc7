----------------------------- MODULE MCHitlPause -----------------------------
(***************************************************************************)
(* Values for the runs of HitlPause.                                       *)
(***************************************************************************)
EXTENDS HitlPause

run_1 == <<"run-1">>
privileged_step == <<"privileged-step">>

\* The treatment with a human who acts at any time, and the baseline with one who
\* acts at any time or only between workers, as in the lab.
TreatmentOnly == {<<"treatment", TRUE>>}
AllScenarios == TreatmentOnly \cup {<<"baseline", TRUE>>, <<"baseline", FALSE>>}

\* A worker may die anywhere.
Anywhere == {"pausing", "requesting", "saving", "looking", "recording", "committing"}
=============================================================================
