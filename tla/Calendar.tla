------------------------------ MODULE Calendar ------------------------------
(***************************************************************************)
(* The two parts of the server that read a wall clock, under one clock:    *)
(* report schedules and maintenance windows.  Windows have no state of     *)
(* their own: whether one covers an instant is computed anew each time.    *)
(***************************************************************************)
EXTENDS Reports, Silences

CONSTANT Windows    \* the maintenance windows users have set

ASSUME WindowsAssumption == Windows \subseteq Once \cup Weekly \cup Monthly

\* Per instant, whether the search and the reference agree on every window.
Agreement ==
  {<<t, \A w \in Windows : OnTheEdge(w) \/ Disputed(w, t) \/ (Covers(w, t) <=> Open(w, t))>> :
     t \in 0..MaxNow}

\* A maintenance window covers exactly the instants from its opening by the wall clock to the
\* end of its duration, over midnight, over several days and through changes of the clocks:
\* "dure deux heures pleines meme la nuit ou l'horloge recule".  The instants on which the
\* code contradicts its documents are left out; OpensAsClockResumes is about those.
WindowsComplete == <<now, TRUE>> \in Agreement

\* Per instant, whether every window that opens then, by the documents, covers it.
Resumption ==
  {<<t, \A w \in Windows : w.kind = "once" \/ \A date \in Around(w, t) :
          t \in Openings(w, date) => Covers(w, t)>> : t \in 0..MaxNow}

\* A window whose opening time does not exist opens as soon as the clock resumes, as the
\* comment of instant_at ("l'heure qui n'existe pas [...] ouvre la fenetre des que l'horloge
\* repart") and the guide ("the window opens as soon as the clock resumes") have it.
OpensAsClockResumes == <<now, TRUE>> \in Resumption
=============================================================================
