------------------------ MODULE MCIncidentResponse --------------------------
(* Services of the API for TLC, side by side.  IncidentResponse: a scan     *)
(* with two findings and one with one.  ThreatAnalysis: short lists of      *)
(* restore points.  Access as in MCAccess.                                  *)
EXTENDS IncidentResponse, ThreatAnalysis, MCAccess

CONSTANTS r1, r2, s1, s2, f1, f2, f3

MCScanOf == (f1 :> s1) @@ (f2 :> s1) @@ (f3 :> s2)

(* Requests are alike, and so are the two findings of the first scan. *)
Symmetry == Permutations({r1, r2}) \cup Permutations({f1, f2})

(* Entropies and counts of files on both sides of every threshold, a known  *)
(* extension, and points with and without a date.                           *)
MCFiles == {<<0, 0, FALSE>>, <<4, 1, FALSE>>, <<5, 1, FALSE>>, <<5, 1, TRUE>>}

MCMetadata ==
    {[entropy |-> e, total |-> f[1], renamed |-> f[2], extension |-> f[3],
      created |-> d] : e \in {60, 75, 79}, f \in MCFiles, d \in 0..2}

(* The services share no state: a behaviour is of one of them.              *)
MCInit  == Init /\ AnalysisInit /\ AccessInit

MCNext ==
    \/ /\ answer = NoAnswer /\ served = 0
       /\ Next /\ UNCHANGED <<posted, answer, accessVars>>
    \/ /\ answer = NoAnswer /\ served = 0 /\ Init
       /\ AnalysisNext /\ UNCHANGED <<vars, accessVars>>
    \/ /\ answer = NoAnswer /\ Init
       /\ AccessNext /\ UNCHANGED <<vars, posted, answer>>

MCSpec == MCInit /\ [][MCNext]_<<vars, posted, answer, accessVars>>

=============================================================================
