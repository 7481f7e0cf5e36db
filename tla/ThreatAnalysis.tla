--------------------------- MODULE ThreatAnalysis ---------------------------
(***************************************************************************)
(* The clean restore point the API recommends                              *)
(* (apps/api/src/services/threat_analysis.py, and the route                *)
(* POST /analyze-restore-points of routers/threat_intel.py).  An appliance *)
(* posts metadata of restore points, oldest first as it is told to, and    *)
(* nothing sorts the list.  Entropies are in tenths of a bit per byte.     *)
(***************************************************************************)
EXTENDS Integers, Sequences, FiniteSets

CONSTANTS
    Metadata,   \* metadata a restore point may come with
    MaxPoints   \* bound: restore points in a request (500 in the code)

ASSUME AnalysisAssumption ==
    /\ \A rp \in Metadata :
          /\ rp.entropy \in 0..80
          /\ rp.total \in Nat /\ rp.renamed \in Nat
          /\ rp.extension \in BOOLEAN
          /\ rp.created \in Nat        \* 0 stands for None
    /\ MaxPoints \in Nat

Dated(rp) == rp.created # 0

VARIABLES
    posted,     \* the list of the request
    answer      \* what it was answered

NoAnswer == [flagged |-> -1, recommended |-> 0]

EncryptedThreshold == 79
SpikeDelta         == 15

SeverityOrder == [none |-> 0, low |-> 1, medium |-> 2, high |-> 3, critical |-> 4]

(* The entropies before point k, and the upper one of their medians. *)
Baseline(rps, k) ==
    LET below(x) == Cardinality({i \in 1..(k - 1) : rps[i].entropy < x})
        upto(x)  == Cardinality({i \in 1..(k - 1) : rps[i].entropy <= x})
    IN  CHOOSE x \in {rps[i].entropy : i \in 1..(k - 1)} :
            below(x) <= (k - 1) \div 2 /\ (k - 1) \div 2 < upto(x)

(* Variant: a jump in entropy weighs as much as encryption. *)
EntropyIndicatorsSevere(rps, k) ==
    IF rps[k].entropy >= EncryptedThreshold THEN {"high"}
    ELSE IF k > 1 /\ rps[k].entropy - Baseline(rps, k) >= SpikeDelta THEN {"high"}
    ELSE {}

EntropyIndicators(rps, k) ==
    IF rps[k].entropy >= EncryptedThreshold THEN {"high"}
    ELSE IF k > 1 /\ rps[k].entropy - Baseline(rps, k) >= SpikeDelta THEN {"medium"}
    ELSE {}

(* A quarter of the files renamed, and an extension known of ransomware.   *)
FileIndicators(rp) ==
    (IF rp.total > 0 /\ 4 * rp.renamed >= rp.total THEN {"high"} ELSE {})
      \cup (IF rp.extension THEN {"critical"} ELSE {})

Indicators(rps, k) == EntropyIndicators(rps, k) \cup FileIndicators(rps[k])

IsClean(rps, k) ==
    \A i \in Indicators(rps, k) : SeverityOrder[i] < SeverityOrder["high"]

(* select_clean_restore_point: the first of the clean points with the      *)
(* latest date, 0 if there is none.  A point without a date counts as      *)
(* older than every point with one, and max() keeps the first of several.  *)
SelectClean(rps) ==
    LET clean == {k \in DOMAIN rps : IsClean(rps, k)}
    IN  IF clean = {} THEN 0
        ELSE CHOOSE k \in clean : \A j \in clean :
                \/ rps[j].created < rps[k].created
                \/ rps[j].created = rps[k].created /\ k <= j

(* POST /analyze-restore-points: a longer list is refused, and nothing is  *)
(* kept of any.                                                            *)
AnalyzeRestorePoints(rps) ==
    /\ Len(rps) <= MaxPoints
    /\ posted' = rps
    /\ answer' = [flagged     |-> Cardinality({k \in DOMAIN rps : ~IsClean(rps, k)}),
                  recommended |-> SelectClean(rps)]

Lists == UNION {[1..n -> Metadata] : n \in 0..MaxPoints}

AnalysisInit == posted = <<>> /\ answer = NoAnswer

AnalysisNext == \E rps \in Lists : AnalyzeRestorePoints(rps)

AnalysisSpec == AnalysisInit /\ [][AnalysisNext]_<<posted, answer>>

SignsOfEncryption(rp) ==
    rp.entropy >= EncryptedThreshold \/ FileIndicators(rp) # {}

(* A point is never recommended that carries a sign of encryption of its   *)
(* own, and a dated one without such a sign is not passed over for one     *)
(* that is older or has no date, whatever else is in the list and in       *)
(* whatever order it was posted.  When only points without a date are left *)
(* it is the one posted first, the oldest in a list that is "oldest first" *)
(* (the docstring would have the newest, by "input order"); no point is    *)
(* recommended only when all of them are flagged.                          *)
RecommendationIsRight ==
    answer # NoAnswer =>
        LET best == answer.recommended
        IN  /\ best = 0 <=> answer.flagged = Len(posted)
            /\ best # 0 => ~SignsOfEncryption(posted[best])
            /\ \A k \in DOMAIN posted : ~SignsOfEncryption(posted[k]) =>
                  /\ best # 0
                  /\ Dated(posted[k]) =>
                        Dated(posted[best]) /\ posted[k].created <= posted[best].created
                  /\ ~Dated(posted[best]) => best <= k
=============================================================================
