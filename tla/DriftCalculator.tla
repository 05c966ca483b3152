---------------------------- MODULE DriftCalculator ----------------------------
(***************************************************************************)
(* The drift scores (verisim-drift/src/calculator.rs) as integers: Unit is *)
(* 1.0, quotients are rounded down.  A division of zero by zero gives NaN, *)
(* which clamp leaves as it is.  Each action evaluates one function on     *)
(* some input; sample keeps the input and the score.                       *)
(*                                                                         *)
(* A cosine similarity is an input; the expected statistics of a tensor    *)
(* are not given.  Names are numbers, a name below Stranger is contained   *)
(* in the greater ones below Stranger, Stranger only in itself.            *)
(***************************************************************************)
EXTENDS Integers, Sequences, FiniteSets

CONSTANTS Similarities, Names, Stranger, Stamps, Hashes, MaxVersions,
          Dims, MaxRank, Gaps, PartScores, Required, Constraints

ASSUME CalculatorAssumption ==
    /\ Dims \subseteq Nat /\ Gaps \subseteq Nat /\ Stamps \subseteq Nat
    /\ MaxVersions \in Nat /\ MaxRank \in Nat /\ Constraints \in Nat

Unit == 3600
NaN == -1

ASSUME ScoreAssumption == PartScores \subseteq 0 .. Unit /\ Similarities \subseteq -Unit .. Unit

(* The smallest quotient that a score is made of is not rounded to zero,   *)
(* as it is not in the f64 of the code.                                    *)
ASSUME ResolutionAssumption ==
    /\ IsFiniteSet(Required) /\ 2 * Cardinality(Required) <= Unit
    /\ 2 * MaxVersions <= Unit /\ 2 * Constraints <= Unit
    /\ \A d \in Dims : 2 * MaxRank * d <= Unit
    /\ \A g \in Gaps : 4 * g <= Unit
    /\ \A x \in PartScores : x = 0 \/ x >= 10

VARIABLE sample

SeqsUpTo(S, n) == UNION {[1 .. k -> S] : k \in 0 .. n}

Clamp(x) == IF x < 0 THEN 0 ELSE IF x > Unit THEN Unit ELSE x

SumSeq(s) == LET Add[i \in 0 .. Len(s)] == IF i = 0 THEN 0 ELSE Add[i - 1] + s[i] IN Add[Len(s)]

CountIn(s, Test(_)) == Cardinality({i \in DOMAIN s : Test(s[i])})

Sampled(f, in, s) == sample' = [of |-> f, in |-> in, score |-> s]

CalcInit == sample = [of |-> "none", in |-> <<>>, score |-> 0]

(* The average similarity to the relevant type embeddings.                 *)
SemanticVectorDrift(sims) ==
    IF sims = <<>> THEN 0 ELSE Clamp(Unit - SumSeq(sims) \div Len(sims))

Holds(a, b) == a = b \/ (a < Stranger /\ b < Stranger /\ a > b)

GraphDocumentDrift_OneSided(entities, targets) ==
    IF entities = <<>> THEN 0
    ELSE LET matched == CountIn(entities, LAMBDA e : \E i \in DOMAIN targets :
                                  Holds(targets[i], e) \/ Holds(e, targets[i]))
         IN  Unit - (Unit * matched) \div Len(entities)

GraphDocumentDrift(entities, targets) ==
    IF entities = <<>> THEN 0
    ELSE LET matched == CountIn(entities, LAMBDA e : \E i \in DOMAIN targets :
                                  Holds(targets[i], e) \/ Holds(e, targets[i]))
             extra == CountIn(targets, LAMBDA t : ~\E i \in DOMAIN entities : Holds(t, entities[i]))
             coverage == (Unit * matched) \div Len(entities)
             ratio == IF targets = <<>> THEN 0 ELSE (Unit * extra) \div Len(targets)
         IN  Clamp((Unit - coverage + ratio) \div 2)

Deltas(ts) == [i \in 1 .. Len(ts) - 1 |-> ts[i + 1] - ts[i]]

(* The k-th smallest element of s, counted from 1.                         *)
Kth(s, k) ==
    s[CHOOSE i \in DOMAIN s : CountIn(s, LAMBDA x : x < s[i]) < k /\ CountIn(s, LAMBDA x : x <= s[i]) >= k]

LargeGap(ts) ==
    LET ds == Deltas(ts)
        median == Kth(ds, Len(ds) \div 2 + 1)
    IN  Len(ds) >= 3 /\ median > 0 /\ Kth(ds, Len(ds)) > median * 10

Duplicates(hs) == {h \in {hs[i] : i \in DOMAIN hs} : CountIn(hs, LAMBDA x : x = h) > 1}

(* Issues count in halves.                                                 *)
TemporalConsistencyDrift(ts, hs) ==
    IF Len(ts) < 2 THEN 0
    ELSE LET issues == 2 * CountIn(Deltas(ts), LAMBDA d : d < 0) + Cardinality(Duplicates(hs))
                         + (IF LargeGap(ts) THEN 1 ELSE 0)
         IN  Clamp((Unit * issues) \div (2 * Len(ts)))

Abs(x) == IF x < 0 THEN -x ELSE x

Rank2(e, a) == IF Len(e) > Len(a) THEN Len(e) ELSE Len(a)

(* The relative difference of one dimension: infinite or undefined when    *)
(* the expected one is zero.                                               *)
TensorDrift(e, a) ==
    LET common == 1 .. Len(e) + Len(a) - Rank2(e, a)
        Diff[i \in common] == (Unit * Abs(e[i] - a[i])) \div e[i]
    IN  CASE e = a -> 0
          [] e # a /\ \E i \in common : e[i] = 0 /\ a[i] = 0 -> NaN
          [] e # a /\ (\E i \in common : e[i] = 0) /\ ~(\E i \in common : e[i] = 0 /\ a[i] = 0) -> Unit
          [] OTHER -> Clamp(SumSeq([i \in common |-> Diff[i]]) \div (2 * Rank2(e, a)))

ProvenanceDrift(valid, length, gap, limit) ==
    IF ~valid THEN Unit
    ELSE LET over == (Unit * gap) \div limit - Unit
         IN  Clamp((IF length = 0 THEN Unit \div 2 ELSE 0)
                     + (IF limit > 0 /\ gap > limit
                        THEN (3 * (IF over > Unit THEN Unit ELSE over)) \div 10 ELSE 0))

SpatialDrift(coords, mentions, matches, valid) ==
    IF coords /\ ~valid THEN (9 * Unit) \div 10
    ELSE ((IF mentions /\ ~coords THEN 4 ELSE 0) + (IF coords /\ mentions /\ ~matches THEN 5 ELSE 0)
            + (IF coords /\ ~mentions THEN 1 ELSE 0)) * (Unit \div 10)

SchemaDrift(required, present, violations, constraints) ==
    Clamp((IF required = {} THEN 0
           ELSE (Unit * Cardinality(required \ present)) \div (2 * Cardinality(required)))
          + (IF constraints = 0 THEN 0 ELSE (Unit * violations) \div (2 * constraints)))

Parts == <<"semantic_vector", "graph_document", "temporal_consistency", "tensor", "schema",
           "provenance", "spatial">>

(* Weights in hundredths.                                                  *)
Weights == <<25, 25, 20, 15, 15>>

OctadWeights == <<20, 20, 15, 10, 10, 15, 10>>

Weighted(scores, weights) ==
    Clamp(SumSeq([i \in DOMAIN weights |-> scores[i] * weights[i]]) \div 100)

QualityDrift(scores) == Weighted(scores, Weights)

QualityDriftOctad(scores) == Weighted(scores, OctadWeights)

(* max_by keeps the last of several greatest scores.                       *)
PrimaryDriftType(scores) ==
    LET i == CHOOSE k \in DOMAIN scores :
               \A j \in DOMAIN scores : scores[j] < scores[k] \/ (scores[j] = scores[k] /\ j <= k)
    IN  Parts[i]

CalcNext ==
    \/ \E s \in SeqsUpTo(Similarities, 3) : Sampled("semantic_vector", s, SemanticVectorDrift(s))
    \/ \E e, t \in SeqsUpTo(Names, 3) : Sampled("graph_document", <<e, t>>, GraphDocumentDrift(e, t))
    \/ \E n \in 1 .. MaxVersions : \E ts \in [1 .. n -> Stamps], hs \in [1 .. n -> Hashes] :
         Sampled("temporal_consistency", <<ts, hs>>, TemporalConsistencyDrift(ts, hs))
    \/ \E e, a \in SeqsUpTo(Dims, MaxRank) : Sampled("tensor", <<e, a>>, TensorDrift(e, a))
    \/ \E v \in BOOLEAN, n \in {0, 1}, g \in Gaps, l \in Gaps \ {0} :
         Sampled("provenance", <<v, n, g, l>>, ProvenanceDrift(v, n, g, l))
    \/ \E c, m, x, v \in BOOLEAN : Sampled("spatial", <<c, m, x, v>>, SpatialDrift(c, m, x, v))
    \/ \E r, p \in SUBSET Required, n \in 0 .. Constraints : \E v \in 0 .. n :
         Sampled("schema", <<r, p, v, n>>, SchemaDrift(r, p, v, n))
    \/ \E s \in [1 .. 5 -> PartScores] : Sampled("quality", s, QualityDrift(s))
    \/ \E s \in [1 .. 7 -> PartScores] : Sampled("octad", s, QualityDriftOctad(s))
-----------------------------------------------------------------------------
(* Properties.                                                             *)

(* Every score is in 0.0 .. 1.0 and comparable with a threshold.  The only *)
(* exception is a shape where the expected and the actual size of a        *)
(* dimension are both zero: 0/0 passes through clamp, and a NaN score is   *)
(* above no threshold.                                                     *)
ScoreInRange ==
    \/ sample.score \in 0 .. Unit
    \/ /\ sample.of = "tensor" /\ sample.score = NaN
       /\ LET e == sample.in[1]
              a == sample.in[2]
          IN  \E i \in (DOMAIN e) \cap (DOMAIN a) : e[i] = 0 /\ a[i] = 0

Part(i) == sample.in[i]

(* The quality score is a mean: it lies between the least and the greatest *)
(* of its parts (up to rounding), for five parts and for seven, so that    *)
(* neither set of weights favours or drops a modality.                     *)
QualityIsMean ==
    sample.of \in {"quality", "octad"} =>
        /\ \E i \in DOMAIN sample.in : Part(i) <= sample.score + 1
        /\ \E i \in DOMAIN sample.in : Part(i) >= sample.score

(* The primary drift type is one with the greatest score, and a higher     *)
(* score in another type makes that one primary.                           *)
PrimaryIsWorst ==
    sample.of \in {"quality", "octad"} =>
        \E i \in DOMAIN sample.in :
            /\ Parts[i] = PrimaryDriftType(sample.in)
            /\ \A j \in DOMAIN sample.in : Part(j) <= Part(i)

(* A score of zero says that nothing disagrees that the function looks at: *)
(* all similarities are full, entities and targets match both ways, the    *)
(* history is ordered, without repetition and without a gap, shapes agree  *)
(* in the dimensions they share, the lineage is valid, there and recent,   *)
(* places fit, nothing required is missing, and a quality of zero is one   *)
(* of parts that are all zero.  Dimensions that only one of the shapes has *)
(* are not looked at (ZeroMeansSameShape).                                 *)
ZeroMeansConsistent ==
    sample.score = 0 =>
        CASE sample.of = "semantic_vector" -> \A i \in DOMAIN sample.in : sample.in[i] = Unit
          [] sample.of = "graph_document" ->
               LET entities == sample.in[1]
                   targets == sample.in[2]
               IN  \/ entities = <<>>
                   \/ /\ \A i \in DOMAIN targets : \E j \in DOMAIN entities : Holds(targets[i], entities[j])
                      /\ \A i \in DOMAIN entities : \E j \in DOMAIN targets :
                           Holds(targets[j], entities[i]) \/ Holds(entities[i], targets[j])
          [] sample.of = "temporal_consistency" ->
               \/ Len(sample.in[1]) < 2
               \/ /\ \A i \in 1 .. Len(sample.in[1]) - 1 : sample.in[1][i] <= sample.in[1][i + 1]
                  /\ \A i, j \in DOMAIN sample.in[2] : sample.in[2][i] = sample.in[2][j] => i = j
                  /\ ~LargeGap(sample.in[1])
          [] sample.of = "tensor" ->
               \A i \in (DOMAIN sample.in[1]) \cap (DOMAIN sample.in[2]) : sample.in[1][i] = sample.in[2][i]
          [] sample.of = "spatial" -> sample.in[1] = sample.in[2] /\ (sample.in[1] => sample.in[3])
          [] sample.of = "schema" -> sample.in[1] \subseteq sample.in[2] /\ sample.in[3] = 0
          [] sample.of = "provenance" -> sample.in[1] /\ sample.in[2] > 0 /\ sample.in[3] <= sample.in[4]
          [] sample.of \in {"quality", "octad"} -> \A i \in DOMAIN sample.in : Part(i) = 0
          [] OTHER -> TRUE

(* Does not hold: no score is NaN.                                         *)
ScoreAlwaysInRange == sample.score \in 0 .. Unit

(* Does not hold: a tensor score of zero is one of equal shapes.           *)
ZeroMeansSameShape == (sample.of = "tensor" /\ sample.score = 0) => sample.in[1] = sample.in[2]
=============================================================================
