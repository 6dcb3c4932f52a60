------------------------- MODULE PowerScoringProofs -------------------------
(***************************************************************************)
(* Proofs about the scoring of nodes and endpoints, for all nodes, models, *)
(* pods and services.                                                      *)
(*                                                                         *)
(* SchedulerInv and BalancerInv tie the scores that are read to the watts  *)
(* they were made from, and those to what was read when the node was       *)
(* scored.  StretchedRanks and NormalizedRanks say what the two ways of *)
(* turning watts into scores do to the order.  The models' answers have to *)
(* stay below the special scores (PowersFit).                              *)
(***************************************************************************)
EXTENDS PowerScoring, FiniteSetTheorems, WellFoundedInduction, TLAPS

-----------------------------------------------------------------------------
(* Division, least and greatest numbers. *)

\* Integer division rounds down.
LEMMA DivFits ==
    ASSUME NEW a \in Nat, NEW b \in Nat \ {0}
    PROVE  a \div b \in Nat /\ b * (a \div b) <= a /\ a < b * (a \div b) + b
BY SMT

\* The quotient is the greatest number that fits.
LEMMA DivGreatest ==
    ASSUME NEW a \in Nat, NEW b \in Nat \ {0}, NEW q \in Nat
    PROVE  (b * q <= a => q <= a \div b) /\ (a < b * q => a \div b < q)
<1>1. a \div b \in Nat /\ b * (a \div b) <= a /\ a < b * (a \div b) + b
  BY Zenon, DivFits
<1>2. ASSUME a \div b < q PROVE ~ (b * q <= a)
  <2>1. b * (a \div b + 1) <= b * q BY <1>1, <1>2
  <2>. QED BY <2>1, <1>1
<1>3. ASSUME q <= a \div b PROVE ~ (a < b * q)
  <2>1. b * q <= b * (a \div b) BY <1>1, <1>3
  <2>. QED BY <2>1, <1>1
<1>. QED BY <1>1, <1>2, <1>3

\* Division keeps the order.
LEMMA DivMonotone ==
    ASSUME NEW a \in Nat, NEW c \in Nat, NEW b \in Nat \ {0}, a <= c
    PROVE  a \div b <= c \div b
<1>1. a \div b \in Nat /\ b * (a \div b) <= a BY Zenon, DivFits
<1>. QED BY <1>1, DivGreatest

\* A part of c is between 0 and c.
LEMMA ShareFits ==
    ASSUME NEW c \in Nat, NEW a \in Nat, NEW b \in Nat \ {0}, a <= b
    PROVE  (c * a) \div b \in 0 .. c
<1>1. c * a \in Nat /\ c * a <= c * b OBVIOUS
<1>2. c * a < b * (c + 1) BY <1>1
<1>3. (c * a) \div b \in Nat BY Zenon, <1>1, DivFits
<1>. QED BY <1>1, <1>2, <1>3, DivGreatest

\* The special scores lie above 100 watts and are told apart (ScoreError, ScoreMax and
\* ScoreReplaceMap of minimizepower.go).
LEMMA SpecialScores ==
    /\ ScoreMax \in Nat /\ ScoreError \in Nat /\ 100 < ScoreMax /\ ScoreMax < ScoreError
    /\ DOMAIN ScoreReplaceMap = {ScoreError, ScoreMax}
    /\ ScoreReplaceMap[ScoreError] = 0 /\ ScoreReplaceMap[ScoreMax] = 1
<1>1. ScoreMax \in Nat /\ ScoreError \in Nat /\ 100 < ScoreMax /\ ScoreMax < ScoreError
  BY DEF ScoreMax, ScoreError
<1>. QED BY <1>1 DEF ScoreReplaceMap

\* A set of naturals has a least element, and Min is it.
LEMMA Least ==
    ASSUME NEW S, S \subseteq Nat, S # {}
    PROVE  Min(S) \in S /\ \A y \in S : Min(S) <= y
<1>. DEFINE R == OpToRel(<, Nat)
<1>1. \A x, y \in Nat : <<x, y>> \in R <=> x < y
  BY Zenon DEF OpToRel
<1>2. IsWellFoundedOn(R, Nat)
  BY Zenon, NatLessThanWellFounded
<1>. HIDE DEF R
<1>3. PICK x \in S : \A y \in S : ~ (<<y, x>> \in R)
  BY Zenon, <1>2, WFMin
<1>4. ASSUME NEW y \in S PROVE x <= y
  <2>1. x \in Nat /\ y \in Nat /\ ~ (y < x)
    BY Zenon, <1>1, <1>3
  <2>. QED  BY <2>1
<1>. QED  BY Zenon, <1>3, <1>4 DEF Min

\* A bounded set of naturals has a greatest element, and Max is it.
LEMMA Greatest ==
    ASSUME NEW bound \in Nat, NEW S, S \subseteq 0 .. bound, S # {}
    PROVE  Max(S) \in S /\ \A y \in S : y <= Max(S)
<1>. DEFINE T == {bound - y : y \in S}
<1>1. \A y \in S : y \in Nat /\ bound - y \in Nat
  OBVIOUS
<1>2. T \subseteq Nat /\ T # {}
  BY Zenon, <1>1
<1>3. Min(T) \in T /\ \A z \in T : Min(T) <= z
  <2>. HIDE DEF T
  <2>. QED  BY Zenon, <1>2, Least
<1>4. PICK x \in S : Min(T) = bound - x
  BY Zenon, <1>3
<1>5. ASSUME NEW y \in S PROVE x >= y
  <2>1. bound - x <= bound - y
    BY Zenon, <1>3, <1>4
  <2>. QED  BY <2>1, <1>1
<1>6. Max(S) \in S /\ \A y \in S : Max(S) >= y
  BY Zenon, <1>5 DEF Max
<1>7. ASSUME NEW y \in S PROVE y <= Max(S)
  <2>1. Max(S) >= y /\ Max(S) \in Nat /\ y \in Nat
    BY Zenon, <1>1, <1>6
  <2>. QED  BY Zenon, <2>1
<1>. QED  BY Zenon, <1>6, <1>7

\* What Score returns.
RawScore == {s \in Nat : s <= ScoreMax \/ s = ScoreError}

\* PowerConsumptions2Scores gives 0 to failed nodes, 1 to overcommitted ones and a score from
\* ScoreBase up to the others, a higher one for less power.
LEMMA StretchedRanks ==
    ASSUME NEW scores \in [Nodes -> RawScore]
    PROVE  LET final == PowerConsumptions2Scores(scores)
               special == {ScoreError, ScoreMax}
           IN  /\ \A n \in Nodes : scores[n] = ScoreError => final[n] = 0
               /\ \A n \in Nodes : scores[n] = ScoreMax => final[n] = 1
               /\ \A n \in Nodes : scores[n] \notin special => final[n] \in ScoreBase .. MaxNodeScore
               /\ \A n, m \in Nodes : (scores[n] \notin special /\ scores[m] \notin special /\ scores[n] < scores[m])
                                         => final[n] >= final[m]
<1>. DEFINE calculated == {n \in Nodes : scores[n] \notin DOMAIN ScoreReplaceMap}
            S == {scores[n] : n \in calculated}
            highest == Max(S)
            lowest == Min(S)
            part(n) == ((MaxNodeScore - ScoreBase) * (scores[n] - lowest)) \div (highest - lowest)
            final == PowerConsumptions2Scores(scores)
<1>1. final = [n \in Nodes |->
                 IF n \notin calculated THEN ScoreReplaceMap[scores[n]]
                 ELSE IF highest = lowest THEN ScoreBase
                 ELSE MaxNodeScore - part(n)]
  BY Zenon DEF PowerConsumptions2Scores, Stretched
<1>2. \A n \in Nodes : n \in calculated <=> scores[n] \notin {ScoreError, ScoreMax}
  BY Zenon, SpecialScores
<1>3. ASSUME NEW n \in calculated PROVE scores[n] \in 0 .. ScoreMax /\ scores[n] \in S
  <2>1. scores[n] \in RawScore /\ scores[n] # ScoreError
    BY Zenon, <1>2
  <2>2. scores[n] \in Nat /\ scores[n] <= ScoreMax
    BY Zenon, <2>1 DEF RawScore
  <2>3. scores[n] \in 0 .. ScoreMax
    BY <2>2, SpecialScores
  <2>. QED  BY Zenon, <2>3
<1>4. ASSUME NEW n \in calculated
      PROVE  /\ lowest \in Nat /\ highest \in Nat /\ scores[n] \in Nat
             /\ lowest <= scores[n] /\ scores[n] <= highest
  <2>1. S \subseteq 0 .. ScoreMax /\ S # {} /\ ScoreMax \in Nat
    BY Zenon, <1>3, SpecialScores
  <2>2. S \subseteq Nat
    BY <2>1
  <2>3. lowest \in S /\ \A y \in S : lowest <= y
    <3>. HIDE DEF S
    <3>. QED  BY Zenon, <2>1, <2>2, Least
  <2>4. highest \in S /\ \A y \in S : y <= highest
    <3>. HIDE DEF S
    <3>. QED  BY ZenonT(60), <2>1, Greatest
  <2>. HIDE DEF S, lowest, highest
  <2>. QED  BY Zenon, <2>1, <2>2, <2>3, <2>4, <1>3
<1>5. ASSUME NEW n \in calculated, highest # lowest
      PROVE  part(n) \in 0 .. (MaxNodeScore - ScoreBase)
  <2>1. /\ MaxNodeScore - ScoreBase \in Nat /\ scores[n] - lowest \in Nat
        /\ highest - lowest \in Nat \ {0} /\ scores[n] - lowest <= highest - lowest
    <3>. HIDE DEF highest, lowest, calculated
    <3>. QED  BY <1>4, <1>5, ScoreConstants
  <2>. HIDE DEF highest, lowest, calculated
  <2>. QED  BY Zenon, <2>1, ShareFits
<1>6. ASSUME NEW n \in calculated, NEW m \in calculated, scores[n] < scores[m], highest # lowest
      PROVE  part(n) <= part(m)
  <2>. DEFINE c == MaxNodeScore - ScoreBase
              x == scores[n] - lowest
              y == scores[m] - lowest
              d == highest - lowest
  <2>1. c \in Nat /\ x \in Nat /\ y \in Nat /\ d \in Nat \ {0} /\ x <= y
    <3>. HIDE DEF highest, lowest, calculated
    <3>. QED  BY <1>4, <1>6, ScoreConstants
  <2>. HIDE DEF c, x, y, d
  <2>2. c * x \in Nat /\ c * y \in Nat /\ c * x <= c * y
    BY <2>1
  <2>3. (c * x) \div d <= (c * y) \div d
    BY Zenon, <2>1, <2>2, DivMonotone
  <2>. QED  BY Zenon, <2>3 DEF c, x, y, d
<1>. HIDE DEF S, highest, lowest, part
<1>7. \A n \in Nodes : scores[n] = ScoreError => final[n] = 0
  BY Zenon, <1>1, <1>2, SpecialScores
<1>8. \A n \in Nodes : scores[n] = ScoreMax => final[n] = 1
  BY Zenon, <1>1, <1>2, SpecialScores
<1>9. \A n \in Nodes : n \in calculated => final[n] \in ScoreBase .. MaxNodeScore
  BY SMTT(60), <1>1, <1>5, ScoreConstants
<1>10. ASSUME NEW n \in calculated, NEW m \in calculated, scores[n] < scores[m]
       PROVE  final[n] >= final[m]
  <2>1. CASE highest = lowest
    BY <2>1, <1>1, ScoreConstants
  <2>2. CASE highest # lowest
    <3>1. part(n) <= part(m) /\ part(n) \in Int /\ part(m) \in Int
      BY <2>2, <1>5, <1>6, <1>10, ScoreConstants
    <3>2. final[n] = MaxNodeScore - part(n) /\ final[m] = MaxNodeScore - part(m)
      BY Zenon, <2>2, <1>1
    <3>. QED  BY SMTT(60), <3>1, <3>2, ScoreConstants
  <2>. QED  BY Zenon, <2>1, <2>2
<1>. HIDE DEF final, calculated
<1>. QED  BY Zenon, <1>2, <1>7, <1>8, <1>9, <1>10 DEF final

\* The rounded share of the top score, top * least / r, for a number of watts r.
RoundedShare(least, r) == (2 * ScoreTop * least + r) \div (2 * r)

\* A rounded share is at most the top score, which the least watts get; it is 0 only far above
\* the least watts, and does not grow with the watts (normalizeScores of wao.go).
LEMMA RoundedShares ==
    ASSUME NEW least \in Nat \ {0}, NEW r \in Nat, least <= r
    PROVE  /\ RoundedShare(least, r) \in 0 .. ScoreTop
           /\ r = least => RoundedShare(least, r) = ScoreTop
           /\ RoundedShare(least, r) = 0 => 2 * ScoreTop * least < r
           /\ \A f \in Nat : r <= f => RoundedShare(least, r) >= RoundedShare(least, f)
<1>. DEFINE t == ScoreTop * least
            num == 2 * t + r
            den == 2 * r
            q == RoundedShare(least, r)
<1>1. ScoreTop \in Nat \ {0}
  BY Zenon, BalancerConstants
<1>2. t \in Nat /\ t <= ScoreTop * r /\ (r = least => t = ScoreTop * r)
  BY <1>1
<1>3. q = num \div den
  <2>1. 2 * ScoreTop * least = 2 * t
    BY <1>1
  <2>. QED  BY Zenon, <2>1 DEF RoundedShare
<1>. HIDE DEF t
<1>4. num \in Nat /\ den \in Nat \ {0}
  BY <1>2
<1>5. q \in Nat /\ den * q <= num /\ num < den * q + den
  <2>. HIDE DEF num, den, q
  <2>. QED  BY Zenon, <1>3, <1>4, DivFits
<1>6. q <= ScoreTop
  <2>1. num < den * (ScoreTop + 1)
    <3>1. den * (ScoreTop + 1) = 2 * (ScoreTop * r) + 2 * r
      BY <1>1
    <3>2. ScoreTop * r \in Nat
      BY <1>1
    <3>. QED  BY <1>2, <3>1, <3>2
  <2>2. q < ScoreTop + 1
    <3>. HIDE DEF num, den, q
    <3>. QED  BY <1>1, <1>3, <1>4, <2>1, DivGreatest
  <2>. QED  BY <2>2, <1>1, <1>5
<1>7. r = least => q = ScoreTop
  <2>1. ASSUME r = least PROVE den * ScoreTop <= num
    <3>1. den * ScoreTop = 2 * (ScoreTop * r)
      BY <1>1
    <3>2. ScoreTop * r \in Nat
      BY <1>1
    <3>. QED  BY <2>1, <1>2, <3>1, <3>2
  <2>2. r = least => ScoreTop <= q
    <3>. HIDE DEF num, den, q
    <3>. QED  BY Zenon, <1>1, <1>3, <1>4, <2>1, DivGreatest
  <2>. QED  BY <2>2, <1>1, <1>5, <1>6
<1>8. q = 0 => 2 * ScoreTop * least < r
  <2>1. q = 0 => num < den
    <3>. HIDE DEF num, q
    <3>. QED  BY <1>4, <1>5
  <2>2. 2 * ScoreTop * least = 2 * t
    BY <1>1 DEF t
  <2>. QED  BY <2>1, <2>2, <1>2
<1>9. ASSUME NEW f \in Nat, r <= f PROVE q >= RoundedShare(least, f)
  <2>. DEFINE y == RoundedShare(least, f)
  <2>1. y = (2 * t + f) \div (2 * f)
    <3>1. 2 * ScoreTop * least = 2 * t
      BY <1>1 DEF t
    <3>. QED  BY Zenon, <3>1 DEF RoundedShare
  <2>2. 2 * t + f \in Nat /\ 2 * f \in Nat \ {0}
    BY <1>2, <1>9
  <2>3. y \in Nat /\ (2 * f) * y <= 2 * t + f
    <3>. HIDE DEF y
    <3>. QED  BY Zenon, <2>1, <2>2, DivFits
  <2>. HIDE DEF y
  <2>4. CASE y = 0
    <3>1. q >= y
      BY <2>4, <1>5
    <3>. QED  BY Zenon, <3>1 DEF y
  <2>5. CASE y # 0
    <3>1. PICK z \in Nat : y = z + 1
      <4>1. y - 1 \in Nat /\ y = (y - 1) + 1
        BY <2>3, <2>5
      <4>. QED  BY Zenon, <4>1
    <3>2. f * (2 * z + 1) <= 2 * t
      <4>1. (2 * f) * (z + 1) = f * (2 * z + 1) + f /\ f * (2 * z + 1) \in Nat
        OBVIOUS
      <4>. QED  BY <4>1, <2>3, <3>1, <1>2
    <3>3. r * (2 * z + 1) <= f * (2 * z + 1)
      BY <1>9
    <3>4. den * y <= num
      <4>1. den * (z + 1) = r * (2 * z + 1) + r /\ r * (2 * z + 1) \in Nat /\ f * (2 * z + 1) \in Nat
        OBVIOUS
      <4>. QED  BY <4>1, <3>1, <3>2, <3>3, <1>2
    <3>5. y <= q
      <4>. HIDE DEF num, den, q
      <4>. QED  BY Zenon, <3>4, <2>3, <1>3, <1>4, DivGreatest
    <3>6. q >= y
      BY Zenon, <3>5, <2>3, <1>5
    <3>. QED  BY Zenon, <3>6 DEF y
  <2>. QED  BY Zenon, <2>4, <2>5
<1>. HIDE DEF q, num, den
<1>. QED  BY <1>1, <1>5, <1>6, <1>7, <1>8, <1>9 DEF q

\* normalizeScores ranks the endpoints by their watts.
LEMMA NormalizedRanks ==
    ASSUME NEW w, w \in [DOMAIN w -> Nat], DOMAIN w # {}
    PROVE  LET final == normalizeScores(w)
           IN  /\ DOMAIN final = DOMAIN w
               /\ \A e \in DOMAIN w : final[e] \in 0 .. ScoreTop
               /\ \E e \in DOMAIN w : final[e] = ScoreTop
               /\ \A e, f \in DOMAIN w : w[e] < w[f] => final[e] >= final[f]
               /\ \A e \in DOMAIN w : final[e] = 0 => \E f \in DOMAIN w : w[e] > 2 * ScoreTop * w[f]
<1>. DEFINE raised == [e \in DOMAIN w |-> w[e] + 1]
            S == {raised[e] : e \in DOMAIN raised}
            least == Min(S)
            final == normalizeScores(w)
<1>1. final = [e \in DOMAIN w |-> RoundedShare(least, raised[e])]
  BY Zenon DEF normalizeScores, RoundedShare, Range
<1>2. \A e \in DOMAIN w : w[e] \in Nat /\ raised[e] = w[e] + 1 /\ raised[e] \in S
  BY Zenon
<1>3. S \subseteq Nat \ {0} /\ S # {}
  BY <1>2
<1>4. least \in S /\ \A y \in S : least <= y
  <2>. HIDE DEF S
  <2>. QED  BY Zenon, <1>3, Least
<1>5. PICK g \in DOMAIN w : least = raised[g]
  BY ZenonT(60), <1>4
<1>6. least \in Nat \ {0} /\ \A e \in DOMAIN w : raised[e] \in Nat /\ least <= raised[e]
  <2>. HIDE DEF S, raised, least
  <2>. QED  BY Zenon, <1>2, <1>3, <1>4
<1>. HIDE DEF S, least
<1>7. \A e \in DOMAIN w : final[e] = RoundedShare(least, raised[e])
  BY Zenon, <1>1
<1>. HIDE DEF raised, final
<1>8. \A e \in DOMAIN w : final[e] \in 0 .. ScoreTop
  BY Zenon, <1>6, <1>7, RoundedShares
<1>9. final[g] = ScoreTop
  BY Zenon, <1>5, <1>6, <1>7, RoundedShares
<1>10. ASSUME NEW e \in DOMAIN w, NEW f \in DOMAIN w, w[e] < w[f] PROVE final[e] >= final[f]
  <2>1. raised[e] <= raised[f]
    BY <1>2, <1>10
  <2>. QED  BY Zenon, <2>1, <1>6, <1>7, RoundedShares
<1>11. ASSUME NEW e \in DOMAIN w, final[e] = 0 PROVE w[e] > 2 * ScoreTop * w[g]
  <2>1. 2 * ScoreTop * least < raised[e]
    BY Zenon, <1>6, <1>7, <1>11, RoundedShares
  <2>2. ScoreTop \in Nat \ {0} /\ w[g] \in Nat /\ w[e] \in Nat
    BY Zenon, <1>2, BalancerConstants
  <2>3. 2 * ScoreTop * (w[g] + 1) = 2 * ScoreTop * w[g] + 2 * ScoreTop
    BY <2>2
  <2>4. 2 * ScoreTop * w[g] \in Nat
    BY <2>2
  <2>. QED  BY <2>1, <2>2, <2>3, <2>4, <1>2, <1>5
<1>12. DOMAIN final = DOMAIN w
  BY Zenon, <1>1
<1>. QED  BY Zenon, <1>8, <1>9, <1>10, <1>11, <1>12 DEF final

-----------------------------------------------------------------------------
(* What is assumed of the models' answers. *)

\* An answer in tenths of a watt that leaves room for a difference below the special scores.
Fits(w) == w \in Int /\ w \div 5 \in (1 - ScoreMax) .. (ScoreMax - 1)

\* The answers to the models of a node for some usage fit.
Answered(n, cpu) ==
    \A nc \in config[n] : PredictorTerm(nc) # None =>
        Fits(Power(PredictorTerm(nc).endpoint, Format(n, cpu), inletTemp[n], deltaP[n]))

\* What Score compares with the capacity of the node.
UsageWithPod(n) == usage[n] + assumedAdditionalUsage(n) + PodCPURequestOrLimit(Pods[pod])

\* The answers that Score and ScoreNode may get now fit: float64 watts are converted to int64,
\* and neither the code nor the model servers bound them.
PowersFit ==
    process # "spread" =>
        \A n \in Nodes : None \notin {usage[n], inletTemp[n], deltaP[n]} =>
            /\ process = "scheduler" /\ phase = "scoring" =>
                  Answered(n, usage[n] + assumedAdditionalUsage(n)) /\ Answered(n, UsageWithPod(n))
            /\ process = "balancer" =>
                  Answered(n, usage[n]) /\ \A p \in ServicePorts : Answered(n, usage[n] + cpuPerRequest(p))

\* What Score returned, what it read, and what NormalizeScore made of it.
SchedulerInv ==
    /\ raw = [n \in Nodes |-> raw[n]] /\ DOMAIN seen = Nodes
    /\ \A n \in Nodes : raw[n] # None => raw[n] \in RawScore
    /\ phase = "idle" => raw = NoScores
    /\ \A n \in Nodes : raw[n] = ScoreMax => ~Usable(n)
    /\ \A n \in Nodes : raw[n] \notin {None, ScoreError, ScoreMax} => Usable(n)
    /\ phase = "scored" => score = PowerConsumptions2Scores(raw) /\ \A n \in Nodes : raw[n] # None

\* The piece of work of a service port.
PieceInv(p) ==
    /\ watts[p] \in [DOMAIN watts[p] -> Nat]
    /\ state[p] = "queued" => watts[p] = Empty
    /\ state[p] = "writing" => watts[p] # Empty
    /\ state[p] \in {"scoring", "writing"} => \E slice \in Slices[p] : DOMAIN watts[p] \cup todo[p] \subseteq slice

\* What is in the map was made from the watts of the endpoints of one slice.
BalancerInv ==
    /\ DOMAIN state = ServicePorts /\ DOMAIN todo = ServicePorts /\ DOMAIN watts = ServicePorts
    /\ DOMAIN Scores \subseteq ServicePorts
    /\ \A p \in ServicePorts : PieceInv(p)
    /\ \A p \in DOMAIN Scores :
          /\ state[p] = "done" /\ Scores[p] = normalizeScores(watts[p])
          /\ DOMAIN watts[p] # {} /\ \E slice \in Slices[p] : DOMAIN watts[p] \subseteq slice

\* The difference of two answers that fit is a number of watts below the special scores.
LEMMA RiseFits ==
    ASSUME NEW b, NEW a, Fits(b), Fits(a)
    PROVE  LET rise == IF a < b THEN 0 ELSE (a - b) \div 10 IN rise \in Nat /\ rise < ScoreMax
<1>1. /\ b \in Int /\ b \div 5 \in Int /\ 1 - ScoreMax <= b \div 5
      /\ a \in Int /\ a \div 5 \in Int /\ a \div 5 <= ScoreMax - 1
      /\ ScoreMax \in Nat /\ 0 < ScoreMax
  BY SpecialScores DEF Fits
<1>. QED  BY <1>1

\* The answers of the fake predictor and of a cached client without a value fit.
LEMMA SmallFits == Fits(0) /\ Fits(31)
<1>1. 0 \div 5 = 0 /\ 31 \div 5 = 6
  OBVIOUS
<1>. QED  BY <1>1, SpecialScores DEF Fits

\* A prediction fits if the answer of the model does (Predict of fromnodeconfig.go).
LEMMA AnswersFit ==
    ASSUME NEW term, NEW cpu, NEW temp, NEW dp, NEW shared,
           Fits(Power(term.endpoint, cpu, temp, dp)),
           NEW w \in PredictPowerConsumption(term, cpu, temp, dp, shared), w # None
    PROVE  Fits(w)
<1>1. w \in {31, Power(term.endpoint, cpu, temp, dp), None, 0}
  <2>. DEFINE c1 == term.type = "Fake"
              c2 == term.type = "V2InferenceProtocol" /\ term.endpoint.path # None /\ Answers(term)
  <2>1. CASE c1
    BY Zenon, <2>1 DEF PredictPowerConsumption
  <2>2. CASE ~c1 /\ c2
    BY Zenon, <2>2 DEF PredictPowerConsumption
  <2>3. CASE ~c1 /\ ~c2
    BY Zenon, <2>3 DEF PredictPowerConsumption
  <2>. QED  BY Zenon, <2>1, <2>2, <2>3
<1>. QED  BY Zenon, <1>1, SmallFits

\* The rise in power is a number of watts below the special scores.
LEMMA IncreasesFit ==
    ASSUME NEW n, NEW before, NEW after, NEW shared, Answered(n, before), Answered(n, after),
           NEW nc \in config[n], NEW w, w \in Increases(n, nc, before, after, shared), w # None
    PROVE  w \in Nat /\ w < ScoreMax
<1>. DEFINE term == PredictorTerm(nc)
            watt(cpu) == PredictPowerConsumption(term, Format(n, cpu), inletTemp[n], deltaP[n], shared)
            rise(b, a) == IF None \in {b, a} THEN None ELSE IF a < b THEN 0 ELSE (a - b) \div 10
<1>1. term = None => Increases(n, nc, before, after, shared) = {None}
  BY Zenon DEF Increases
<1>2. term # None => Increases(n, nc, before, after, shared) =
                        UNION {{rise(b, a) : a \in watt(after)} : b \in watt(before)}
  BY Zenon DEF Increases
<1>. HIDE DEF rise, watt, term
<1>3. term # None
  BY <1>1
<1>4. w \in UNION {{rise(b, a) : a \in watt(after)} : b \in watt(before)}
  BY Zenon, <1>2, <1>3
<1>5. PICK b \in watt(before) : w \in {rise(b, a) : a \in watt(after)}
  BY Zenon, <1>4
<1>6. PICK a \in watt(after) : w = rise(b, a)
  BY Zenon, <1>5
<1>7. b # None /\ a # None
  BY Zenon, <1>6 DEF rise
<1>8. /\ Fits(Power(term.endpoint, Format(n, before), inletTemp[n], deltaP[n]))
      /\ Fits(Power(term.endpoint, Format(n, after), inletTemp[n], deltaP[n]))
  BY Zenon, <1>3 DEF Answered, term
<1>9. /\ b \in PredictPowerConsumption(term, Format(n, before), inletTemp[n], deltaP[n], shared)
      /\ a \in PredictPowerConsumption(term, Format(n, after), inletTemp[n], deltaP[n], shared)
  BY Zenon, <1>5, <1>6 DEF watt
<1>10. Fits(b) /\ Fits(a)
  BY Zenon, <1>7, <1>8, <1>9, AnswersFit
<1>11. w = IF a < b THEN 0 ELSE (a - b) \div 10
  BY ZenonT(60), <1>6, <1>7 DEF rise
<1>. QED  BY Zenon, <1>10, <1>11, RiseFits

\* Score calls a node overcommitted only if it is not usable, and predicts only for usable ones.
LEMMA RawScoresFit ==
    ASSUME PowersFit, process = "scheduler", phase = "scoring",
           NEW n \in Nodes, NEW s \in RawScores(n)
    PROVE  LET usable == /\ None \notin {usage[n], inletTemp[n], deltaP[n]}
                         /\ ~ (UsageWithPod(n) > Capacity[n])
           IN  /\ s \in RawScore
               /\ s = ScoreMax => ~usable
               /\ s \notin {ScoreError, ScoreMax} => usable
<1>. DEFINE before == usage[n] + assumedAdditionalUsage(n)
            after == before + PodCPURequestOrLimit(Pods[pod])
            all == UNION {Increases(n, nc, before, after, SharedPredictor(n)) : nc \in config[n]}
<1>1. RawScores(n) =
         IF usage[n] = None \/ after = before THEN {ScoreError}
         ELSE IF after > Capacity[n] THEN {ScoreMax}
         ELSE IF inletTemp[n] = None \/ deltaP[n] = None \/ config[n] = {} THEN {ScoreError}
         ELSE {IF watt = None THEN ScoreError ELSE watt : watt \in all}
  BY Zenon DEF RawScores
<1>2. UsageWithPod(n) = after
  BY Zenon DEF UsageWithPod
<1>3. ScoreError \in RawScore /\ ScoreMax \in RawScore /\ ScoreError # ScoreMax
  BY SpecialScores DEF RawScore
<1>4. CASE None \in {usage[n], inletTemp[n], deltaP[n]}
  <2>1. s \in {ScoreError, ScoreMax}
    <3>. HIDE DEF all, before, after
    <3>. QED  BY Zenon, <1>1, <1>4
  <2>. QED  BY Zenon, <1>3, <1>4, <2>1
<1>5. CASE None \notin {usage[n], inletTemp[n], deltaP[n]} /\ after > Capacity[n]
  <2>1. s \in {ScoreError, ScoreMax}
    <3>. HIDE DEF all, before, after
    <3>. QED  BY SMTT(60), <1>1, <1>5
  <2>. QED  BY Zenon, <1>2, <1>3, <1>5, <2>1
<1>6. CASE None \notin {usage[n], inletTemp[n], deltaP[n]} /\ ~ (after > Capacity[n])
  <2>1. Answered(n, before) /\ Answered(n, after)
    BY Zenon, <1>2, <1>6 DEF PowersFit
  <2>2. ASSUME NEW watt \in all, watt # None PROVE watt \in Nat /\ watt < ScoreMax
    <3>1. PICK nc \in config[n] : watt \in Increases(n, nc, before, after, SharedPredictor(n))
      <4>. HIDE DEF before, after
      <4>. QED  BY Zenon DEF all
    <3>. HIDE DEF before, after
    <3>. QED  BY Zenon, <2>1, <2>2, <3>1, IncreasesFit
  <2>3. s = ScoreError \/ (s \in Nat /\ s < ScoreMax)
    <3>. HIDE DEF all, before, after
    <3>. QED  BY Zenon, <1>1, <1>6, <2>2
  <2>4. s \in RawScore /\ s # ScoreMax
    BY SMTT(60), <2>3, <1>3, SpecialScores DEF RawScore
  <2>. QED  BY Zenon, <1>2, <1>6, <2>4
<1>. HIDE DEF before, after
<1>. QED  BY Zenon, <1>4, <1>5, <1>6

-----------------------------------------------------------------------------
(* The scheduler. *)

\* A node without a score is told from every score.
LEMMA NoneSpecial == None \notin RawScore /\ None \notin {ScoreError, ScoreMax}
BY NoNumber, SpecialScores DEF RawScore

\* SchedulerInv holds in the beginning.
LEMMA SchedulerStarts == Init => SchedulerInv
<1>. SUFFICES ASSUME Init PROVE SchedulerInv
  BY Zenon
<1>1. /\ phase = "idle" /\ raw = NoScores /\ seen = NoScores
  BY Zenon DEF Init, SchedulerInit
<1>2. \A n \in Nodes : raw[n] = None
  BY ZenonT(60), <1>1 DEF NoScores
<1>. QED  BY Zenon, <1>1, <1>2, NoneSpecial DEF SchedulerInv, NoScores

\* Score of one node keeps SchedulerInv.
LEMMA ScoreKept ==
    ASSUME SchedulerInv, PowersFit, process = "scheduler", NEW n \in Nodes, Score(n)
    PROVE  SchedulerInv'
<1>1. /\ phase = "scoring" /\ raw[n] = None /\ UNCHANGED <<pod, score>>
      /\ seen' = [seen EXCEPT ![n] = [usage |-> usage[n], metrics |-> {inletTemp[n], deltaP[n]},
                                      pending |-> pending[n]]]
  BY Zenon DEF Score
<1>2. phase' \in {"scoring", "panic"}
  BY Zenon, <1>1 DEF Score
<1>3. \A m \in Nodes \ {n} : Usable(m)' <=> Usable(m)
  BY Zenon, <1>1 DEF SchedulerInv, Usable
<1>4. /\ seen'[n] = [usage |-> usage[n], metrics |-> {inletTemp[n], deltaP[n]}, pending |-> pending[n]]
      /\ DOMAIN seen' = Nodes
  BY Zenon, <1>1 DEF SchedulerInv
<1>5. Usable(n)' <=> /\ None \notin {usage[n], inletTemp[n], deltaP[n]}
                     /\ ~ (UsageWithPod(n) > Capacity[n])
  <2>1. /\ seen'[n].usage = usage[n] /\ seen'[n].metrics = {inletTemp[n], deltaP[n]}
        /\ seen'[n].pending = pending[n] /\ pod' = pod
    BY SMTT(60), <1>1, <1>4
  <2>2. AssumedOf(seen'[n].pending) = assumedAdditionalUsage(n)
    BY Zenon, <2>1 DEF assumedAdditionalUsage
  <2>. QED  BY Zenon, <2>1, <2>2 DEF Usable, UsageWithPod
<1>6. CASE UNCHANGED raw
  BY Zenon, <1>1, <1>2, <1>3, <1>4, <1>6, NoneSpecial DEF SchedulerInv
<1>7. ASSUME NEW s \in RawScores(n), raw' = [raw EXCEPT ![n] = s] PROVE SchedulerInv'
  <2>1. /\ s \in RawScore /\ (s = ScoreMax => ~Usable(n)')
        /\ (s \notin {ScoreError, ScoreMax} => Usable(n)')
    BY Zenon, <1>1, <1>5, RawScoresFit
  <2>2. /\ raw' = [m \in Nodes |-> raw'[m]] /\ raw'[n] = s
        /\ \A m \in Nodes \ {n} : raw'[m] = raw[m]
    BY Zenon, <1>7 DEF SchedulerInv
  <2>. QED  BY SMTT(60), <1>2, <1>3, <1>4, <2>1, <2>2, NoneSpecial DEF SchedulerInv
<1>. QED  BY Zenon, <1>6, <1>7 DEF Score

\* Every step keeps SchedulerInv.
LEMMA SchedulerKept == SchedulerInv /\ PowersFit /\ [Next]_allVars => SchedulerInv'
<1>. SUFFICES ASSUME SchedulerInv, PowersFit, [Next]_allVars PROVE SchedulerInv'
  BY Zenon
<1>1. CASE UNCHANGED scheduler
  BY Zenon, <1>1 DEF scheduler, SchedulerInv, Usable
<1>2. CASE process = "scheduler" /\ Schedule
  <2>1. ASSUME NEW p \in DOMAIN Pods, PreFilter(p) PROVE SchedulerInv'
    <3>1. raw = NoScores /\ UNCHANGED <<raw, seen>> /\ phase' # "scored"
      BY Zenon, <2>1 DEF PreFilter, SchedulerInv
    <3>2. \A n \in Nodes : raw[n] = None
      BY Zenon, <3>1 DEF NoScores
    <3>. QED  BY Zenon, <3>1, <3>2, NoneSpecial DEF SchedulerInv
  <2>2. ASSUME NEW n \in Nodes, Score(n) PROVE SchedulerInv'
    BY Zenon, <1>2, <2>2, ScoreKept
  <2>3. ASSUME NEW n \in Nodes, Bind(n) PROVE SchedulerInv'
    <3>1. raw' = NoScores /\ seen' = NoScores /\ phase' = "idle"
      BY Zenon, <2>3 DEF Bind
    <3>2. \A m \in Nodes : raw'[m] = None
      BY Zenon, <3>1 DEF NoScores
    <3>. QED  BY Zenon, <3>1, <3>2, NoneSpecial DEF SchedulerInv, NoScores
  <2>4. CASE NormalizeScore
    BY Zenon, <2>4 DEF NormalizeScore, SchedulerInv, Usable
  <2>5. ASSUME NEW n \in Nodes, NEW p \in DOMAIN Pods, Run(n, p) PROVE SchedulerInv'
    BY Zenon, <2>5 DEF Run, SchedulerInv, Usable
  <2>. QED  BY Zenon, <1>2, <2>1, <2>2, <2>3, <2>4, <2>5 DEF Schedule
<1>. QED  BY Zenon, <1>1, <1>2 DEF Next, allVars

\* SchedulerInv is an invariant while the answers fit.
LEMMA SchedulerInvariant == Spec /\ []PowersFit => []SchedulerInv
BY SchedulerStarts, SchedulerKept, PTL DEF Spec

\* What NormalizeScore has made of the scores that Score returned.
LEMMA ScoredRight ==
    ASSUME SchedulerInv, phase = "scored"
    PROVE  /\ raw \in [Nodes -> RawScore]
           /\ \A n \in Nodes : raw[n] = ScoreError => score[n] = 0
           /\ \A n \in Nodes : raw[n] = ScoreMax => score[n] = 1
           /\ \A n \in Nodes : Predicted(n) => score[n] \in ScoreBase .. MaxNodeScore
           /\ \A n, m \in Nodes : Predicted(n) /\ Predicted(m) /\ raw[n] < raw[m] => score[n] >= score[m]
<1>1. raw \in [Nodes -> RawScore] /\ score = PowerConsumptions2Scores(raw)
  BY Zenon DEF SchedulerInv
<1>. QED  BY Zenon, <1>1, StretchedRanks DEF Predicted

\* SchedulerInv implies RankedByPower.
LEMMA RanksByPower == SchedulerInv => RankedByPower
<1>. SUFFICES ASSUME SchedulerInv, phase = "scored"
              PROVE  /\ \A n \in Nodes : score[n] \in 0..MaxNodeScore
                     /\ \A n, m \in Nodes : raw[n] < raw[m] => score[n] >= score[m]
                     /\ \A n, m \in Nodes : Predicted(n) /\ ~Predicted(m) => score[n] > score[m]
                     /\ \A n, m \in Nodes : raw[n] = ScoreMax /\ raw[m] = ScoreError => score[n] > score[m]
  BY Zenon DEF RankedByPower
<1>1. \A n \in Nodes : /\ raw[n] \in Nat /\ (raw[n] <= ScoreMax \/ raw[n] = ScoreError)
                       /\ ~Predicted(n) <=> raw[n] = ScoreError \/ raw[n] = ScoreMax
  BY ZenonT(60), ScoredRight DEF RawScore, Predicted
<1>2. ASSUME NEW n \in Nodes
      PROVE  /\ raw[n] = ScoreError => score[n] = 0
             /\ raw[n] = ScoreMax => score[n] = 1
             /\ Predicted(n) => score[n] \in Int /\ 1 < score[n] /\ score[n] <= MaxNodeScore
  <2>1. /\ raw[n] = ScoreError => score[n] = 0
        /\ raw[n] = ScoreMax => score[n] = 1
        /\ Predicted(n) => score[n] \in ScoreBase .. MaxNodeScore
    BY ZenonT(60), ScoredRight
  <2>. QED  BY <2>1, ScoreConstants
<1>3. ASSUME NEW n \in Nodes PROVE score[n] \in 0..MaxNodeScore
  <2>1. Predicted(n) \/ raw[n] = ScoreError \/ raw[n] = ScoreMax
    BY ZenonT(60), <1>1
  <2>. QED  BY SMTT(60), <2>1, <1>2, ScoreConstants
<1>4. ASSUME NEW n \in Nodes, NEW m \in Nodes, raw[n] < raw[m] PROVE score[n] >= score[m]
  <2>1. CASE Predicted(n) /\ Predicted(m)
    BY ZenonT(60), <2>1, <1>4, ScoredRight
  <2>2. CASE raw[m] = ScoreError
    BY SMTT(60), <2>2, <1>2, <1>3, ScoreConstants, NoNumber
  <2>3. CASE raw[m] = ScoreMax
    <3>1. Predicted(n)
      BY SMTT(60), <1>1, <1>4, <2>3, SpecialScores
    <3>. QED  BY <3>1, <2>3, <1>2
  <2>4. CASE Predicted(m) /\ ~Predicted(n)
    <3>1. raw[m] < ScoreMax
      BY <1>1, <2>4, SpecialScores
    <3>. QED  BY SMTT(60), <3>1, <1>1, <1>4, <2>4, SpecialScores
  <2>. QED  BY Zenon, <1>1, <2>1, <2>2, <2>3, <2>4
<1>5. \A n, m \in Nodes : Predicted(n) /\ ~Predicted(m) => score[n] > score[m]
  BY SMTT(60), <1>1, <1>2
<1>6. \A n, m \in Nodes : raw[n] = ScoreMax /\ raw[m] = ScoreError => score[n] > score[m]
  BY <1>2
<1>. QED  BY Zenon, <1>3, <1>4, <1>5, <1>6

\* SchedulerInv implies NoOvercommit.
LEMMA ChoosesUsable == SchedulerInv => NoOvercommit
<1>. SUFFICES ASSUME SchedulerInv, phase = "scored",
                     NEW m \in Nodes, Usable(m), raw[m] # ScoreError,
                     NEW n \in Nodes, Best(n)
              PROVE  Usable(n)
  BY Zenon DEF NoOvercommit
<1>1. Predicted(m)
  BY Zenon DEF SchedulerInv, Predicted
<1>2. score[m] \in Int /\ 1 < score[m] /\ score[m] <= score[n]
  BY <1>1, ScoredRight, ScoreConstants, NoNumber DEF Best
<1>3. Predicted(n)
  BY <1>2, ScoredRight DEF Predicted
<1>4. raw[n] # None
  BY Zenon DEF SchedulerInv
<1>. QED  BY Zenon, <1>3, <1>4 DEF SchedulerInv, Predicted

\* For all nodes and models: after NormalizeScore no node is above one that uses less power,
\* predicted nodes are above overcommitted ones and those above failed ones.
THEOREM PowerRanksNodes == Spec /\ []PowersFit => []RankedByPower
BY SchedulerInvariant, RanksByPower, PTL

\* For all nodes and models: the scheduler chooses no node without data or room while a usable
\* one was scored, whatever changes between the Score calls of a cycle.
THEOREM UsableNodesChosen == Spec /\ []PowersFit => []NoOvercommit
BY SchedulerInvariant, ChoosesUsable, PTL

-----------------------------------------------------------------------------
(* The load balancer. *)

\* ScoreNode returns a number of watts or an error.
LEMMA NodeWattsFit ==
    ASSUME PowersFit, process = "balancer", NEW p \in ServicePorts, NEW n \in Nodes \cup {None}, NEW shared,
           NEW w, w \in NodeWatts(n, cpuPerRequest(p), shared), w # None
    PROVE  w \in Nat
<1>. DEFINE cpu == cpuPerRequest(p)
            failed == IF shared THEN {None, 0} ELSE {None}
            one(nc) == IF PredictorTerm(nc) = None THEN failed
                       ELSE Increases(n, nc, usage[n], usage[n] + cpu, shared)
            all == UNION {one(nc) : nc \in config[n]}
<1>1. NodeWatts(n, cpu, shared) =
         IF n = None THEN {None}
         ELSE IF usage[n] = None THEN {None}
         ELSE IF cpu = 0 THEN {0}
         ELSE IF inletTemp[n] = None \/ deltaP[n] = None THEN failed
         ELSE IF config[n] = {} THEN {0}
         ELSE all
  BY ZenonT(60) DEF NodeWatts
<1>2. w \in {None, 0} \/ (n # None /\ None \notin {usage[n], inletTemp[n], deltaP[n]} /\ w \in all)
  <2>1. failed \subseteq {None, 0}
    BY Zenon
  <2>. HIDE DEF all, failed, cpu
  <2>2. w \in NodeWatts(n, cpu, shared)
    BY Zenon DEF cpu
  <2>. QED  BY Zenon, <1>1, <2>1, <2>2
<1>3. CASE w \in {None, 0}
  BY <1>3
<1>4. CASE n # None /\ None \notin {usage[n], inletTemp[n], deltaP[n]} /\ w \in all
  <2>1. Answered(n, usage[n]) /\ Answered(n, usage[n] + cpu)
    BY Zenon, <1>4 DEF PowersFit
  <2>2. PICK nc \in config[n] : w \in one(nc)
    <3>. HIDE DEF one
    <3>. QED  BY ZenonT(60), <1>4
  <2>3. CASE PredictorTerm(nc) = None
    BY <2>2, <2>3
  <2>4. CASE PredictorTerm(nc) # None
    <3>1. w \in Increases(n, nc, usage[n], usage[n] + cpu, shared)
      BY ZenonT(60), <2>2, <2>4
    <3>. HIDE DEF cpu, all
    <3>. QED  BY Zenon, <2>1, <3>1, IncreasesFit
  <2>. QED  BY Zenon, <2>3, <2>4
<1>. QED  BY Zenon, <1>2, <1>3, <1>4

\* No watts at all: no endpoint has any.
LEMMA EmptyWatts ==
    ASSUME NEW w, w \in [DOMAIN w -> Nat]
    PROVE  w = Empty <=> DOMAIN w = {}
BY Zenon DEF Empty

\* BalancerInv holds in the beginning.
LEMMA BalancerStarts == Init => BalancerInv
<1>. SUFFICES ASSUME Init PROVE BalancerInv
  BY Zenon
<1>1. BalancerInit
  BY Zenon DEF Init
<1>. QED  BY Zenon, <1>1 DEF BalancerInit, BalancerInv, PieceInv, Empty

\* What BalancerInv says of a service port in the map.
ScoredPort(p) ==
    /\ state[p] = "done" /\ Scores[p] = normalizeScores(watts[p])
    /\ DOMAIN watts[p] # {} /\ \E slice \in Slices[p] : DOMAIN watts[p] \subseteq slice

\* A step about one service port leaves the others as they are.
OthersKept(p) ==
    \A q \in ServicePorts \ {p} : state'[q] = state[q] /\ todo'[q] = todo[q] /\ watts'[q] = watts[q]

\* A step about one service port keeps BalancerInv if it keeps what that says of the port.
LEMMA OnePort ==
    ASSUME BalancerInv, NEW p \in ServicePorts, OthersKept(p),
           DOMAIN state' = ServicePorts, DOMAIN todo' = ServicePorts, DOMAIN watts' = ServicePorts,
           DOMAIN Scores' \subseteq ServicePorts,
           \A q \in DOMAIN Scores' \ {p} : q \in DOMAIN Scores /\ Scores'[q] = Scores[q],
           PieceInv(p)', p \in DOMAIN Scores' => ScoredPort(p)'
    PROVE  BalancerInv'
<1>1. \A q \in ServicePorts : PieceInv(q)'
  BY DEF BalancerInv, OthersKept, PieceInv
<1>2. \A q \in DOMAIN Scores' : ScoredPort(q)'
  BY ZenonT(60) DEF BalancerInv, OthersKept, ScoredPort
<1>. QED  BY ZenonT(60), <1>1, <1>2 DEF BalancerInv, ScoredPort

\* Score begins.
LEMMA StartScoreKept == ASSUME BalancerInv, StartScore PROVE BalancerInv'
<1>1. /\ Scores' = [p \in {} |-> Empty] /\ watts' = [p \in ServicePorts |-> Empty]
      /\ state' = [p \in ServicePorts |-> "queued"] /\ todo' = todo
  BY Zenon DEF StartScore
<1>2. \A p \in ServicePorts : PieceInv(p)'
  BY Zenon, <1>1 DEF PieceInv, Empty
<1>. QED  BY Zenon, <1>1, <1>2 DEF BalancerInv

\* ScoreService takes a slice, or leaves the service port out.
LEMMA ScoreServiceKept == ASSUME BalancerInv, NEW p \in ServicePorts, ScoreService(p) PROVE BalancerInv'
<1>1. state[p] = "queued" /\ UNCHANGED <<watts, Scores>> /\ p \notin DOMAIN Scores
  BY Zenon DEF ScoreService, BalancerInv
<1>2. watts[p] = Empty /\ DOMAIN watts[p] = {} /\ watts[p] \in [DOMAIN watts[p] -> Nat]
  BY Zenon, <1>1 DEF BalancerInv, PieceInv, Empty
<1>3. ASSUME NEW slice \in Slices[p], todo' = [todo EXCEPT ![p] = slice], state' = [state EXCEPT ![p] = "scoring"]
      PROVE  BalancerInv'
  <2>1. /\ OthersKept(p) /\ DOMAIN state' = ServicePorts /\ DOMAIN todo' = ServicePorts
        /\ state'[p] = "scoring" /\ todo'[p] = slice /\ watts' = watts
    BY Zenon, <1>1, <1>3 DEF OthersKept, BalancerInv
  <2>2. PieceInv(p)'
    BY ZenonT(60), <1>2, <2>1 DEF PieceInv
  <2>. QED  BY Zenon, <1>1, <2>1, <2>2, OnePort DEF BalancerInv
<1>4. ASSUME UNCHANGED todo, state' = [state EXCEPT ![p] = "done"] PROVE BalancerInv'
  <2>1. /\ OthersKept(p) /\ DOMAIN state' = ServicePorts /\ DOMAIN todo' = ServicePorts
        /\ state'[p] = "done" /\ watts' = watts
    BY Zenon, <1>1, <1>4 DEF OthersKept, BalancerInv
  <2>2. PieceInv(p)'
    BY ZenonT(60), <1>2, <2>1 DEF PieceInv
  <2>. QED  BY ZenonT(60), <1>1, <2>1, <2>2, OnePort DEF BalancerInv
<1>. QED  BY Zenon, <1>3, <1>4 DEF ScoreService

\* ScoreNode adds the watts of an endpoint, or leaves it out.
LEMMA ScoreNodeKept ==
    ASSUME BalancerInv, PowersFit, process = "balancer",
           NEW p \in ServicePorts, NEW e \in DOMAIN NodeOf, ScoreNode(p, e)
    PROVE  BalancerInv'
<1>1. /\ state[p] = "scoring" /\ e \in todo[p] /\ todo' = [todo EXCEPT ![p] = @ \ {e}]
      /\ UNCHANGED <<state, Scores>> /\ p \notin DOMAIN Scores
  BY Zenon DEF ScoreNode, BalancerInv
<1>2. PICK w \in NodeWatts(NodeOf[e], cpuPerRequest(p), Cardinality(Busy) > 1) :
          watts' = IF w = None THEN watts
                   ELSE [watts EXCEPT ![p] = [x \in DOMAIN watts[p] \cup {e} |-> IF x = e THEN w ELSE watts[p][x]]]
  BY ZenonT(60) DEF ScoreNode
<1>3. w # None => w \in Nat
  BY Zenon, NodeWattsFit, BalancerConstants, NoNumber
<1>4. PICK slice \in Slices[p] : DOMAIN watts[p] \cup todo[p] \subseteq slice
  BY Zenon, <1>1 DEF BalancerInv, PieceInv
<1>5. /\ OthersKept(p) /\ DOMAIN todo' = ServicePorts /\ DOMAIN watts' = ServicePorts
      /\ todo'[p] = todo[p] \ {e}
  BY Zenon, <1>1, <1>2 DEF OthersKept, BalancerInv
<1>6. watts'[p] \in [DOMAIN watts'[p] -> Nat] /\ DOMAIN watts'[p] \subseteq DOMAIN watts[p] \cup {e}
  <2>1. watts[p] \in [DOMAIN watts[p] -> Nat]
    BY Zenon DEF BalancerInv, PieceInv
  <2>2. CASE w = None
    BY SMTT(60), <1>2, <2>1, <2>2
  <2>3. CASE w # None
    <3>1. watts'[p] = [x \in DOMAIN watts[p] \cup {e} |-> IF x = e THEN w ELSE watts[p][x]]
      BY ZenonT(60), <1>2, <2>3 DEF BalancerInv
    <3>. QED  BY Zenon, <1>3, <2>1, <2>3, <3>1
  <2>. QED  BY ZenonT(60), <2>2, <2>3
<1>7. PieceInv(p)'
  BY ZenonT(60), <1>1, <1>4, <1>5, <1>6 DEF PieceInv
<1>. QED  BY ZenonT(60), <1>1, <1>5, <1>7, OnePort DEF BalancerInv

\* A write to the map begins, if there is something to write.
LEMMA BeginWriteKept == ASSUME BalancerInv, NEW p \in ServicePorts, BeginWrite(p) PROVE BalancerInv'
<1>1. /\ state[p] = "scoring" /\ UNCHANGED <<todo, watts, Scores>> /\ p \notin DOMAIN Scores
      /\ state' = [state EXCEPT ![p] = IF watts[p] = Empty THEN "done" ELSE "writing"]
  BY ZenonT(60) DEF BeginWrite, BalancerInv
<1>2. /\ OthersKept(p) /\ DOMAIN state' = ServicePorts
      /\ state'[p] = IF watts[p] = Empty THEN "done" ELSE "writing"
  BY Zenon, <1>1 DEF OthersKept, BalancerInv
<1>3. PieceInv(p)'
  BY Zenon, <1>1, <1>2 DEF BalancerInv, PieceInv
<1>. QED  BY ZenonT(60), <1>1, <1>2, <1>3, OnePort DEF BalancerInv

\* A write to the map ends, or is lost.
LEMMA FinishWriteKept == ASSUME BalancerInv, NEW p \in ServicePorts, FinishWrite(p) PROVE BalancerInv'
<1>. DEFINE written == [q \in DOMAIN Scores \cup {p} |-> IF q = p THEN normalizeScores(watts[p]) ELSE Scores[q]]
<1>1. /\ state[p] = "writing" /\ UNCHANGED <<todo, watts>> /\ p \notin DOMAIN Scores
      /\ state' = [state EXCEPT ![p] = "done"]
  BY Zenon DEF FinishWrite, BalancerInv
<1>2. Scores' \in {written, Scores}
  <2>1. Scores' \in {written} \cup (IF Cardinality({q \in ServicePorts : state[q] = "writing"}) > 1 THEN {Scores} ELSE {})
    BY ZenonT(60) DEF FinishWrite
  <2>. QED  BY Zenon, <2>1
<1>3. /\ OthersKept(p) /\ DOMAIN state' = ServicePorts /\ state'[p] = "done"
  BY Zenon, <1>1 DEF OthersKept, BalancerInv
<1>4. PieceInv(p)'
  BY Zenon, <1>1, <1>3 DEF BalancerInv, PieceInv
<1>5. /\ watts[p] # Empty /\ watts[p] \in [DOMAIN watts[p] -> Nat]
      /\ \E slice \in Slices[p] : DOMAIN watts[p] \subseteq slice
  BY Zenon, <1>1 DEF BalancerInv, PieceInv
<1>6. DOMAIN watts[p] # {}
  BY ZenonT(60), <1>5, EmptyWatts
<1>7. /\ DOMAIN Scores' \subseteq ServicePorts
      /\ \A q \in DOMAIN Scores' \ {p} : q \in DOMAIN Scores /\ Scores'[q] = Scores[q]
      /\ p \in DOMAIN Scores' => Scores'[p] = normalizeScores(watts[p])
  BY ZenonT(60), <1>1, <1>2 DEF BalancerInv
<1>8. p \in DOMAIN Scores' => ScoredPort(p)'
  BY Zenon, <1>1, <1>3, <1>5, <1>6, <1>7 DEF ScoredPort
<1>. QED  BY ZenonT(60), <1>1, <1>3, <1>4, <1>7, <1>8, OnePort DEF BalancerInv

\* Every step keeps BalancerInv.
LEMMA BalancerKept == BalancerInv /\ PowersFit /\ [Next]_allVars => BalancerInv'
<1>. SUFFICES ASSUME BalancerInv, PowersFit, [Next]_allVars PROVE BalancerInv'
  BY Zenon
<1>1. CASE UNCHANGED balancer
  BY ZenonT(60), <1>1 DEF balancer, BalancerInv, PieceInv
<1>2. CASE process = "balancer" /\ Balance
  BY Zenon, <1>2, StartScoreKept, ScoreServiceKept, ScoreNodeKept, BeginWriteKept, FinishWriteKept DEF Balance
<1>. QED  BY ZenonT(60), <1>1, <1>2 DEF Next, allVars

\* BalancerInv implies ScoresRankEndpoints.
LEMMA BalancerRanks == BalancerInv => ScoresRankEndpoints
<1>. SUFFICES ASSUME BalancerInv, NEW p \in DOMAIN Scores
              PROVE  /\ DOMAIN Scores[p] # {} /\ \E slice \in Slices[p] : DOMAIN Scores[p] \subseteq slice
                     /\ \A e \in DOMAIN Scores[p] : Scores[p][e] \in 0..ScoreTop
                     /\ \E e \in DOMAIN Scores[p] : Scores[p][e] = ScoreTop
                     /\ \A e, f \in DOMAIN Scores[p] : watts[p][e] < watts[p][f] => Scores[p][e] >= Scores[p][f]
                     /\ \A e \in DOMAIN Scores[p] : Scores[p][e] = 0 =>
                           \E f \in DOMAIN Scores[p] : watts[p][e] > 2 * ScoreTop * watts[p][f]
  BY ZenonT(60) DEF ScoresRankEndpoints
<1>1. /\ Scores[p] = normalizeScores(watts[p]) /\ watts[p] \in [DOMAIN watts[p] -> Nat] /\ DOMAIN watts[p] # {}
      /\ \E slice \in Slices[p] : DOMAIN watts[p] \subseteq slice
  BY Zenon DEF BalancerInv, PieceInv
<1>2. DOMAIN Scores[p] = DOMAIN watts[p]
  BY ZenonT(60), <1>1, NormalizedRanks
<1>. QED  BY Zenon, <1>1, <1>2, NormalizedRanks

\* For all services, endpoints and models, and any number of workers: whatever is in the map
\* Scores ranks endpoints of one slice by their watts, with the top score for the least.
THEOREM EndpointsRankedByPower == Spec /\ []PowersFit => []ScoresRankEndpoints
BY BalancerStarts, BalancerKept, BalancerRanks, PTL DEF Spec

-----------------------------------------------------------------------------
(* The composition. *)

\* A scheduler that scores nodes too spreads pods as PodSpread does, so that what is proved of
\* SpreadSpec holds of it.
THEOREM SchedulerSpreads == Spec => SpreadSpec
<1>1. Init => SpreadInit
  BY Zenon DEF Init
<1>2. [Next]_allVars => [SpreadNext]_spreading
  BY Zenon DEF Next, allVars
<1>. QED  BY <1>1, <1>2, PTL DEF Spec, SpreadSpec
=============================================================================
