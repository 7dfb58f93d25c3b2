------------------------- MODULE SecureAggregation -------------------------
(***************************************************************************)
(* Secure aggregation of client updates: two servers with additive shares  *)
(* and Feldman commitments (federated/verifiable_secagg.py), or Shamir     *)
(* shares (federated/secure.py).  The coordinates of an update are treated *)
(* alike, so an update is one number, in tenths of the fixed-point quantum *)
(* it is encoded with.  Primes, generator and threshold are small ones of  *)
(* the shape the code uses: P = 2Q + 1, and G of order Q.                  *)
(***************************************************************************)
EXTENDS Integers, Sequences, SequencesExt, FiniteSets, FiniteSetsExt

CONSTANTS GroupP, FieldQ, GroupG,  \* P, Q and G
          SharePrime,              \* PRIME of the Shamir field
          Shares, Threshold,       \* n_shares and threshold
          UpdateValues,            \* updates, in tenths of a quantum
          NoiseValues,             \* what the Gaussian may draw, in tenths
          ClipNorm,                \* dp_config.clip_norm, in tenths
          MaskValues,              \* what the random generator may draw
          MaxContributions

ASSUME SharesAssumption ==
  /\ FieldQ \in Nat /\ FieldQ > 1 /\ GroupP = 2 * FieldQ + 1
  /\ GroupG \in 2..(GroupP - 1)
  /\ {Shares, SharePrime, MaxContributions} \subseteq Nat
  /\ Threshold \in 2..Shares /\ Shares < SharePrime
  /\ UpdateValues \cup NoiseValues \cup {ClipNorm} \subseteq Int
  /\ MaskValues \subseteq 0..(FieldQ - 1)

VARIABLES scheme,    \* "two_server" or "shamir"
          released,  \* released[i]: what client i shared, in tenths
          contribs,  \* the ClientContributions: shares a and b, commitment
          summed,    \* summed[h]: the sum of the shares of holder h
          drift,     \* by how much servers have altered shares, mod Q
          outcome    \* the published results

agVars == <<scheme, released, contribs, summed, drift, outcome>>

Unpublished == [verified |-> FALSE, sum |-> 0, clients |-> 0]

AgInit ==
  /\ scheme \in {"two_server", "shamir"}
  /\ released = <<>> /\ contribs = <<>>
  /\ summed = [h \in 1..Shares |-> 0]
  /\ drift = 0
  /\ outcome = Unpublished

-----------------------------------------------------------------------------
(* Arithmetic.                                                             *)

\* pow(b, e, p).
PowMod(b, e, p) == FoldLeft(LAMBDA acc, i : (acc * b) % p, 1, [i \in 1..e |-> i])

\* _mod_inverse.
ModInverse(a, p) == PowMod(a % p, p - 2, p)

\* int(round(x * QUANT_SCALE)): Python rounds a half to the even neighbour.
Quantise(x) ==
  LET q == x \div 10
      r == x % 10
  IN  IF r < 5 \/ (r = 5 /\ q % 2 = 0) THEN q ELSE q + 1

\* _encode and _quantise: into the field, negatives wrapping.
Encode(x, q) == Quantise(x) % q

\* _decode, and _dequantise before its division.
Decode(e, q) == IF e % q > q \div 2 THEN (e % q) - q ELSE e % q

\* l2_clip of one coordinate.
L2Clip(x) == IF x > ClipNorm THEN ClipNorm ELSE IF x < -ClipNorm THEN -ClipNorm ELSE x

\* G has order Q, and Fermat's little theorem holds of PRIME.
ASSUME GroupAssumption ==
  /\ PowMod(GroupG, FieldQ, GroupP) = 1
  /\ \A k \in 1..(FieldQ - 1) : PowMod(GroupG, k, GroupP) # 1
  /\ \A a \in 1..(SharePrime - 1) : (a * ModInverse(a, SharePrime)) % SharePrime = 1

\* Both fields are wide enough for the sum of what clients may release.
ASSUME WidthAssumption ==
  \A x \in UpdateValues \cup {L2Clip(y) + noise : y \in UpdateValues, noise \in NoiseValues} :
    \A field \in {FieldQ, SharePrime} :
      /\ 2 * MaxContributions * Quantise(x) < field
      /\ -(2 * MaxContributions * Quantise(x)) < field

-----------------------------------------------------------------------------
(* The two servers.                                                        *)

\* Fault: the second share is not reduced to the field.
SplitContributionUnreduced(x, mask) ==
  LET e == Encode(x, FieldQ)
  IN  [a |-> mask, b |-> e - mask, commitment |-> PowMod(GroupG, e, GroupP)]

\* split_contribution: a mask, the rest, and g^x.
SplitContribution(x, mask) ==
  LET e == Encode(x, FieldQ)
  IN  [a |-> mask, b |-> (e - mask) % FieldQ, commitment |-> PowMod(GroupG, e, GroupP)]

Contribute(x, mask) ==
  /\ scheme = "two_server"
  /\ Len(contribs) < MaxContributions /\ outcome = Unpublished
  /\ released' = Append(released, x)
  /\ contribs' = Append(contribs, SplitContribution(x, mask))
  /\ UNCHANGED <<scheme, summed, drift, outcome>>

\* split_private_contribution: clip, add noise, and share the release.
ContributePrivately(x, noise, mask) == Contribute(L2Clip(x) + noise, mask)

\* A server holds another value than the client sent it.
AlterShare(i, v) ==
  /\ outcome = Unpublished
  /\ \/ /\ drift' = (drift + v - contribs[i].a) % FieldQ
        /\ contribs' = [contribs EXCEPT ![i].a = v]
     \/ /\ drift' = (drift + v - contribs[i].b) % FieldQ
        /\ contribs' = [contribs EXCEPT ![i].b = v]
  /\ UNCHANGED <<scheme, released, summed, outcome>>

\* reconstruct_contribution: what both servers together see of client i.
Reconstruct(i) == Decode(contribs[i].a + contribs[i].b, FieldQ)

\* _server_sum.
ServerSum(side) ==
  FoldLeft(LAMBDA acc, c : (acc + c[side]) % FieldQ, 0, contribs)

\* verify_against_commitments, and the check inside aggregate.
VerifyAgainstCommitments(s) ==
  PowMod(GroupG, s % FieldQ, GroupP) =
    FoldLeft(LAMBDA acc, c : (acc * c.commitment) % GroupP, 1, contribs)

\* Fault: the published aggregate is not checked.
AggregateUnchecked ==
  LET s == (ServerSum("a") + ServerSum("b")) % FieldQ
  IN  [verified |-> TRUE, sum |-> Decode(s, FieldQ), clients |-> Len(contribs)]

AggregateOf ==
  LET s == (ServerSum("a") + ServerSum("b")) % FieldQ
  IN  [verified |-> VerifyAgainstCommitments(s),
       sum |-> Decode(s, FieldQ), clients |-> Len(contribs)]

\* aggregate; without contributions it raises.
AggregateShares ==
  /\ contribs # <<>> /\ outcome = Unpublished
  /\ outcome' = AggregateOf
  /\ UNCHANGED <<scheme, released, contribs, summed, drift>>

-----------------------------------------------------------------------------
(* Shamir shares: a polynomial is a secret and its other coefficients.      *)

\* The x-coordinate of holder h.
HolderPoint(h) == h

\* What split draws for a secret: as many coefficients as hide it from fewer holders
\* than the threshold.
Coefficients == [1..(Threshold - 1) -> 0..(SharePrime - 1)]

\* What split accumulates for holder h over the coefficients, the lowest first: the
\* value y so far, and the next power of the holder's point.
Evaluated(coeffs, h) ==
  FoldLeft(LAMBDA acc, c : [y |-> (acc.y + c * acc.xp) % SharePrime,
                            xp |-> (acc.xp * HolderPoint(h)) % SharePrime],
           [y |-> 0, xp |-> 1], coeffs)

\* split: the share of holder h; the secret is the lowest coefficient.
ShareOf(secret, coeffs, h) == Evaluated(<<secret>> \o coeffs, h).y

\* Of Lagrange interpolation at 0: what reconstruct computes of holder j, among
\* the holders in hs.
Numerator(hs, j) ==
  FoldLeft(LAMBDA acc, m : IF m = j THEN acc ELSE (acc * (-HolderPoint(m))) % SharePrime,
           1, hs)

Denominator(hs, j) ==
  FoldLeft(LAMBDA acc, m :
             IF m = j THEN acc ELSE (acc * (HolderPoint(j) - HolderPoint(m))) % SharePrime,
           1, hs)

Weight(hs, j) == (Numerator(hs, j) * ModInverse(Denominator(hs, j), SharePrime)) % SharePrime

\* reconstruct, from the shares of the holders in H.
ReconstructSecret(ys, H) ==
  FoldLeft(LAMBDA acc, j : (acc + ys[j] * Weight(SetToSeq(H), j)) % SharePrime,
           0, SetToSeq(H))

\* secure_mean, one client of it: every holder adds its share to its sum.
ShareOut(x, coeffs) ==
  /\ scheme = "shamir"
  /\ Len(released) < MaxContributions /\ outcome = Unpublished
  /\ released' = Append(released, x)
  /\ summed' = [h \in 1..Shares |->
                  (summed[h] + ShareOf(Encode(x, SharePrime), coeffs, h)) % SharePrime]
  /\ UNCHANGED <<scheme, contribs, drift, outcome>>

\* secure_mean's end: the first holders, as many as the threshold, reconstruct.
SecureMean ==
  /\ scheme = "shamir"
  /\ released # <<>> /\ outcome = Unpublished
  /\ outcome' = [verified |-> TRUE,
                 sum |-> Decode(ReconstructSecret(summed, 1..Threshold), SharePrime),
                 clients |-> Len(released)]
  /\ UNCHANGED <<scheme, released, contribs, summed, drift>>

AgNext ==
  \/ \E x \in UpdateValues, mask \in MaskValues :
       \/ Contribute(x, mask)
       \/ \E noise \in NoiseValues : ContributePrivately(x, noise, mask)
  \/ \E i \in 1..Len(contribs), v \in MaskValues : AlterShare(i, v)
  \/ AggregateShares
  \/ \E x \in UpdateValues, coeffs \in Coefficients : ShareOut(x, coeffs)
  \/ SecureMean

AgSpec == AgInit /\ [][AgNext]_agVars

-----------------------------------------------------------------------------
AgTypeOK ==
  /\ scheme \in {"two_server", "shamir"}
  /\ Len(released) <= MaxContributions
  /\ \A i \in DOMAIN contribs :
       /\ contribs[i].a \in 0..(FieldQ - 1) /\ contribs[i].b \in 0..(FieldQ - 1)
       /\ contribs[i].commitment \in 1..(GroupP - 1)
  /\ drift \in 0..(FieldQ - 1)
  /\ summed \in [1..Shares -> 0..(SharePrime - 1)]
  /\ outcome.clients \in 0..MaxContributions

Absolute(i) == IF i < 0 THEN -i ELSE i
SumOfReleased == FoldLeft(LAMBDA acc, x : acc + x, 0, released)

\* What holders fewer than the threshold may see of a secret.
Views ==
  {<<H, secret, [h \in H |-> ShareOf(secret, coeffs, h)]>> :
     H \in {K \in SUBSET (1..Shares) : Cardinality(K) < Threshold},
     secret \in 0..(SharePrime - 1), coeffs \in Coefficients}

\* A published aggregate is verified exactly when the servers' alterations
\* cancel out, and then, like the result of secure_mean, it is the sum of what
\* the clients released to within half a quantum each, whatever the masks.
\* The two servers together learn a client's release, and nothing finer.
\* Any holders reaching the threshold recover the same sum, and what fewer of them
\* hold is what every other secret could have given them.
AggregateProven ==
  /\ outcome # Unpublished =>
       /\ outcome.verified <=> drift = 0
       /\ outcome.verified =>
            Absolute(10 * outcome.sum - SumOfReleased) <= 5 * outcome.clients
  /\ \A s \in 0..(FieldQ - 1) :
       scheme = "two_server" /\ VerifyAgainstCommitments(s) =>
         s = (ServerSum("a") + ServerSum("b") - drift) % FieldQ
  /\ drift = 0 /\ Len(contribs) = 1 => Reconstruct(1) = Quantise(released[1])
  /\ scheme = "shamir" /\ outcome # Unpublished =>
       \A H \in SUBSET (1..Shares) : Cardinality(H) >= Threshold =>
         Decode(ReconstructSecret(summed, H), SharePrime) = outcome.sum
  /\ scheme = "shamir" /\ released # <<>> =>
       \A H \in SUBSET (1..Shares), secret \in 0..(SharePrime - 1) :
         Cardinality(H) < Threshold => <<H, secret, [h \in H |-> summed[h]]>> \in Views
=============================================================================
