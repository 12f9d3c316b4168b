----------------------------- MODULE Threshold -----------------------------
(***************************************************************************)
(* The threshold cryptography of packages/wallets/src: Shamir sharing,     *)
(* the two key ceremonies (Feldman and GJKR), FROST signing and the        *)
(* committee's decryption.  Scalars are taken modulo a small prime.  A     *)
(* point of the subgroup is <<x, y>>, standing for x * BASE8 + y * H: the  *)
(* discrete logarithm of H is known to nobody, so the two never mix.       *)
(* Randomness and hashes are small numbers; every check is an equation in  *)
(* the group, and none of what is stated below depends on their values.    *)
(***************************************************************************)
EXTENDS Integers, FiniteSets, SequencesExt, FiniteSetsExt

CONSTANTS
  SUBORDER,      \* a prime
  N,             \* participants 1 .. N
  T              \* threshold

ASSUME ThresholdConstants ==
  /\ {SUBORDER, N, T} \subseteq Nat /\ SUBORDER > N /\ N >= T /\ T > 0
  /\ \A d \in 2 .. SUBORDER - 1 : SUBORDER % d # 0

participants == 1 .. N

(***************************************************************************)
(* Scalars and points                                                      *)
(***************************************************************************)
modSub(x) == x % SUBORDER
invSub(x) == CHOOSE y \in 1 .. SUBORDER - 1 : modSub(x * y) = 1

IDENTITY == <<0, 0>>
H == <<0, 1>>
pointAdd(p, q) == <<modSub(p[1] + q[1]), modSub(p[2] + q[2])>>
scalarMul(k, p) == <<modSub(k * p[1]), modSub(k * p[2])>>
scalarBaseMul(k) == scalarMul(k, <<1, 0>>)

\* A point that is on the curve and not in the subgroup.
OffSubgroupPoint == <<-1, -1>>
inSubgroupNonId(p) == p \notin {IDENTITY, OffSubgroupPoint}

SumPoints(points) == FoldLeft(pointAdd, IDENTITY, points)

\* Poseidon2 to a scalar.  Zero, which it meets with probability 1/SUBORDER,
\* is left out.
hashToScalar(fields) ==
  1 + FoldLeft(LAMBDA acc, x : (3 * acc + x + 2) % (SUBORDER - 1), 0, fields)

(***************************************************************************)
(* Shamir sharing and its commitments                                      *)
(***************************************************************************)
\* Horner's rule, from the last coefficient.
polyEval(coeffs, x) == FoldLeft(LAMBDA acc, a : modSub(acc * x + a), 0, Reverse(coeffs))

lagrangeAtZero(i, xs) ==
  LET others == xs \ {i}
      num == FoldSet(LAMBDA j, acc : modSub(acc * j), 1, others)
      den == FoldSet(LAMBDA j, acc : modSub(acc * modSub(j - i)), 1, others) IN
  modSub(num * invSub(den))

interpolateAtZero(shares, quorum) ==
  FoldSet(LAMBDA i, acc : modSub(acc + lagrangeAtZero(i, quorum) * shares[i]), 0, quorum)

\* The committed polynomial at id, in the exponent.
InExponent(id, commitments) ==
  FoldLeft(LAMBDA acc, com : pointAdd(scalarMul(id, acc), com), IDENTITY, Reverse(commitments))

feldmanCommit(coeffs) == [k \in DOMAIN coeffs |-> scalarBaseMul(coeffs[k])]
feldmanVerifyShare(id, share, commitments) == scalarBaseMul(share) = InExponent(id, commitments)

pedersenCommit(a, b) ==
  [k \in DOMAIN a |-> pointAdd(scalarBaseMul(a[k]), scalarMul(b[k], H))]
pedersenVerifyShare(id, f, fPrime, commitments) ==
  pointAdd(scalarBaseMul(f), scalarMul(fPrime, H)) = InExponent(id, commitments)

(***************************************************************************)
(* The ceremonies                                                          *)
(***************************************************************************)
popChallenge(id, com0, R) == hashToScalar(<<id>> \o com0 \o R)
provePoP(id, secret, k) ==
  LET R == scalarBaseMul(k) IN
  [R |-> R, z |-> modSub(k + popChallenge(id, scalarBaseMul(secret), R) * secret)]
verifyPoP(id, commitments, pop) ==
  scalarBaseMul(pop.z)
    = pointAdd(pop.R, scalarMul(popChallenge(id, commitments[1], pop.R), commitments[1]))

sharesOf(coeffs) == [j \in participants |-> polyEval(coeffs, j)]

\* The fault both drivers can inject: the first other member's share is wrong.
corrupted(id, shares) ==
  LET victim == Min(participants \ {id}) IN [shares EXCEPT ![victim] = modSub(@ + 1)]

dealerContribute(id, coeffs) ==
  [id |-> id, commitments |-> feldmanCommit(coeffs), shares |-> sharesOf(coeffs),
   pop |-> provePoP(id, coeffs[1], id)]

verifyContribution(recipient, c) ==
  /\ feldmanVerifyShare(recipient, c.shares[recipient], c.commitments)
  /\ verifyPoP(c.id, c.commitments, c.pop)

\* C, each member's share and its public counterpart.
aggregate(contributions) ==
  LET shares == [i \in participants |->
                   FoldLeft(LAMBDA acc, c : modSub(acc + c.shares[i]), 0, contributions)] IN
  [C |-> SumPoints([d \in DOMAIN contributions |-> contributions[d].commitments[1]]),
   shares |-> shares,
   V |-> [i \in participants |-> scalarBaseMul(shares[i])],
   qual |-> [d \in DOMAIN contributions |-> contributions[d].id]]

InOrder(ids) == SetToSortSeq(ids, <)

Failed(why) == [error |-> why]
Formed(contributions) ==
  LET r == aggregate(contributions) IN
  [error |-> "none", C |-> r.C, shares |-> r.shares, V |-> r.V, qual |-> r.qual]

\* Every member's share of a dealer is checked, and the dealer's proof; one
\* complaint disqualifies.
runDkg(coeffs, badShare, badPop) ==
  LET contribution(id) ==
        LET c == dealerContribute(id, coeffs[id]) IN
        [c EXCEPT !.shares = IF id \in badShare THEN corrupted(id, @) ELSE @,
                  !.pop.z = IF id \in badPop THEN modSub(@ + 1) ELSE @]
      qual == {id \in participants : \A j \in participants : verifyContribution(j, contribution(id))}
      order == InOrder(qual) IN
  IF qual = {} THEN Failed("no qualified dealers")
  ELSE Formed([d \in DOMAIN order |-> contribution(order[d])])

\* Slip: the loop over the members ends after the first.
qualified_first(commitments, f, fPrime) == pedersenVerifyShare(1, f[1], fPrime[1], commitments)

\* GJKR qualifies on the hiding commitments, before anything of the key shows.
qualified(commitments, f, fPrime) ==
  \A j \in participants : pedersenVerifyShare(j, f[j], fPrime[j], commitments)

\* Only then are the commitments to the key revealed; a reveal that contradicts
\* the shares, or a proof that fails, ends the ceremony.
runGjkrDkg(coeffs, blinds, badShare) ==
  LET f(id) == IF id \in badShare THEN corrupted(id, sharesOf(coeffs[id])) ELSE sharesOf(coeffs[id])
      qual == {id \in participants :
                 qualified(pedersenCommit(coeffs[id], blinds[id]), f(id), sharesOf(blinds[id]))}
      revealed(id) == [dealerContribute(id, coeffs[id]) EXCEPT !.shares = f(id)]
      order == InOrder(qual) IN
  IF qual = {} THEN Failed("no qualified dealers")
  ELSE IF \E id \in qual, j \in participants : ~verifyContribution(j, revealed(id))
    THEN Failed("reveal inconsistent")
  ELSE Formed([d \in DOMAIN order |-> revealed(order[d])])

(***************************************************************************)
(* FROST                                                                   *)
(***************************************************************************)
\* Two nonces out of fresh randomness and the secret share.
commit(id, secret, fresh) ==
  LET d == hashToScalar(<<fresh, secret>>)
      e == hashToScalar(<<fresh + 1, secret>>) IN
  [nonces |-> [d |-> d, e |-> e],
   commitment |-> [id |-> id, D |-> scalarBaseMul(d), E |-> scalarBaseMul(e)]]

\* A list of commitments is a function from signers to commitments.
FieldsOf(commitments) ==
  FlattenSeq([k \in 1 .. Cardinality(DOMAIN commitments) |->
    LET c == commitments[InOrder(DOMAIN commitments)[k]] IN <<c.id>> \o c.D \o c.E])

bindingFactors(gpk, msg, commitments) ==
  LET list == hashToScalar(FieldsOf(commitments)) IN
  [id \in DOMAIN commitments |-> hashToScalar(gpk \o <<msg, list, id>>)]

groupCommitment(commitments, rhos) ==
  FoldSet(LAMBDA id, R : pointAdd(R, pointAdd(commitments[id].D,
                                              scalarMul(rhos[id], commitments[id].E))),
          IDENTITY, DOMAIN commitments)

challenge(R, gpk, msg) == hashToScalar(R \o gpk \o <<msg>>)

\* Slip: interpolates over the group and not over the signers.
lagrangeCoefficient_group(id, signerSet) == lagrangeAtZero(id, participants)

lagrangeCoefficient(id, signerSet) == lagrangeAtZero(id, signerSet)

\* What both sides of a share compute from the list.
Round(gpk, msg, commitments) ==
  LET rhos == bindingFactors(gpk, msg, commitments)
      R == groupCommitment(commitments, rhos) IN
  [rhos |-> rhos, R |-> R, c |-> challenge(R, gpk, msg)]

signShareUnchecked(id, nonces, secretShare, gpk, msg, commitments) ==
  LET r == Round(gpk, msg, commitments)
      lambda == lagrangeCoefficient(id, DOMAIN commitments) IN
  modSub(nonces.d + nonces.e * r.rhos[id] + lambda * secretShare * r.c)

verifySignatureShare(id, z, publicShare, gpk, msg, commitments) ==
  /\ id \in DOMAIN commitments
  /\ LET r == Round(gpk, msg, commitments)
         lambda == lagrangeCoefficient(id, DOMAIN commitments)
         commShare == pointAdd(commitments[id].D, scalarMul(r.rhos[id], commitments[id].E)) IN
     scalarBaseMul(z) = pointAdd(commShare, scalarMul(modSub(r.c * lambda), publicShare))

aggregateShares(R, zShares) == [R |-> R, z |-> FoldLeft(LAMBDA a, z : modSub(a + z), 0, zShares)]

\* Duplicates, then the number, then share after share; only then the sum.
coordinatorAggregate(gpk, msg, commitments, partials, publicShares) ==
  LET ids == {partials[p].id : p \in DOMAIN partials}
      bad(p) == ~verifySignatureShare(partials[p].id, partials[p].z, publicShares[partials[p].id],
                                      gpk, msg, commitments) IN
  IF Cardinality(ids) < Len(partials) THEN [error |-> "duplicate", blamed |-> {}]
  ELSE IF Cardinality(ids) < T THEN [error |-> "below threshold", blamed |-> {}]
  ELSE IF \E p \in DOMAIN partials : bad(p)
    THEN [error |-> "failed verification",
          blamed |-> {partials[Min({p \in DOMAIN partials : bad(p)})].id}]
  ELSE [error |-> "none", blamed |-> {},
        signature |-> aggregateShares(Round(gpk, msg, commitments).R,
                                      [p \in DOMAIN partials |-> partials[p].z])]

verify(gpk, msg, sig) ==
  scalarBaseMul(sig.z) = pointAdd(sig.R, scalarMul(challenge(sig.R, gpk, msg), gpk))

(***************************************************************************)
(* The committee's decryption                                              *)
(***************************************************************************)
transcript(epk, V, D, A, B) == epk \o V \o D \o A \o B

cpProve(secret, epk, k) ==
  LET V == scalarBaseMul(secret)
      D == scalarMul(secret, epk)
      A == scalarBaseMul(k)
      B == scalarMul(k, epk) IN
  [D |-> D, A |-> A, B |-> B, z |-> modSub(k + hashToScalar(transcript(epk, V, D, A, B)) * secret)]

cpVerify(V, epk, proof) ==
  /\ inSubgroupNonId(proof.D)
  /\ LET e == hashToScalar(transcript(epk, V, proof.D, proof.A, proof.B)) IN
     /\ scalarBaseMul(proof.z) = pointAdd(proof.A, scalarMul(e, V))
     /\ scalarMul(proof.z, epk) = pointAdd(proof.B, scalarMul(e, proof.D))

partialDecrypt(id, share, ephPub, k) == [id |-> id, proof |-> cpProve(share, ephPub, k)]

\* A partial that counts: of a known member, and proved.
Good(p, ephPub, V) == p.id \in DOMAIN V /\ cpVerify(V[p.id], ephPub, p.proof)

\* Slip: the quorum is counted before duplicates are dropped.
distinctGood_repeated(partials, ephPub, V) ==
  SelectSeq(partials, LAMBDA p : Good(p, ephPub, V))

\* The good partials in the order they came, each member's first only.
distinctGood(partials, ephPub, V) ==
  FoldLeft(LAMBDA kept, p :
             IF (\E k \in DOMAIN kept : kept[k].id = p.id) \/ ~Good(p, ephPub, V) THEN kept
             ELSE Append(kept, p),
           << >>, partials)

\* Interpolates in the exponent over all that were verified.
combine(ephPub, partials, V) ==
  LET verified == distinctGood(partials, ephPub, V)
      quorum == {verified[k].id : k \in DOMAIN verified} IN
  IF Len(verified) < T THEN [error |-> TRUE]
  ELSE [error |-> FALSE,
        S |-> SumPoints([k \in DOMAIN verified |->
                           scalarMul(lagrangeAtZero(verified[k].id, quorum), verified[k].proof.D)])]

\* The first T good ones are combined; whoever sent a bad one is named.
thresholdCekRobust(ephPub, allPartials, V) ==
  LET good == distinctGood(allPartials, ephPub, V)
      used == SubSeq(good, 1, T) IN
  IF Len(good) < T THEN [error |-> TRUE]
  ELSE [error |-> FALSE, cek |-> combine(ephPub, used, V).S[1],
        used |-> {used[k].id : k \in 1 .. T},
        excluded |-> {allPartials[p].id : p \in {p \in DOMAIN allPartials :
                        \A k \in 1 .. p : allPartials[k].id = allPartials[p].id =>
                                             ~Good(allPartials[k], ephPub, V)}}]

============================================================================
