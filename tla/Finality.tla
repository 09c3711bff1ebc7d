------------------------------ MODULE Finality ------------------------------
(* What src/src/finality.rs accepts as proof that a header is final, and     *)
(* that a roster is the one the chain committed for the next epoch.  Hashes  *)
(* are collision free: a header is the record of what it binds.  Signatures  *)
(* and sortition proofs (qtv_crypto, qtv_sampler) are external: an           *)
(* attestation verifies when its key's owner made it.                        *)
EXTENDS Integers, FiniteSets, FiniteSetsExt, Sequences

CONSTANTS EpochLength,   \* blocks in an epoch
          MinSelfStake,  \* MIN_SELF_STAKE
          MaxActive,     \* MAX_ACTIVE_VALIDATORS
          FaultyKeys,    \* keys whose owner attests anything
          HonestVotes    \* [key, block, view]: what the other owners attested

ASSUME EpochLengthAssumption == EpochLength \in Nat \ {0}
ASSUME ActiveAssumption == MinSelfStake \in Nat /\ MaxActive \in Nat

(* A member is [id, key, stake]; a roster is a set of members; a header is   *)
(* [height, commits] where commits = [epoch, roster] is the roster its state *)
(* root commits to; a certificate is [block, atts] with the attestations     *)
(* [from, block, view] in a sequence.                                        *)

-----------------------------------------------------------------------------
TotalStake(members) == MapThenSumSet(LAMBDA m : m.stake, members)

\* The order active_set sorts by.
Outranks(m, n) == m.stake > n.stake \/ (m.stake = n.stake /\ m.id < n.id)

\* Enough self stake, and among the MaxActive that come first.
ActiveSet(roster) ==
  LET eligible == {m \in roster : m.stake >= MinSelfStake}
  IN  {m \in eligible : Cardinality({n \in eligible : Outranks(n, m)}) < MaxActive}

\* No validator and no attestation key twice.
WellFormedRoster(roster) ==
  /\ roster # {}
  /\ \A m, n \in roster : m.id = n.id \/ m.key = n.key => m = n

\* ml_dsa::verify
Verifies(key, att) ==
  \/ key \in FaultyKeys
  \/ [key |-> key, block |-> att.block, view |-> att.view] \in HonestVotes

\* A slip: the attestations may come from several views.
SoundAttestationAnyView(cert, active, i) ==
  LET att == cert.atts[i]
  IN  /\ att.block = cert.block
      /\ \A j \in 1 .. i - 1 : cert.atts[j].from # att.from
      /\ \E m \in active : m.id = att.from /\ Verifies(m.key, att)

\* One turn of the loop over the attestations.
SoundAttestation(cert, active, i) ==
  LET att == cert.atts[i]
  IN  /\ att.block = cert.block
      /\ att.view = cert.atts[1].view
      /\ \A j \in 1 .. i - 1 : cert.atts[j].from # att.from
      /\ \E m \in active : m.id = att.from /\ Verifies(m.key, att)

\* A slip: inactive validators count towards the total.
TotalOfRoster(roster) == TotalStake(roster)

Total(roster) == TotalStake(ActiveSet(roster))

\* Strictly more than two thirds of the active stake.
HasQuorum(signed, total) == 3 * signed > 2 * total

VerifyFinality(header, cert, roster) ==
  LET active == ActiveSet(roster)
      signers == {cert.atts[i].from : i \in DOMAIN cert.atts}
      signed == TotalStake({m \in active : m.id \in signers})
  IN  /\ WellFormedRoster(roster)
      /\ Total(roster) > 0
      /\ cert.block = header
      /\ cert.atts # <<>>
      /\ \A i \in DOMAIN cert.atts : SoundAttestation(cert, active, i)
      /\ HasQuorum(signed, Total(roster))

-----------------------------------------------------------------------------
EpochOf(height) == height \div EpochLength

\* A verified roster is [epoch, members].
VerifyFinalityInEpoch(current, header, cert) ==
  /\ EpochOf(header.height) = current.epoch
  /\ VerifyFinality(header, cert, current.members)

\* The last block of an epoch, whose state commits the next roster.
SealingHeight(epoch) == (epoch + 1) * EpochLength - 1

\* A slip: any block of the epoch may carry the proof.
VerifyNextRosterAnyHeight(current, header, cert, members) ==
  /\ members # {}
  /\ VerifyFinalityInEpoch(current, header, cert)
  /\ header.commits = [epoch |-> current.epoch + 1, roster |-> members]

VerifyNextRoster(current, header, cert, members) ==
  /\ members # {}
  /\ header.height = SealingHeight(current.epoch)
  /\ VerifyFinalityInEpoch(current, header, cert)
  /\ header.commits = [epoch |-> current.epoch + 1, roster |-> members]
=============================================================================
