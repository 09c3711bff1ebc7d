-------------------------------- MODULE Fees --------------------------------
(* What the signing functions of src/src/lib.rs ask of a fee, a meter limit  *)
(* and a deadline, and what the client makes of the prices a gateway quotes. *)
(* Amounts are u128 and saturate; the constants stand for the code's.        *)
EXTENDS Integers

CONSTANTS Cap,             \* u128::MAX
          DeployPrice,     \* DEPLOY_FEE_MICRO_USD
          BandFloor,       \* FEE_BAND_FLOOR_MICRO_USD
          BandCeiling,     \* FEE_BAND_CEILING_MICRO_USD
          NativeMeter,     \* NATIVE_TRANSFER_METER
          MaxMeter,        \* MAX_METER_LIMIT
          MaxDeployMeter,  \* MAX_DEPLOY_METER_LIMIT
          MaxCallArgs,     \* MAX_CALL_ARGS
          Validity,        \* DEFAULT_VALIDITY_BLOCKS
          MaxValidity,     \* MAX_VALIDITY_BLOCKS
          MaxHead          \* MAX_PLAUSIBLE_HEAD

ASSUME FeeAssumption ==
  /\ Cap \in Nat \ {0} /\ DeployPrice \in Nat \ {0}
  /\ BandFloor \in Nat \ {0} /\ BandCeiling \in Nat \ {0}
  /\ DeployPrice = BandFloor * (DeployPrice \div BandFloor)
  /\ DeployPrice = BandCeiling * (DeployPrice \div BandCeiling)
ASSUME MeterAssumption ==
  /\ NativeMeter \in Nat /\ MaxMeter \in Nat /\ MaxDeployMeter \in Nat /\ MaxCallArgs \in Nat
  /\ NativeMeter <= MaxMeter /\ MaxMeter <= MaxDeployMeter
ASSUME DeadlineAssumption ==
  /\ Validity \in Nat \ {0} /\ MaxValidity \in Nat /\ MaxHead \in Nat
  /\ Validity <= MaxValidity

Unquoted == -1     \* the gateway reports no deploy fee with its rate

Saturated(n) == IF n > Cap THEN Cap ELSE n

\* The prices of a NodeInfo: amounts are of the width.
Amount == 0 .. Cap
Quote == [transfer : Amount, deploy : Amount \cup {Unquoted}, rate : Amount, unit : Amount]

-----------------------------------------------------------------------------
\* Five dollars in Quon at the quoted rate; checked_div of zero gives 0.
DeployFeeDue(q) ==
  IF q.rate = 0 THEN 0 ELSE Saturated(DeployPrice * q.unit) \div q.rate

\* A slip: the network fee is not held to the band.
DeployFeeHoldsAtAnyRate(q) ==
  /\ q.deploy # Unquoted /\ q.rate # 0 /\ q.unit # 0
  /\ q.deploy = DeployFeeDue(q)

\* deploy_fee_of answers with the fee: it is five dollars, and the rate puts
\* the network fee inside its band.
DeployFeeHolds(q) ==
  /\ q.deploy # Unquoted /\ q.rate # 0 /\ q.unit # 0
  /\ q.deploy = DeployFeeDue(q)
  /\ q.transfer >= Saturated(BandFloor * q.unit) \div q.rate
  /\ q.transfer <= Saturated(BandCeiling * q.unit) \div q.rate

\* vm_call_fee: the meter limit costs nothing.
VmCallFee(transfer) == transfer

\* The fee a call pays, before it is held against the caller's maximum.
FeeOf(q, deploys) ==
  IF deploys THEN Saturated(VmCallFee(q.transfer) + q.deploy) ELSE VmCallFee(q.transfer)

\* check_call_under on the fee: the flat fee, and for a deploy what five
\* dollars can come to at any rate that keeps the flat fee in its band.
FeeAdmitted(fee, transfer, deploys) ==
  LET required == VmCallFee(transfer)
      extra    == fee - required
  IN  IF deploys
      THEN /\ extra > 0
           /\ extra >= Saturated(transfer * (DeployPrice \div BandCeiling))
           /\ extra <= Saturated(Saturated(transfer + 1) * (DeployPrice \div BandFloor))
      ELSE fee = required

\* check_call_under on the meter limit and the arguments.
MeterAdmitted(meter, args, deploys) ==
  /\ meter \in NativeMeter .. (IF deploys THEN MaxDeployMeter ELSE MaxMeter)
  /\ args <= MaxCallArgs

\* check_deadline and check_valid_until.
CheckValidUntil(until, head) ==
  /\ until # 0
  /\ until <= MaxHead + MaxValidity
  /\ until > head /\ until - head <= MaxValidity

-----------------------------------------------------------------------------
\* A quote whose products fit the width and whose deploy fee is not nothing.
InRange(q) ==
  /\ q.deploy > 0
  /\ DeployPrice * q.unit <= Cap
  /\ BandFloor * q.unit <= Cap /\ BandCeiling * q.unit <= Cap
  /\ q.transfer + q.deploy <= Cap
=============================================================================
