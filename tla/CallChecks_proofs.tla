-------------------------- MODULE CallChecks_proofs --------------------------
(* The two checks of a deploy fee agree, for every rate, unit and fee; and   *)
(* what follows from it, and from the list of addresses, for every call.     *)
EXTENDS CallChecks, TLAPS

\* What the quotient of two naturals is.
LEMMA Quotient ==
  ASSUME NEW a \in Nat, NEW b \in Nat \ {0}
  PROVE  /\ a \div b \in Nat
         /\ b * (a \div b) <= a
         /\ a < b * (a \div b) + b
  BY SMT

\* A number whose product with b fits under a is at most the quotient.
LEMMA QuotientIsLargest ==
  ASSUME NEW a \in Nat, NEW b \in Nat \ {0}, NEW n \in Nat, n * b <= a
  PROVE  n <= a \div b
<1> DEFINE q == a \div b
<1>1. q \in Nat /\ a < b * q + b
  BY Quotient
<1> HIDE DEF q
<1>2. SUFFICES ASSUME n >= q + 1 PROVE FALSE
  BY <1>1 DEF q
<1>3. n * b >= (q + 1) * b
  BY <1>1, <1>2
<1>4. (q + 1) * b = b * q + b
  BY <1>1
<1> QED
  BY <1>1, <1>3, <1>4

\* What deploy_fee_of believes about the network fee puts the deploy fee
\* between the two multiples check_call_under holds it to.
LEMMA DeployFeeBounds ==
  ASSUME NEW t \in Nat, NEW u \in Nat, NEW r \in Nat \ {0},
         NEW f \in Nat \ {0}, NEW c \in Nat \ {0}, NEW p \in Nat,
         NEW m \in Nat, NEW k \in Nat, p = f * m, p = c * k,
         t >= (f * u) \div r, t <= (c * u) \div r
  PROVE  /\ t * k <= (p * u) \div r
         /\ (p * u) \div r <= (t + 1) * m
<1> DEFINE low == (f * u) \div r  high == (c * u) \div r  d == (p * u) \div r
<1>1. f * u \in Nat /\ c * u \in Nat /\ p * u \in Nat
  OBVIOUS
<1>2. low \in Nat /\ f * u < r * low + r
  BY <1>1, Quotient
<1>3. high \in Nat /\ r * high <= c * u
  BY <1>1, Quotient
<1>4. d \in Nat /\ r * d <= p * u
  BY <1>1, Quotient
<1>5. low <= t /\ t <= high
  OBVIOUS
<1> HIDE DEF low, high
<1>6. t * k <= d
  <2>1. r * t <= c * u
    <3>1. r * t <= r * high
      BY <1>3, <1>5
    <3> QED
      BY <1>1, <1>3, <3>1
  <2>2. (t * k) * r <= p * u
    <3>1. (r * t) * k <= (c * u) * k
      BY <1>1, <2>1
    <3>2. (r * t) * k = (t * k) * r
      OBVIOUS
    <3>3. (c * u) * k = p * u
      OBVIOUS
    <3> QED
      BY <3>1, <3>2, <3>3
  <2> QED
    BY <1>1, <2>2, QuotientIsLargest
<1>7. d <= (t + 1) * m
  <2> HIDE DEF d
  <2>1. f * u <= r * (t + 1)
    <3>1. r * (low + 1) <= r * (t + 1)
      BY <1>2, <1>5
    <3>2. r * (low + 1) = r * low + r
      BY <1>2
    <3> QED
      BY <1>1, <1>2, <3>1, <3>2
  <2>2. r * d <= r * ((t + 1) * m)
    <3>1. (f * u) * m <= (r * (t + 1)) * m
      BY <1>1, <2>1
    <3>2. (f * u) * m = p * u
      OBVIOUS
    <3>3. (r * (t + 1)) * m = r * ((t + 1) * m)
      OBVIOUS
    <3> QED
      BY <1>1, <1>4, <3>1, <3>2, <3>3
  <2> DEFINE b == (t + 1) * m
  <2>3. b \in Nat
    OBVIOUS
  <2> HIDE DEF b
  <2>4. SUFFICES ASSUME d >= b + 1 PROVE FALSE
    BY <1>4, <2>3 DEF b
  <2>5. r * d >= r * (b + 1)
    BY <1>4, <2>3, <2>4
  <2>6. r * (b + 1) = r * b + r
    BY <2>3
  <2>7. r * d <= r * b
    BY <2>2 DEF b
  <2>8. r * b \in Nat /\ r * d \in Nat
    BY <1>4, <2>3
  <2> QED
    BY <2>5, <2>6, <2>7, <2>8
<1> QED
  BY <1>6, <1>7

\* A deploy fee the client takes from a quote (deploy_fee_of) is one the
\* signing function admits (check_call_under), whatever the rate, the unit and
\* the network fee, as long as nothing saturates and the fee is not nothing.
THEOREM DeployFeesAgree ==
  ASSUME NEW q \in Quote, DeployFeeHolds(q), InRange(q)
  PROVE  FeeAdmitted(FeeOf(q, TRUE), q.transfer, TRUE)
<1> DEFINE t == q.transfer  m == DeployPrice \div BandFloor  k == DeployPrice \div BandCeiling
<1>1. t \in Nat /\ q.unit \in Nat /\ q.rate \in Nat \ {0} /\ q.deploy \in Nat \ {0}
  BY FeeAssumption DEF Quote, Amount, DeployFeeHolds, InRange, Unquoted
<1>2. m \in Nat /\ k \in Nat /\ DeployPrice = BandFloor * m /\ DeployPrice = BandCeiling * k
  BY FeeAssumption, Quotient
<1>3. /\ q.deploy = (DeployPrice * q.unit) \div q.rate
      /\ t >= (BandFloor * q.unit) \div q.rate
      /\ t <= (BandCeiling * q.unit) \div q.rate
  <2>1. /\ Saturated(DeployPrice * q.unit) = DeployPrice * q.unit
        /\ Saturated(BandFloor * q.unit) = BandFloor * q.unit
        /\ Saturated(BandCeiling * q.unit) = BandCeiling * q.unit
    <3>1. /\ DeployPrice * q.unit \in Nat
          /\ BandFloor * q.unit \in Nat
          /\ BandCeiling * q.unit \in Nat
      BY <1>1, FeeAssumption
    <3> QED
      BY <3>1, FeeAssumption DEF InRange, Saturated
  <2> QED
    BY <1>1, <2>1 DEF DeployFeeHolds, DeployFeeDue
<1> HIDE DEF m, k, t
<1>4. t * k <= q.deploy /\ q.deploy <= (t + 1) * m
  <2> DEFINE u == q.unit  r == q.rate  d == (DeployPrice * u) \div r
  <2>1. u \in Nat /\ r \in Nat \ {0} /\ t \in Nat /\ q.deploy = d
    BY <1>1, <1>3
  <2>2. t >= (BandFloor * u) \div r /\ t <= (BandCeiling * u) \div r
    BY <1>3
  <2> HIDE DEF u, r
  <2>3. t * k <= d /\ d <= (t + 1) * m
    BY <1>2, <2>1, <2>2, FeeAssumption, DeployFeeBounds
  <2> QED
    BY <2>1, <2>3
<1>5. FeeOf(q, TRUE) = t + q.deploy
  BY <1>1, FeeAssumption DEF FeeOf, VmCallFee, InRange, Saturated, t
<1>6. q.deploy <= Cap
  BY <1>1, FeeAssumption DEF InRange, t
<1>7. q.deploy >= Saturated(t * k)
  <2>1. t * k \in Nat
    BY <1>1, <1>2
  <2> QED
    BY <1>1, <1>4, <2>1, FeeAssumption DEF Saturated
<1>8. q.deploy <= Saturated(Saturated(t + 1) * m)
  <2>1. m >= 1
    BY <1>2, FeeAssumption
  <2>2. CASE t + 1 <= Cap
    <3>1. Saturated(t + 1) = t + 1
      BY <1>1, <2>2, FeeAssumption DEF Saturated
    <3>2. (t + 1) * m \in Nat
      BY <1>1, <1>2
    <3> QED
      BY <1>1, <1>4, <1>6, <3>1, <3>2, FeeAssumption DEF Saturated
  <2>3. CASE t + 1 > Cap
    <3>1. Saturated(t + 1) = Cap
      BY <1>1, <2>3, FeeAssumption DEF Saturated
    <3>2. Cap * m >= Cap /\ Cap * m \in Nat
      BY <1>2, <2>1, FeeAssumption
    <3> QED
      BY <1>1, <1>6, <3>1, <3>2, FeeAssumption DEF Saturated
  <2> QED
    BY <1>1, <2>2, <2>3, FeeAssumption
<1> DEFINE due == FeeOf(q, TRUE)
<1>9. due = q.transfer + q.deploy
  BY <1>5 DEF t
<1> HIDE DEF due
<1>10. due - VmCallFee(q.transfer) = q.deploy
  BY <1>1, <1>9 DEF VmCallFee, t
<1>11. /\ q.deploy > 0
       /\ q.deploy >= Saturated(q.transfer * (DeployPrice \div BandCeiling))
       /\ q.deploy <= Saturated(Saturated(q.transfer + 1) * (DeployPrice \div BandFloor))
  <2>1. q.deploy > 0
    BY <1>1
  <2>2. q.deploy >= Saturated(t * k) /\ q.deploy <= Saturated(Saturated(t + 1) * m)
    BY <1>7, <1>8
  <2> QED
    BY <2>1, <2>2, Zenon DEF m, k, t
<1>12. FeeAdmitted(due, q.transfer, TRUE)
  BY <1>10, <1>11, Zenon DEF FeeAdmitted
<1> QED
  BY <1>12, Zenon DEF due

\* The deadline a client computes from a plausible head (valid_until_from,
\* bounded_valid_until) is one its own signing function admits.
THEOREM DefaultDeadlineIsSignable ==
  ASSUME NEW h \in 0 .. MaxHead
  PROVE  CheckValidUntil(h + Validity, h)
<1>1. h \in Nat /\ h <= MaxHead
  BY DeadlineAssumption
<1> QED
  BY <1>1, DeadlineAssumption DEF CheckValidUntil

-----------------------------------------------------------------------------
\* A list the client may hold: no address twice, none of the book, and no more
\* than the limit.
Admissible(list) ==
  /\ list \in Seq(Addresses) /\ Len(list) <= Remembered
  /\ IsInjective(list) /\ ToSet(list) \cap Book = {}

\* Remembering an address keeps the list admissible, drops nothing but its
\* oldest address, and leaves the new one known.
LEMMA Remembering ==
  ASSUME NEW list, Admissible(list), NEW a \in Addresses
  PROVE  LET new == RememberAddress(list, a)
         IN  /\ Admissible(new)
             /\ ToSet(new) \subseteq ToSet(list) \cup {a}
             /\ a \in Book \cup ToSet(new)
<1> DEFINE new == RememberAddress(list, a)
<1>1. list \in Seq(Addresses) /\ Len(list) \in Nat /\ Remembered \in Nat /\ Remembered >= 1
  BY AddressAssumption DEF Admissible
<1>2. CASE Knows(list, a)
  <2>1. new = list
    BY <1>2 DEF RememberAddress
  <2> QED
    BY <1>2, <2>1 DEF Knows
<1>3. CASE ~Knows(list, a) /\ Len(list) < Remembered
  <2>1. new = Append(list, a)
    BY <1>1, <1>3 DEF RememberAddress
  <2>2. /\ new \in Seq(Addresses) /\ Len(new) = Len(list) + 1 /\ DOMAIN new = 1 .. Len(list) + 1
        /\ \A i \in 1 .. Len(list) : new[i] = list[i]
        /\ new[Len(list) + 1] = a
    BY <1>1, <2>1
  <2> QED
    <3> HIDE DEF new
    <3>1. a \notin ToSet(list) /\ a \notin Book
      BY <1>3 DEF Knows
    <3>2. ToSet(new) = ToSet(list) \cup {a}
      BY <1>1, <2>2 DEF ToSet
    <3>3. IsInjective(new)
      BY <1>1, <2>2, <3>1 DEF IsInjective, ToSet, Admissible
    <3> QED
      BY <1>1, <1>3, <2>2, <3>1, <3>2, <3>3 DEF Admissible, new
<1>4. CASE ~Knows(list, a) /\ Len(list) >= Remembered
  <2>1. new = Append(Tail(list), a) /\ list # <<>>
    BY <1>1, <1>4 DEF RememberAddress
  <2> DEFINE n == Len(list)
  <2>2. /\ new \in Seq(Addresses) /\ Len(new) = n /\ DOMAIN new = 1 .. n
        /\ \A i \in 1 .. n - 1 : new[i] = list[i + 1]
        /\ new[n] = a /\ n \in Nat \ {0}
    BY <1>1, <2>1
  <2> QED
    <3> HIDE DEF new
    <3>1. a \notin ToSet(list) /\ a \notin Book
      BY <1>4 DEF Knows
    <3>2. ToSet(new) \subseteq ToSet(list) \cup {a} /\ a \in ToSet(new)
      BY <1>1, <2>2 DEF ToSet
    <3>3. IsInjective(new)
      <4>1. SUFFICES ASSUME NEW i \in 1 .. n, NEW j \in 1 .. n, new[i] = new[j]
                     PROVE  i = j
        BY <2>2 DEF IsInjective
      <4>2. \A k \in 1 .. n - 1 : new[k] \in ToSet(list) /\ new[k] # a
        <5> TAKE k \in 1 .. n - 1
        <5>1. k + 1 \in DOMAIN list /\ new[k] = list[k + 1]
          BY <1>1, <2>2
        <5> QED
          BY <3>1, <5>1 DEF ToSet
      <4> HIDE DEF n
      <4>3. CASE i = n \/ j = n
        <5>1. i = n \/ i \in 1 .. n - 1
          BY <2>2
        <5>2. j = n \/ j \in 1 .. n - 1
          BY <2>2
        <5> QED
          BY <2>2, <4>1, <4>2, <4>3, <5>1, <5>2
      <4>4. CASE i # n /\ j # n
        <5>0. i \in 1 .. n - 1 /\ j \in 1 .. n - 1
          BY <2>2, <4>4
        <5>1. /\ i + 1 \in 1 .. n /\ j + 1 \in 1 .. n
              /\ DOMAIN list = 1 .. n
              /\ list[i + 1] = list[j + 1]
          <6>1. DOMAIN list = 1 .. n
            BY <1>1 DEF n
          <6> QED
            BY <2>2, <4>1, <5>0, <6>1
        <5>2. i + 1 = j + 1
          BY <5>1 DEF IsInjective, Admissible
        <5> QED
          BY <2>2, <5>2
      <4> QED
        BY <4>3, <4>4
    <3> QED
      <4>1. ToSet(new) \cap Book = {}
        BY <3>1, <3>2 DEF Admissible
      <4>2. Len(new) <= Remembered
        BY <2>2 DEF Admissible
      <4>3. Admissible(new)
        BY <2>2, <3>3, <4>1, <4>2 DEF Admissible
      <4> QED
        BY <3>2, <4>3 DEF new
<1> QED
  BY <1>1, <1>2, <1>3, <1>4

\* An address that was not known and is remembered stays in the list when one
\* more is remembered.
LEMMA NewestStays ==
  ASSUME NEW list, Admissible(list), Remembered >= 2, NEW a \in Addresses, NEW b \in Addresses,
         ~Knows(list, a)
  PROVE  a \in ToSet(RememberAddress(RememberAddress(list, a), b))
<1> DEFINE mid == RememberAddress(list, a)  new == RememberAddress(mid, b)
<1>1. Admissible(mid) /\ a \in ToSet(mid)
  BY Remembering DEF Knows
<1>2. mid \in Seq(Addresses) /\ Len(mid) \in Nat /\ Remembered \in Nat
      /\ list \in Seq(Addresses) /\ Len(list) \in Nat
  BY <1>1, AddressAssumption DEF Admissible
<1>3. Len(mid) \in Nat \ {0} /\ mid[Len(mid)] = a
  BY <1>2 DEF RememberAddress
<1>4. CASE Knows(mid, b)
  BY <1>1, <1>4 DEF RememberAddress
<1>5. CASE ~Knows(mid, b) /\ Len(mid) < Remembered
  <2> HIDE DEF mid
  <2>1. new = Append(mid, b)
    BY <1>2, <1>5 DEF RememberAddress
  <2>2. Len(mid) \in DOMAIN new /\ new[Len(mid)] = a
    BY <1>2, <1>3, <2>1
  <2> QED
    BY <2>2 DEF ToSet, mid
<1>6. CASE ~Knows(mid, b) /\ Len(mid) >= Remembered
  <2> HIDE DEF mid
  <2>1. new = Append(Tail(mid), b) /\ Len(mid) >= 2
    BY <1>2, <1>6 DEF RememberAddress
  <2>2. Len(mid) - 1 \in DOMAIN new /\ new[Len(mid) - 1] = a
    BY <1>2, <1>3, <2>1
  <2> QED
    BY <2>2 DEF ToSet, mid
<1> QED
  BY <1>2, <1>4, <1>5, <1>6

\* The same for all targets of a call.  A target may be dropped again only if
\* it was in the list before.
LEMMA RememberingTargets ==
  ASSUME NEW list, Admissible(list), Remembered >= 2, NEW ts \in Seq(Addresses), Len(ts) <= 2
  PROVE  LET new == RememberTargets(list, ts)
         IN  /\ Admissible(new)
             /\ ToSet(new) \subseteq ToSet(list) \cup ToSet(ts)
             /\ ToSet(ts) \subseteq Book \cup ToSet(list) \cup ToSet(new)
<1>1. CASE Len(ts) = 0
  BY <1>1 DEF RememberTargets, ToSet
<1>2. CASE Len(ts) = 1
  <2>1. RememberTargets(list, ts) = RememberAddress(list, ts[1])
    BY <1>2 DEF RememberTargets
  <2>2. ts[1] \in Addresses /\ ToSet(ts) = {ts[1]}
    BY <1>2 DEF ToSet
  <2> QED
    BY <2>1, <2>2, Remembering
<1>3. CASE Len(ts) = 2
  <2> DEFINE mid == RememberAddress(list, ts[1])
             new == RememberAddress(mid, ts[2])
  <2>1. RememberTargets(list, ts) = new
    BY <1>3 DEF RememberTargets
  <2>2. ts[1] \in Addresses /\ ts[2] \in Addresses /\ ToSet(ts) = {ts[1], ts[2]}
    BY <1>3 DEF ToSet
  <2>3. Admissible(mid) /\ ToSet(mid) \subseteq ToSet(list) \cup {ts[1]}
    BY <2>2, Remembering
  <2>4. /\ Admissible(new) /\ ToSet(new) \subseteq ToSet(mid) \cup {ts[2]}
        /\ ts[2] \in Book \cup ToSet(new)
    <3> HIDE DEF mid
    <3> QED
      BY <2>2, <2>3, Remembering
  <2>5. ts[1] \in Book \cup ToSet(list) \cup ToSet(new)
    BY <2>2, NewestStays DEF Knows
  <2> HIDE DEF new, mid
  <2> QED
    BY <2>1, <2>2, <2>3, <2>4, <2>5
<1>4. Len(ts) = 0 \/ Len(ts) = 1 \/ Len(ts) = 2
  <2> DEFINE m == Len(ts)
  <2>1. m \in Nat /\ m <= 2
    OBVIOUS
  <2> HIDE DEF m
  <2>2. m = 0 \/ m = 1 \/ m = 2
    BY <2>1
  <2> QED
    BY <2>2 DEF m
<1> QED
  BY <1>1, <1>2, <1>3, <1>4, Zenon

\* A list that is updated so, together with its history, still knows exactly
\* what was used.
LEMMA Keeping ==
  ASSUME NEW A, NEW old, NEW new, NEW before, NEW after,
         Book \cup ToSet(old) = before,
         ToSet(old) \cap Book = {},
         ToSet(new) \subseteq ToSet(old) \cup A,
         A \subseteq Book \cup ToSet(old) \cup ToSet(new),
         after = (before \cup A) \ (ToSet(old) \ ToSet(new))
  PROVE  Book \cup ToSet(new) = after
  OBVIOUS

\* Of two addresses each looks like the other or neither does.
LEMMA LookalikesAreMutual ==
  ASSUME NEW a \in Addresses, NEW b \in Addresses
  PROVE  Lookalike(a, b) <=> Lookalike(b, a)
  BY AddressAssumption DEF Lookalike

-----------------------------------------------------------------------------
\* The targets of a call that is not signed yet look like nothing known.
Vetted ==
  pc \in {"vetted", "quoted", "reserved"} =>
    \A i \in DOMAIN call.targets : CheckTarget(seen, call.targets[i])

\* What a call pays was quoted, believed and allowed.
Agreed ==
  pc \in {"quoted", "reserved", "submit"} =>
    /\ quote \in Quotes /\ fee = FeeOf(quote, PaysDeployFee(call))
    /\ PaysDeployFee(call) => DeployFeeHolds(quote)
    /\ fee <= call.max

\* A signed call to the deploy address pays more than the flat fee.
DeploysPayMore ==
  pc = "submit" /\ call.kind \notin WithAsset \cup {"transfer"} /\ ToVm(call) =>
    fee - quote.transfer > 0

CallInv == TypeOK /\ OnlyUsedIsRemembered /\ Vetted /\ Agreed /\ DeploysPayMore

\* A registration and a deploy have no target.
LEMMA NoTargets ==
  ASSUME NEW kind \in {"register", "deploy"}
  PROVE  Targets(kind) = {<<>>}
  BY DEF Targets, WithAsset

\* The targets of a call are at most two addresses.
LEMMA TargetsFit ==
  ASSUME NEW kind \in Kinds, NEW ts \in Targets(kind)
  PROVE  ts \in Seq(Addresses) /\ Len(ts) <= 2
<1>1. CASE kind \in {"register", "deploy"}
  <2>1. ts = <<>>
    BY <1>1, NoTargets
  <2> QED
    BY <2>1
<1>2. CASE kind \in WithAsset
  <2>1. ts \in Addresses \X Addresses
    BY <1>2 DEF Targets, WithAsset
  <2>2. PICK a \in Addresses, b \in Addresses : ts = <<a, b>>
    BY <2>1
  <2> QED
    BY <2>2
<1>3. CASE kind \notin {"register", "deploy"} \cup WithAsset
  <2>1. PICK a \in Addresses : ts = <<a>>
    BY <1>3 DEF Targets
  <2> QED
    BY <2>1
<1> QED
  BY <1>1, <1>2, <1>3

\* A believed quote gives a fee within the width.
LEMMA FeeFits ==
  ASSUME NEW q \in Quotes, NEW deploys \in BOOLEAN, deploys => DeployFeeHolds(q)
  PROVE  FeeOf(q, deploys) \in 0 .. Cap
<1>1. q.transfer \in Nat /\ q.transfer <= Cap /\ Cap \in Nat
  BY CallAssumption, FeeAssumption DEF Quote, Amount
<1>2. deploys => q.deploy \in Nat
  BY CallAssumption, FeeAssumption DEF Quote, Amount, DeployFeeHolds
<1> QED
  BY <1>1, <1>2 DEF FeeOf, VmCallFee, Saturated

LEMMA BeginKeepsInv ==
  ASSUME CallInv, NEW kind \in Kinds, NEW s \in Senders, NEW ts \in Targets(kind),
         NEW max \in Maxima, Begin(kind, s, ts, max)
  PROVE  CallInv'
<1> DEFINE c == [kind |-> kind, sender |-> s, targets |-> ts, max |-> max]
<1>1. /\ pc = "idle" /\ VetTarget(c) /\ Keep({s})
      /\ quote' = quote /\ fee' = fee /\ head' = head
  BY DEF Begin, money
<1>2. s \in Addresses /\ Admissible(seen)
  BY CallAssumption DEF CallInv, TypeOK, Admissible
<1>3. /\ Admissible(seen') /\ ToSet(seen') \subseteq ToSet(seen) \cup {s}
      /\ s \in Book \cup ToSet(seen')
  <2>1. seen' = RememberAddress(seen, s)
    BY <1>1 DEF VetTarget
  <2> QED
    BY <1>2, <2>1, Remembering
<1>4. OnlyUsedIsRemembered'
  <2>1. kept' = (kept \cup {s}) \ (ToSet(seen) \ ToSet(seen'))
    BY <1>1 DEF Keep
  <2> QED
    BY <1>2, <1>3, <2>1, Keeping DEF CallInv, OnlyUsedIsRemembered, Admissible
<1>5. kept' \subseteq Addresses
  BY <1>1, <1>2 DEF Keep, CallInv, TypeOK
<1>6. CASE pc' = "vetted" /\ call' = c
  <2>1. TypeOK'
    BY <1>1, <1>3, <1>5, <1>6 DEF TypeOK, CallInv, Admissible
  <2>2. Vetted'
    <3>1. \A i \in DOMAIN c.targets : CheckTarget(seen', c.targets[i])
      BY <1>1, <1>6 DEF VetTarget
    <3>2. \A i \in DOMAIN call'.targets : CheckTarget(seen', call'.targets[i])
      BY <1>6, <3>1, Zenon
    <3> QED
      BY <3>2 DEF Vetted, CheckTarget
  <2> QED
    BY <1>4, <1>6, <2>1, <2>2 DEF CallInv, Agreed, DeploysPayMore
<1>7. CASE UNCHANGED <<pc, call>>
  <2>1. TypeOK'
    BY <1>1, <1>3, <1>5, <1>7 DEF TypeOK, CallInv, Admissible
  <2> QED
    BY <1>1, <1>4, <1>7, <2>1 DEF CallInv, Vetted, Agreed, DeploysPayMore
<1> QED
  BY <1>1, <1>6, <1>7 DEF VetTarget

\* A call that is over leaves nothing behind.
LEMMA LeaveKeepsInv ==
  ASSUME CallInv, Leave, Admissible(seen'), kept' \subseteq Addresses, OnlyUsedIsRemembered'
  PROVE  CallInv'
<1>1. TypeOK'
  BY FeeAssumption, DeadlineAssumption DEF TypeOK, Leave, Admissible
<1> QED
  BY <1>1 DEF CallInv, Leave, Vetted, Agreed, DeploysPayMore

LEMMA TakeQuoteKeepsInv ==
  ASSUME CallInv, NEW q \in Quotes, TakeQuote(q)
  PROVE  CallInv'
<1> DEFINE f == FeeOf(q, PaysDeployFee(call))
<1>1. pc = "vetted" /\ seen' = seen /\ kept' = kept
  BY DEF TakeQuote
<1>2. Admissible(seen') /\ kept' \subseteq Addresses /\ OnlyUsedIsRemembered'
  BY <1>1 DEF CallInv, TypeOK, Admissible, OnlyUsedIsRemembered
<1>3. CASE Leave
  BY <1>2, <1>3, LeaveKeepsInv
<1>4. CASE ~Leave
  <2>1. /\ PaysDeployFee(call) => DeployFeeHolds(q)
        /\ FeeWithin(q, f, call.max)
        /\ pc' = "quoted" /\ quote' = q /\ fee' = f /\ call' = call /\ head' = head
    BY <1>4 DEF TakeQuote
  <2>2. f \in 0 .. Cap
    <3>1. PaysDeployFee(call) \in BOOLEAN
      BY DEF PaysDeployFee
    <3> QED
      BY <2>1, <3>1, FeeFits
  <2> HIDE DEF f
  <2>3. TypeOK'
    BY <1>1, <2>1, <2>2 DEF TypeOK, CallInv
  <2>4. Vetted'
    BY <1>1, <2>1 DEF CallInv, Vetted
  <2>5. Agreed'
    <3>1. f <= call.max
      BY <2>1 DEF FeeWithin
    <3>2. PaysDeployFee(call)' = PaysDeployFee(call)
      BY <2>1 DEF PaysDeployFee
    <3> QED
      BY <2>1, <3>1, <3>2 DEF Agreed, f
  <2> QED
    BY <1>2, <2>1, <2>3, <2>4, <2>5 DEF CallInv, DeploysPayMore
<1> QED
  BY <1>3, <1>4

LEMMA ReserveKeepsInv ==
  ASSUME CallInv, NEW h \in Heads, Reserve(h)
  PROVE  CallInv'
<1>1. /\ pc = "quoted" /\ pc' = "reserved" /\ head' = h
      /\ seen' = seen /\ call' = call /\ quote' = quote /\ fee' = fee /\ kept' = kept
  BY DEF Reserve
<1>2. TypeOK'
  BY <1>1, CallAssumption DEF TypeOK, CallInv
<1>3. OnlyUsedIsRemembered' /\ Vetted'
  BY <1>1 DEF CallInv, OnlyUsedIsRemembered, Vetted
<1>4. Agreed'
  BY <1>1 DEF CallInv, Agreed, PaysDeployFee
<1> QED
  BY <1>1, <1>2, <1>3, <1>4 DEF CallInv, DeploysPayMore

\* The targets of a call that is signed, or the contract of a deploy that is
\* accepted, become known.
LEMMA UseKeepsKnown ==
  ASSUME CallInv, NEW ts \in Seq(Addresses), Len(ts) <= 2,
         seen' = RememberTargets(seen, ts), Keep(ToSet(ts))
  PROVE  Admissible(seen') /\ kept' \subseteq Addresses /\ OnlyUsedIsRemembered'
<1>1. Admissible(seen) /\ Remembered >= 2 /\ ToSet(ts) \subseteq Addresses
  BY CallAssumption DEF CallInv, TypeOK, Admissible, ToSet
<1>2. /\ Admissible(seen') /\ ToSet(seen') \subseteq ToSet(seen) \cup ToSet(ts)
      /\ ToSet(ts) \subseteq Book \cup ToSet(seen) \cup ToSet(seen')
  BY <1>1, RememberingTargets
<1>3. kept' = (kept \cup ToSet(ts)) \ (ToSet(seen) \ ToSet(seen'))
  BY DEF Keep
<1>4. OnlyUsedIsRemembered'
  BY <1>1, <1>2, <1>3, Keeping DEF CallInv, OnlyUsedIsRemembered, Admissible
<1> QED
  BY <1>1, <1>2, <1>3, <1>4 DEF CallInv, TypeOK

LEMMA SignKeepsInv ==
  ASSUME CallInv, NEW meter, NEW args, NEW amount, Sign(meter, args, amount)
  PROVE  CallInv'
<1>1. pc = "reserved"
  BY DEF Sign
<1>2. CASE ~Signable(meter, args, amount)
  <2>1. Leave /\ seen' = seen /\ kept' = kept
    BY <1>2 DEF Sign
  <2>2. Admissible(seen') /\ kept' \subseteq Addresses /\ OnlyUsedIsRemembered'
    BY <2>1 DEF CallInv, TypeOK, Admissible, OnlyUsedIsRemembered
  <2> QED
    BY <2>1, <2>2, LeaveKeepsInv
<1>3. CASE Signable(meter, args, amount)
  <2>1. /\ pc' = "submit" /\ seen' = RememberTargets(seen, call.targets)
        /\ Keep(ToSet(call.targets))
        /\ call' = call /\ quote' = quote /\ fee' = fee /\ head' = head
    BY <1>3 DEF Sign, money
  <2>2. Admissible(seen') /\ kept' \subseteq Addresses /\ OnlyUsedIsRemembered'
    <3>1. call.targets \in Seq(Addresses) /\ Len(call.targets) <= 2
      BY <1>1, TargetsFit DEF CallInv, TypeOK
    <3> QED
      BY <2>1, <3>1, UseKeepsKnown
  <2>3. TypeOK'
    BY <1>1, <2>1, <2>2 DEF TypeOK, CallInv, Admissible
  <2>4. Agreed'
    BY <1>1, <2>1 DEF CallInv, Agreed, PaysDeployFee
  <2>5. DeploysPayMore'
    <3>1. SUFFICES ASSUME call.kind \notin WithAsset \cup {"transfer"}, ToVm(call)
                   PROVE  fee - quote.transfer > 0
      BY <2>1 DEF DeploysPayMore, ToVm
    <3>2. call.kind # "register"
      <4>1. SUFFICES ASSUME call.kind = "register" PROVE FALSE
        OBVIOUS
      <4>2. call.targets = <<>>
        BY <1>1, <4>1, NoTargets DEF CallInv, TypeOK
      <4>3. <<>> # <<Vm>>
        OBVIOUS
      <4> QED
        BY <3>1, <4>1, <4>2, <4>3 DEF ToVm
    <3>3. SignPayableCall(meter, args)
      BY <1>3, <3>1, <3>2 DEF Signable
    <3> QED
      BY <3>1, <3>3 DEF SignPayableCall, FeeAdmitted, VmCallFee
  <2> QED
    BY <2>1, <2>2, <2>3, <2>4, <2>5 DEF CallInv, Vetted
<1> QED
  BY <1>2, <1>3

LEMMA AnsweredKeepsInv ==
  ASSUME CallInv, NEW accepted \in BOOLEAN, Answered(accepted)
  PROVE  CallInv'
<1> DEFINE new == IF accepted /\ call.kind = "deploy" THEN <<Contract>> ELSE <<>>
<1>1. Leave /\ seen' = RememberTargets(seen, new) /\ Keep(ToSet(new))
  BY DEF Answered
<1>2. new \in Seq(Addresses) /\ Len(new) <= 2
  BY CallAssumption
<1> HIDE DEF new
<1>3. Admissible(seen') /\ kept' \subseteq Addresses /\ OnlyUsedIsRemembered'
  BY <1>1, <1>2, UseKeepsKnown
<1> QED
  BY <1>1, <1>3, LeaveKeepsInv

LEMMA FailKeepsInv ==
  ASSUME CallInv, Fail
  PROVE  CallInv'
<1>1. Leave /\ seen' = seen /\ kept' = kept
  BY DEF Fail
<1>2. Admissible(seen') /\ kept' \subseteq Addresses /\ OnlyUsedIsRemembered'
  BY <1>1 DEF CallInv, TypeOK, Admissible, OnlyUsedIsRemembered
<1> QED
  BY <1>1, <1>2, LeaveKeepsInv

\* Every step keeps the invariant.
LEMMA NextKeepsInv ==
  ASSUME CallInv, [Next]_vars
  PROVE  CallInv'
<1>1. CASE UNCHANGED vars
  BY <1>1 DEF vars, CallInv, TypeOK, OnlyUsedIsRemembered, Vetted, Agreed, DeploysPayMore,
              PaysDeployFee, ToVm
<1>2. ASSUME NEW s \in Senders, NEW max \in Maxima, NEW kind \in Kinds, NEW ts \in Targets(kind),
             Begin(kind, s, ts, max)
      PROVE  CallInv'
  BY <1>2, BeginKeepsInv
<1>3. ASSUME NEW s \in Senders, NEW max \in Maxima,
             \/ Transfer(s, max) \/ CallPayable(s, max) \/ CallAsset(s, max)
             \/ Deploy(s, max) \/ Register(s, max)
             \/ \E now \in 0 .. 1, expiry \in 0 .. MaxLifetime + 2 :
                  CallSignedOrder(s, max, expiry, now) \/ CallTypedOrder(s, max, expiry, now)
      PROVE  \E kind \in Kinds : \E ts \in Targets(kind) : Begin(kind, s, ts, max)
  <2>1. \A a \in Addresses, kind \in {"transfer", "payable", "order", "typed"} :
          kind \in Kinds /\ <<a>> \in Targets(kind)
    BY DEF Targets, Kinds, WithAsset
  <2>2. \A a, b \in Addresses, kind \in WithAsset : kind \in Kinds /\ <<a, b>> \in Targets(kind)
    BY DEF Targets, Kinds, WithAsset
  <2>3. \A kind \in {"register", "deploy"} : kind \in Kinds /\ <<>> \in Targets(kind)
    BY NoTargets DEF Kinds
  <2>4. CASE Transfer(s, max)
    BY <2>1, <2>4 DEF Transfer
  <2>5. CASE CallPayable(s, max)
    BY <2>1, <2>5 DEF CallPayable
  <2>6. CASE CallAsset(s, max)
    BY <2>2, <2>6 DEF CallAsset, WithAsset
  <2>7. CASE Deploy(s, max)
    BY <2>3, <2>7 DEF Deploy
  <2>8. CASE Register(s, max)
    BY <2>3, <2>8 DEF Register
  <2>9. ASSUME NEW now, NEW expiry,
               CallSignedOrder(s, max, expiry, now) \/ CallTypedOrder(s, max, expiry, now)
        PROVE  \E kind \in Kinds : \E ts \in Targets(kind) : Begin(kind, s, ts, max)
    BY <2>1, <2>2, <2>9 DEF CallSignedOrder, CallTypedOrder, WithAsset
  <2> QED
    BY <1>3, <2>4, <2>5, <2>6, <2>7, <2>8, <2>9
<1>4. CASE \E q \in Quotes : TakeQuote(q)
  BY <1>4, TakeQuoteKeepsInv
<1>5. CASE \E h \in Heads : Reserve(h)
  BY <1>5, ReserveKeepsInv
<1>6. ASSUME NEW meter, NEW args, NEW amount, Sign(meter, args, amount)
      PROVE  CallInv'
  BY <1>6, SignKeepsInv
<1>7. CASE \E accepted \in BOOLEAN : Answered(accepted)
  BY <1>7, AnsweredKeepsInv
<1>8. CASE Fail
  BY <1>8, FailKeepsInv
<1> QED
  BY <1>1, <1>2, <1>3, <1>4, <1>5, <1>6, <1>7, <1>8 DEF Next

-----------------------------------------------------------------------------
\* What the client knows of the call it works on, at every step of it.
THEOREM CallInvariant == Spec => []CallInv
<1>1. Init => CallInv
  <2> SUFFICES ASSUME Init PROVE CallInv
    OBVIOUS
  <2>1. Admissible(seen) /\ ToSet(seen) = {}
    <3>1. seen = <<>> /\ seen \in Seq(Addresses) /\ Len(seen) = 0 /\ DOMAIN seen = {}
      BY DEF Init
    <3> QED
      BY <3>1, AddressAssumption DEF Admissible, ToSet, IsInjective
  <2>2. TypeOK
    BY <2>1, FeeAssumption, DeadlineAssumption, AddressAssumption DEF Init, TypeOK, Admissible
  <2> QED
    BY <2>1, <2>2 DEF Init, CallInv, OnlyUsedIsRemembered, Vetted, Agreed, DeploysPayMore
<1> QED
  BY <1>1, NextKeepsInv, PTL DEF Spec

\* What is written in the list, the call and the quote stays inside their
\* types, whatever calls are made: no more addresses than the limit, none
\* twice, and no fee beyond the width (remember_address, deploy_fee_of).
THEOREM TypeCorrect == Spec => []TypeOK
<1>1. CallInv => TypeOK
  BY DEF CallInv
<1> QED
  BY <1>1, CallInvariant, PTL

\* The list knows what was sent from, signed for or deployed to and was not
\* dropped since, and nothing else: no refused target and no contract that was
\* not deployed (remember_targets, remember_address).
THEOREM ListIsTheHistory == Spec => []OnlyUsedIsRemembered
<1>1. CallInv => OnlyUsedIsRemembered
  BY DEF CallInv
<1> QED
  BY <1>1, CallInvariant, PTL

\* A call that pays the deploy fee goes to the deploy address, and one that
\* does not pays the flat fee.
LEMMA FlatFee ==
  ASSUME NEW q \in Quotes
  PROVE  /\ q.transfer \in Nat /\ q.transfer <= Cap
         /\ FeeOf(q, FALSE) = q.transfer
         /\ FeeOf(q, TRUE) = Saturated(q.transfer + q.deploy)
  BY CallAssumption, FeeAssumption DEF Quote, Amount, FeeOf, VmCallFee

\* What the quotient by the rate is, in products.
LEMMA Rounded ==
  ASSUME NEW p \in Nat, NEW r \in Nat \ {0}, NEW n \in Nat, n = p \div r
  PROVE  n * r <= p /\ p < (n + 1) * r
<1>1. r * n <= p /\ p < r * n + r
  BY Quotient
<1>2. r * n = n * r /\ (n + 1) * r = r * n + r
  OBVIOUS
<1> QED
  BY <1>1, <1>2

\* A deploy that fits the width pays, beyond the flat fee, five dollars at the
\* quoted rate, rounded down.
LEMMA DeployIsFiveDollars ==
  ASSUME NEW q \in Quotes, DeployFeeHolds(q), InRange(q)
  PROVE  LET extra == FeeOf(q, TRUE) - q.transfer
         IN  /\ extra * q.rate <= DeployPrice * q.unit
             /\ DeployPrice * q.unit < (extra + 1) * q.rate
<1> DEFINE p == DeployPrice * q.unit  r == q.rate  d == q.deploy
<1>1. q.unit \in Nat /\ q.transfer \in Nat /\ r \in Nat \ {0} /\ d \in Nat
  BY CallAssumption, FeeAssumption DEF Quote, Amount, DeployFeeHolds
<1>2. p \in Nat /\ p <= Cap
  BY <1>1, FeeAssumption DEF InRange
<1>3. d = p \div r
  <2>1. Saturated(DeployPrice * q.unit) = DeployPrice * q.unit
    BY <1>2, FeeAssumption DEF Saturated
  <2> QED
    BY <1>1, <2>1 DEF DeployFeeHolds, DeployFeeDue
<1>4. FeeOf(q, TRUE) = q.transfer + d
  BY <1>1, FeeAssumption DEF FeeOf, VmCallFee, Saturated, InRange
<1>5. FeeOf(q, TRUE) - q.transfer = d
  <2> DEFINE due == FeeOf(q, TRUE)  t == q.transfer
  <2>1. due = t + d /\ t \in Nat /\ d \in Nat
    BY <1>1, <1>4
  <2> HIDE DEF due, t, d
  <2>2. due - t = d
    BY <2>1
  <2> QED
    BY <2>2, Zenon DEF due, t
<1>6. d * r <= p /\ p < (d + 1) * r
  <2> HIDE DEF p, r, d
  <2> QED
    BY <1>1, <1>2, <1>3, Rounded
<1> QED
  BY <1>5, <1>6, Zenon DEF p, r, d

\* What is signed was allowed by the caller and is the price of the call, for
\* every quote, every maximum and every order of calls.
THEOREM SignedCallsArePriced == Spec => []SignedIsPriced
<1>1. CallInv => SignedIsPriced
  <2> SUFFICES ASSUME CallInv, pc = "submit"
               PROVE  SignedIsPriced
    BY DEF SignedIsPriced
  <2> DEFINE extra == fee - quote.transfer
             dear  == call.kind \notin WithAsset \cup {"transfer"} /\ ToVm(call)
  <2>1. /\ quote \in Quotes /\ fee = FeeOf(quote, PaysDeployFee(call)) /\ fee <= call.max
        /\ PaysDeployFee(call) => DeployFeeHolds(quote)
    BY DEF CallInv, Agreed
  <2>2. CASE dear
    <3>1. extra > 0
      BY <2>2 DEF CallInv, DeploysPayMore
    <3>2. PaysDeployFee(call)
      <4>1. SUFFICES ASSUME ~PaysDeployFee(call) PROVE FALSE
        OBVIOUS
      <4>2. fee = FeeOf(quote, FALSE)
        BY <2>1, <4>1 DEF PaysDeployFee
      <4>3. fee = quote.transfer /\ quote.transfer \in Nat
        BY <2>1, <4>2, FlatFee, Zenon
      <4> QED
        BY <3>1, <4>3
    <3>3. fee = FeeOf(quote, TRUE) /\ DeployFeeHolds(quote)
      BY <2>1, <3>2 DEF PaysDeployFee
    <3>4. \/ extra * quote.rate <= DeployPrice * quote.unit
             /\ DeployPrice * quote.unit < (extra + 1) * quote.rate
          \/ ~InRange(quote)
      BY <2>1, <3>3, DeployIsFiveDollars
    <3> HIDE DEF extra
    <3> QED
      BY <2>1, <2>2, <3>1, <3>4, Zenon DEF SignedIsPriced, extra
  <2>3. CASE ~dear
    <3>1. ~PaysDeployFee(call)
      BY <2>3 DEF PaysDeployFee, ToVm, WithAsset
    <3>2. fee = FeeOf(quote, FALSE)
      BY <2>1, <3>1 DEF PaysDeployFee
    <3>3. extra = 0
      <4>1. fee = quote.transfer /\ quote.transfer \in Nat
        BY <2>1, <3>2, FlatFee, Zenon
      <4> QED
        BY <4>1
    <3> HIDE DEF extra
    <3> QED
      BY <2>1, <2>3, <3>3, Zenon DEF SignedIsPriced, extra
  <2> QED
    BY <2>2, <2>3
<1> QED
  BY <1>1, CallInvariant, PTL

\* Once a nonce is reserved, the signing function refuses only what the caller
\* chose badly: its own deadline and its own fee pass, whatever was quoted.
THEOREM ReservedIsSignable == Spec => []QuotedIsSignable
<1>1. CallInv => QuotedIsSignable
  <2>1. SUFFICES ASSUME CallInv, pc = "reserved", InRange(quote),
                        ToVm(call) => call.kind \notin {"order", "typed"},
                        NEW meter \in NativeMeter .. MaxMeter, NEW args \in 0 .. MaxCallArgs,
                        call.targets # <<call.sender>>
                 PROVE  Signable(meter, args, 1)
    BY DEF QuotedIsSignable
  <2>2. /\ quote \in Quotes /\ fee = FeeOf(quote, PaysDeployFee(call))
        /\ PaysDeployFee(call) => DeployFeeHolds(quote)
    BY <2>1 DEF CallInv, Agreed
  <2>3. call.kind \in Kinds /\ head \in 0 .. MaxHead
    BY <2>1 DEF CallInv, TypeOK
  <2>4. CheckValidUntil(Deadline, head)
    BY <2>3, DefaultDeadlineIsSignable DEF Deadline
  <2>5. SignNative
    BY <2>1, <2>4 DEF SignNative
  <2>6. MeterAdmitted(meter, args, FALSE) /\ MeterAdmitted(meter, args, TRUE)
    BY <2>1, MeterAssumption DEF MeterAdmitted
  <2>7. ~PaysDeployFee(call) => FeeAdmitted(fee, quote.transfer, FALSE)
    <3>1. SUFFICES ASSUME ~PaysDeployFee(call) PROVE FeeAdmitted(fee, quote.transfer, FALSE)
      OBVIOUS
    <3>2. fee = FeeOf(quote, FALSE)
      BY <2>2, <3>1 DEF PaysDeployFee
    <3> QED
      BY <2>2, <3>2, FlatFee DEF FeeAdmitted, VmCallFee
  <2>8. PaysDeployFee(call) => FeeAdmitted(fee, quote.transfer, TRUE)
    <3>1. SUFFICES ASSUME PaysDeployFee(call) PROVE FeeAdmitted(fee, quote.transfer, TRUE)
      OBVIOUS
    <3>2. fee = FeeOf(quote, TRUE) /\ DeployFeeHolds(quote) /\ quote \in Quote
      BY <2>2, <3>1, CallAssumption DEF PaysDeployFee
    <3> QED
      BY <2>1, <3>2, DeployFeesAgree
  <2>9. CASE call.kind = "transfer"
    BY <2>5, <2>9 DEF Signable, SignTransfer, WithAsset
  <2>10. CASE call.kind = "register"
    BY <2>5, <2>10 DEF Signable, SignRegister, WithAsset
  <2>11. CASE call.kind \in WithAsset
    <3>1. ~PaysDeployFee(call)
      BY <2>11 DEF PaysDeployFee, WithAsset
    <3>2. SignAssetCall(meter, args, 1)
      <4>1. 1 # 0
        OBVIOUS
      <4> QED
        BY <2>4, <2>6, <2>7, <3>1, <4>1, Zenon DEF SignAssetCall
    <3> QED
      BY <2>11, <3>2 DEF Signable, WithAsset
  <2>12. CASE call.kind \in {"payable", "order", "typed", "deploy"}
    <3>1. ToVm(call) => PaysDeployFee(call)
      BY <2>1, <2>12 DEF ToVm, PaysDeployFee
    <3>2. PaysDeployFee(call) => ToVm(call)
      BY DEF ToVm, PaysDeployFee
    <3>3. SignPayableCall(meter, args)
      <4>1. CASE ToVm(call)
        <5>1. ToVm(call) = TRUE
          BY <4>1 DEF ToVm
        <5> QED
          BY <2>5, <2>6, <2>8, <3>1, <4>1, <5>1 DEF SignPayableCall
      <4>2. CASE ~ToVm(call)
        <5>1. ToVm(call) = FALSE
          BY <4>2 DEF ToVm
        <5> QED
          BY <2>5, <2>6, <2>7, <3>2, <4>2, <5>1 DEF SignPayableCall
      <4> QED
        BY <4>1, <4>2
    <3> QED
      BY <2>12, <3>3 DEF Signable, WithAsset
  <2> QED
    BY <2>3, <2>9, <2>10, <2>11, <2>12 DEF Kinds, WithAsset
<1> QED
  BY <1>1, CallInvariant, PTL

\* No call signs for a target that looks like an address used before and still
\* remembered, however the addresses and the calls are ordered.
THEOREM NoLookalikeIsSigned == Spec => LookalikesRefused
<1>1. ASSUME CallInv, [Next]_vars, pc' = "submit", ~UNCHANGED vars,
             NEW t \in ToSet(call.targets), NEW x \in kept
      PROVE  ~Lookalike(t, x)
  <2>1. pc = "reserved"
    <3>1. Next
      BY <1>1
    <3>2. ASSUME NEW kind, NEW s, NEW ts, NEW max, Begin(kind, s, ts, max)
          PROVE  pc' \in {"idle", "vetted"}
      BY <3>2 DEF Begin, VetTarget
    <3>3. ASSUME NEW s, NEW max,
                 \/ Transfer(s, max) \/ CallPayable(s, max) \/ CallAsset(s, max)
                 \/ Deploy(s, max) \/ Register(s, max)
          PROVE  pc' \in {"idle", "vetted"}
      BY <3>2, <3>3 DEF Transfer, CallPayable, CallAsset, Deploy, Register
    <3>4. ASSUME NEW s, NEW max, NEW expiry, NEW now,
                 CallSignedOrder(s, max, expiry, now) \/ CallTypedOrder(s, max, expiry, now)
          PROVE  pc' \in {"idle", "vetted"}
      BY <3>2, <3>4 DEF CallSignedOrder, CallTypedOrder
    <3>5. ASSUME NEW q, NEW h, NEW accepted, TakeQuote(q) \/ Reserve(h) \/ Answered(accepted) \/ Fail
          PROVE  pc' \in {"idle", "quoted", "reserved"}
      BY <3>5 DEF TakeQuote, Reserve, Answered, Fail, Leave
    <3>6. \E meter, args, amount : Sign(meter, args, amount)
      BY <1>1, <3>1, <3>3, <3>4, <3>5 DEF Next
    <3> QED
      BY <3>6 DEF Sign
  <2>2. call.targets \in Seq(Addresses)
    BY <1>1, <2>1, TargetsFit DEF CallInv, TypeOK
  <2>3. PICK i \in DOMAIN call.targets : t = call.targets[i]
    BY <1>1 DEF ToSet
  <2>4. CheckTarget(seen, t)
    BY <1>1, <2>1, <2>3 DEF CallInv, Vetted
  <2>5. ~Lookalike(x, t)
    BY <1>1, <2>4 DEF CheckTarget, CallInv, OnlyUsedIsRemembered
  <2>6. t \in Addresses /\ x \in Addresses
    BY <1>1, <2>2, <2>3 DEF CallInv, TypeOK
  <2> QED
    BY <2>5, <2>6, LookalikesAreMutual
<1>2. CallInv /\ [Next]_vars =>
        [pc' = "submit" => \A t \in ToSet(call.targets), x \in kept : ~Lookalike(t, x)]_vars
  BY <1>1
<1> QED
  BY <1>2, CallInvariant, PTL DEF Spec, LookalikesRefused
=============================================================================
