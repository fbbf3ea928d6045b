----------------------------- MODULE LockerMath -----------------------------
(***************************************************************************)
(* The integer arithmetic of programs/holder_locker/src/lib.rs: splitting  *)
(* a reward into fee and payout, the bonus of a boosted lock, and how many *)
(* tokens of a deposit a boost pool takes.  Rates are basis points over    *)
(* BPS_DENOMINATOR; u64 and u128 are the moduli U64 and U128, so a small   *)
(* instance can make a word overflow.                                      *)
(***************************************************************************)
EXTENDS Integers

CONSTANTS
    BPS_DENOMINATOR,  \* 10_000 in the code
    U64,              \* 2^64
    U128              \* 2^128

ASSUME MathAssumption ==
    /\ BPS_DENOMINATOR \in Nat \ {0}
    /\ U64 \in Nat \ {0}
    /\ U128 \in Nat \ {0}

SaturatingSub(a, b) == IF a > b THEN a - b ELSE 0

MinOf(a, b) == IF a <= b THEN a ELSE b

-----------------------------------------------------------------------------

\* Mutant: the fee is rounded up.
FeeRoundedUp(gross, bps) ==
    (gross * bps + BPS_DENOMINATOR - 1) \div BPS_DENOMINATOR

\* split_fee: the fee is rounded down, the payout is what remains.
FeeOf(gross, bps) == (gross * bps) \div BPS_DENOMINATOR

PayoutOf(gross, bps) == gross - FeeOf(gross, bps)

\* The early return of bonus_for.
EarnsBonus(r) ==
    /\ ~r.withdrawn
    /\ r.amount # 0
    /\ r.boosted_amount # 0
    /\ r.bonus_bps # 0

\* checked_mul in u128 fails (MathOverflow).
BonusOverflows(r, payout) ==
    EarnsBonus(r) /\ payout * r.bonus_bps * r.boosted_amount >= U128

\* Mutant: the share of the enrolled tokens is left out.
BonusUnscaled(r, payout) ==
    IF EarnsBonus(r)
    THEN ((payout * r.bonus_bps * r.boosted_amount) \div BPS_DENOMINATOR) % U64
    ELSE 0

\* bonus_for when it succeeds; the last cast, `wanted as u64`, truncates.
BonusFor(r, payout) ==
    IF EarnsBonus(r)
    THEN ((payout * r.bonus_bps * r.boosted_amount)
              \div (BPS_DENOMINATOR * r.amount)) % U64
    ELSE 0

\* Mutant: the room left is enrolled, whatever the deposit.
EnrollRoom(p, amount, remaining_duration) ==
    IF p.active /\ remaining_duration >= p.min_duration
    THEN SaturatingSub(p.capacity, p.enrolled)
    ELSE 0

\* Mutant: what is already enrolled is not looked at.
EnrollUpToCapacity(p, amount, remaining_duration) ==
    IF p.active /\ remaining_duration >= p.min_duration
    THEN MinOf(amount, p.capacity)
    ELSE 0

\* enroll_boost: the number of tokens of a deposit that the pool p takes.
EnrollBoost(p, amount, remaining_duration) ==
    IF p.active /\ remaining_duration >= p.min_duration
    THEN MinOf(amount, SaturatingSub(p.capacity, p.enrolled))
    ELSE 0
=============================================================================
