---------------------------- MODULE TransactionFees ----------------------------
(***************************************************************************)
(* What prepareTransaction of StellarClient (src/client/stellarClient.ts)  *)
(* does to the fees of a transaction: it enlarges what the simulation asks *)
(* for by feeBufferMultiplier, and refuses what exceeds maxFeeLimit.       *)
(*                                                                         *)
(* validateFee compares a fee with limits and with what the node advises.  *)
(*                                                                         *)
(* The multiplier is its decimal notation, as toFraction reads it.         *)
(* The three resource limits, treated alike, are one number.               *)
(***************************************************************************)
EXTENDS Integers, Sequences

CONSTANTS
    Multipliers,    \* [whole, digits]: 1.15 is [whole |-> 1, digits |-> <<1, 5>>]
    HugeFrom,       \* from here on a number's notation has an exponent (1e21)
    FeeLimits,      \* maxFeeLimit, or NoLimit
    FeeAmounts,     \* fees and resources that come up
    MaxDigits       \* digits of the multipliers after the point

NoLimit == 0

ASSUME FeeAssumption ==
    /\ MaxDigits \in Nat /\ HugeFrom \in Nat
    /\ \A m \in Multipliers : /\ m.whole \in Nat \ {0}
                              /\ m.digits \in Seq(0..9) /\ Len(m.digits) <= MaxDigits
    /\ FeeLimits \cup FeeAmounts \subseteq Nat

VARIABLES
    multiplier, maxFeeLimit,    \* of the client
    asked,          \* what the simulation of the transaction to prepare asks for
    preparation,    \* [outcome, base, resource, resources]
    validation      \* of validateFee: [outcome, fee, min, max, advice, advised]

tfVars == <<multiplier, maxFeeLimit, asked, preparation, validation>>

NoRequest == [kind |-> "none", base |-> 0, resource |-> 0, resources |-> 0]

NoAdvice == -1
NoValidation == [outcome |-> "none", fee |-> 0, min |-> 0, max |-> 0, advice |-> NoAdvice, advised |-> 0]

TFInit ==
    /\ multiplier \in Multipliers
    /\ maxFeeLimit \in FeeLimits
    /\ asked = NoRequest
    /\ preparation = [outcome |-> "none", base |-> 0, resource |-> 0, resources |-> 0]
    /\ validation = NoValidation

TenTo[n \in 0..MaxDigits] == IF n = 0 THEN 1 ELSE 10 * TenTo[n - 1]

\* toFraction: the notation without its point, over a power of ten.
Numerator(m) ==
    LET upTo[n \in 0..Len(m.digits)] == IF n = 0 THEN m.whole ELSE 10 * upTo[n - 1] + m.digits[n]
    IN  upTo[Len(m.digits)]
Denominator(m) == TenTo[Len(m.digits)]

MultiplyAndCeil(value) ==
    (value * Numerator(multiplier) + Denominator(multiplier) - 1) \div Denominator(multiplier)

Asked == [kind : {"soroban", "plain", "feeBump"}, base : FeeAmounts, resource : FeeAmounts, resources : FeeAmounts]

Prepared(base, resource, resources) ==
    [outcome |-> "prepared", base |-> base, resource |-> resource, resources |-> resources]
Refused == [preparation EXCEPT !.outcome = "refused"]

\* applyFeeBuffer, on the transaction assembled from the simulation, whose fee is
\* what it had with the resource fee.
Buffered(a) ==
    LET total    == a.base + a.resource
        base     == MultiplyAndCeil(IF total > a.resource THEN total - a.resource ELSE 0)
        resource == MultiplyAndCeil(a.resource)
    IN  IF \/ multiplier.whole >= HugeFrom
           \/ maxFeeLimit # NoLimit /\ (maxFeeLimit < total \/ base + resource > maxFeeLimit)
        THEN Refused
        ELSE Prepared(base, resource, MultiplyAndCeil(a.resources))

\* A behaviour prepares one transaction or validates one fee (bound).
\* prepareTransaction: the node prepares a fee bump, and a transaction without
\* Soroban data is left as it is, both whatever the limit.
PrepareTransaction(a) ==
    /\ asked = NoRequest /\ validation = NoValidation
    /\ asked' = a
    /\ preparation' = IF a.kind = "soroban" THEN Buffered(a) ELSE Prepared(a.base, a.resource, a.resources)
    /\ UNCHANGED <<multiplier, maxFeeLimit, validation>>

\* validateFee: a fee within the limits stands, unless a simulation succeeds and
\* asks for more than a fifth more.
ValidateFee(fee, min, max, advice) ==
    /\ asked = NoRequest /\ validation = NoValidation
    /\ LET accepted == min <= fee /\ fee <= max
           advised  == IF advice # NoAdvice /\ 5 * advice > 6 * fee THEN advice ELSE fee
       IN  validation' = [outcome |-> IF accepted THEN "accepted" ELSE "refused",
                          fee |-> fee, min |-> min, max |-> max, advice |-> advice,
                          advised |-> IF accepted THEN advised ELSE 0]
    /\ UNCHANGED <<multiplier, maxFeeLimit, asked, preparation>>

TFNext ==
    \/ \E a \in Asked : PrepareTransaction(a)
    \/ \E fee, min, max \in FeeAmounts, advice \in FeeAmounts \cup {NoAdvice} :
          ValidateFee(fee, min, max, advice)

-------------------------------------------------------------------------------
TFTypeOK ==
    /\ multiplier \in Multipliers /\ maxFeeLimit \in FeeLimits
    /\ asked \in Asked \cup {NoRequest}
    /\ validation \in [outcome : {"none", "refused", "accepted"}, fee : Nat, min : Nat, max : Nat,
                      advice : Nat \cup {NoAdvice}, advised : Nat]
    /\ preparation \in [outcome : {"none", "prepared", "refused"}, base : Nat, resource : Nat, resources : Nat]

\* Whoever submits with the fee validateFee answers with submits within the
\* limits, or on the advice of the node, which may exceed the greater one; and
\* never with less than five sixths of that advice.
FeeValidated ==
    validation.outcome = "accepted" =>
        /\ validation.min <= validation.advised
        /\ validation.max < validation.advised => validation.advised = validation.advice
        /\ 6 * validation.advised >= 5 * validation.advice

\* What a multiplier is worth, in units of its last possible digit, and what it
\* makes of a value: the least number that is not below the product.
Worth(m) ==
    LET upTo[n \in 0..Len(m.digits)] ==
            IF n = 0 THEN m.whole * TenTo[MaxDigits]
            ELSE upTo[n - 1] + m.digits[n] * TenTo[MaxDigits - n]
    IN  upTo[Len(m.digits)]
LeastNotBelow(n, value) ==
    /\ n * TenTo[MaxDigits] >= value * Worth(multiplier)
    /\ n = 0 \/ (n - 1) * TenTo[MaxDigits] < value * Worth(multiplier)

\* A prepared Soroban transaction has each of its fees and resources enlarged by
\* exactly the multiplier, rounded up, and all its fees within the limit.  The two
\* roundings cost at most one stroop more than one would.  None is refused but for
\* its fees, or a multiplier no fee can be multiplied by.
FeesBuffered ==
    asked.kind = "soroban" =>
        /\ preparation.outcome = "prepared" =>
            /\ LeastNotBelow(preparation.base, asked.base)
            /\ LeastNotBelow(preparation.resource, asked.resource)
            /\ LeastNotBelow(preparation.resources, asked.resources)
            /\ maxFeeLimit # NoLimit => preparation.base + preparation.resource <= maxFeeLimit
            /\ \E spare \in {0, 1} :
                  LeastNotBelow(preparation.base + preparation.resource - spare, asked.base + asked.resource)
        /\ preparation.outcome = "refused" /\ multiplier.whole < HugeFrom =>
              (asked.base + asked.resource) * Worth(multiplier) > (maxFeeLimit - 1) * TenTo[MaxDigits]
===============================================================================
