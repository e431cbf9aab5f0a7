--------------------------- MODULE AdvertisedLimits ---------------------------
(* A registry advertises the durations it enforces as ISO 8601 texts in the    *)
(* metadata of its factory; a wallet reads them back, checks terms against what *)
(* it has read and only then offers them.  What a foreign factory advertises is *)
(* untrusted: it may be any text.                                              *)
(*                                                                             *)
(* A text is P<whole>D or PT<whole>[.<fraction>]S, possibly negative, or neither; *)
(* its numerals are the numbers they spell, or Malformed (a sign, a space, more *)
(* than 18 digits).  The six counts go through parseNat alone.                 *)
EXTENDS PreparedTransaction

CONSTANTS
    MicrosPerSecond, SecondsPerDay,
    MaxAdvertised,      \* maxAdvertisedMicros, ten thousand years
    MaxNumeral,         \* the largest number of 18 digits
    Malformed, None

ASSUME AdvertisedAssumption ==
    /\ MicrosPerSecond \in Nat \ {0} /\ SecondsPerDay \in Nat \ {0}
    /\ MaxAdvertised \in Nat /\ MaxNumeral \in Nat
    /\ MaxAdvertised + MicrosPerSecond <= MaxInt /\ MaxAdvertised <= MaxNumeral
    /\ MaxAdvertised % (MicrosPerSecond * SecondsPerDay) = 0
    /\ Malformed \notin Int /\ None \notin Int /\ Overflow # None

microsPerDay == SecondsPerDay * MicrosPerSecond
Fraction == [sixDigits : BOOLEAN, value : 0 .. MicrosPerSecond - 1]
DurationText ==
    [negative : BOOLEAN, form : {"days", "seconds", "other"},
     whole : (0 .. MaxNumeral) \union {Malformed}, fraction : Fraction \union {None}]

ASSUME NoneAssumption == None \notin Fraction

VARIABLES
    advertised,     \* the two durations in the metadata, and those that are enforced
    read            \* the two durations as the wallet has read them

limitsVars == <<vars, advertised, read>>
-----------------------------------------------------------------------------
parseNat(numeral) == IF numeral = Malformed THEN None ELSE numeral

\* Arithmetic on Int raises outside its range.
inRange(n) == IF n \in RelTime THEN n ELSE Overflow

\* Fault: multiplies whatever it is given.
scaleMicros_Unguarded(factor, n) == IF n = None THEN None ELSE inRange(n * factor)

scaleMicros(factor, n) ==
    IF n = None \/ n > MaxAdvertised \div factor THEN None ELSE inRange(n * factor)

magnitude(d) == IF d < 0 THEN negate(d) ELSE d

\* Defined except at the Int minimum, which has no magnitude.
renderDuration(d) ==
    LET m == magnitude(d)
        wholeDays == m > 0 /\ m % microsPerDay = 0
        rest == m % MicrosPerSecond
    IN  [negative |-> d < 0,
         form     |-> IF wholeDays THEN "days" ELSE "seconds",
         whole    |-> LET n == IF wholeDays THEN m \div microsPerDay ELSE m \div MicrosPerSecond
                      IN  IF n > MaxNumeral THEN Malformed ELSE n,
         fraction |-> IF wholeDays \/ rest = 0 THEN None ELSE [sixDigits |-> TRUE, value |-> rest]]

parseSeconds(text) ==
    LET w == scaleMicros(MicrosPerSecond, parseNat(text.whole))
    IN  IF text.fraction = None THEN w
        ELSE IF ~text.fraction.sixDigits THEN None
        ELSE IF w \in {None, Overflow} THEN w
        ELSE inRange(w + text.fraction.value)

\* A fraction of days is no numeral.
parseDuration(text) ==
    LET us == CASE text.form = "seconds" -> parseSeconds(text)
                [] text.form = "days" /\ text.fraction = None ->
                       scaleMicros(microsPerDay, parseNat(text.whole))
                [] OTHER -> None
    IN  IF text.negative /\ us \notin {None, Overflow} THEN negate(us) ELSE us

limitsFromMetadata(meta) == [low |-> parseDuration(meta.low), high |-> parseDuration(meta.high)]
isRead == read # None /\ None \notin {read.low, read.high}
-----------------------------------------------------------------------------
Foreign == [tag |-> "foreign"]
Own(low, high) == [tag |-> "own", low |-> low, high |-> high]

Advertise(low, high) ==
    /\ advertised = None
    /\ Overflow \notin {magnitude(low), magnitude(high)}
    /\ advertised' = [low |-> renderDuration(low), high |-> renderDuration(high),
                      enforced |-> Own(low, high)]
    /\ UNCHANGED <<vars, read>>

AdvertiseForeign(text) ==
    /\ advertised = None
    /\ advertised' = [low |-> text, high |-> text, enforced |-> Foreign]
    /\ UNCHANGED <<vars, read>>

ReadMetadata ==
    /\ advertised # None /\ read = None
    /\ read' = limitsFromMetadata(advertised)
    /\ UNCHANGED <<vars, advertised>>

\* A wallet that has read the limits offers what they allow at this moment.
Offer(requestedAt, expiresAt) ==
    /\ isRead /\ advertised.enforced.tag = "own"
    /\ \A q \in asked(read.low, read.high, requestedAt, expiresAt) : Answer(q, now)
    /\ Prepare(advertised.enforced.low, advertised.enforced.high, requestedAt, expiresAt)
    /\ UNCHANGED <<advertised, read>>

\* A wallet that does not look at the limits offers anything.
OfferUnread ==
    /\ advertised = None /\ tx = Idle
    /\ \E low, high \in Durations, requestedAt, expiresAt \in Time :
          Prepare(low, high, requestedAt, expiresAt)
    /\ UNCHANGED <<advertised, read>>

LimitsInit == Init /\ advertised = None /\ read = None

LimitsNext ==
    \/ /\ tx = Idle /\ advertised = None
       /\ \/ \E low, high \in Durations : Advertise(low, high)
          \/ \E text \in DurationText : AdvertiseForeign(text)
    \/ ReadMetadata
    \/ OfferUnread
    \/ tx = Idle /\ \E requestedAt, expiresAt \in Time : Offer(requestedAt, expiresAt)
    \/ (Execute \/ Tick) /\ UNCHANGED <<advertised, read>>

LimitsSpec == LimitsInit /\ [][LimitsNext]_limitsVars
-----------------------------------------------------------------------------
\* Reading an advertisement never raises, whatever it is, and yields no duration
\* past the bound; what a registry advertises up to that bound is read as what it
\* enforces, and beyond it not at all; so no terms that a wallet has checked
\* against an advertisement are refused at the time of the check ("the advertised
\* and the enforced value can no longer drift apart", Policy.daml:78).
AdvertisedAreEnforced ==
    /\ read # None =>
          /\ Overflow \notin {read.low, read.high}
          /\ \A d \in {read.low, read.high} \ {None} : magnitude(d) < MaxAdvertised + MicrosPerSecond
    /\ read # None /\ advertised.enforced.tag = "own" =>
          /\ read.low \in {advertised.enforced.low, None}
          /\ read.high \in {advertised.enforced.high, None}
          /\ read.low = None => magnitude(advertised.enforced.low) > MaxAdvertised
          /\ read.high = None => magnitude(advertised.enforced.high) > MaxAdvertised
    /\ advertised # None => tx.phase # "aborted"
=============================================================================
