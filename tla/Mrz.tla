-------------------------------- MODULE Mrz --------------------------------
(***************************************************************************)
(* What the browser reads off the photo page of a passport: the check      *)
(* digits of the machine-readable zone, the century of its two-digit years *)
(* and the eligibility that follows.  A date is a record of year, month    *)
(* and day; a field of the zone is a sequence of digits.                   *)
(***************************************************************************)
EXTENDS Naturals, Sequences, FiniteSetsExt

\* Mutant: one weight shares a factor with ten.
WEIGHTSEven == <<7, 2, 1>>

WEIGHTS == <<7, 3, 1>>

computeCheckDigit(value) ==
    MapThenSumSet(LAMBDA i : value[i] * WEIGHTS[((i - 1) % 3) + 1], DOMAIN value) % 10

checkMatches(value, expected) == computeCheckDigit(value) = expected

NoDate == [y |-> 0, m |-> 0, d |-> 0]

DaysOf(y, m) ==
    CASE m \in {4, 6, 9, 11} -> 30
      [] m = 2 -> IF y % 4 = 0 /\ (y % 100 # 0 \/ y % 400 = 0) THEN 29 ELSE 28
      [] OTHER -> 31

Before(a, b) ==
    \/ a.y < b.y
    \/ a.y = b.y /\ a.m < b.m
    \/ a.y = b.y /\ a.m = b.m /\ a.d < b.d

\* A birth year is never in the future.
BirthYear(yy, ref) == IF yy > ref.y % 100 THEN ref.y - (ref.y % 100) + yy - 100 ELSE ref.y - (ref.y % 100) + yy

\* An expiry year may be; it is of the next century only when it is more than fifty years ago.
ExpiryYear(yy, ref) == IF yy + 50 < ref.y % 100 THEN ref.y - (ref.y % 100) + yy + 100 ELSE ref.y - (ref.y % 100) + yy

expandMrzDate(field, kind, ref) ==
    LET yy == 10 * field[1] + field[2]
        m  == 10 * field[3] + field[4]
        d  == 10 * field[5] + field[6]
        y  == IF kind = "birth" THEN BirthYear(yy, ref) ELSE ExpiryYear(yy, ref)
    IN  IF m \in 1..12 /\ d \in 1..DaysOf(y, m) THEN [y |-> y, m |-> m, d |-> d] ELSE NoDate

\* Whole years elapsed, counting the birthday itself.
yearsBetween(from, to) == to.y - from.y - (IF [from EXCEPT !.y = to.y] = to \/ Before([from EXCEPT !.y = to.y], to) THEN 0 ELSE 1)

\* The two dates of the second line with their check digits, and the composite one.  The
\* document number and the optional data are the same filler on every page.
Line(birth, expiry) ==
    LET b == Append(birth, computeCheckDigit(birth))
        e == Append(expiry, computeCheckDigit(expiry))
    IN  [birth |-> b, expiry |-> e, composite |-> computeCheckDigit(b \o e)]

\* parseTd3: the check digit of each field, then the composite one, then the dates.
parseTd3(line, ref) ==
    /\ checkMatches(SubSeq(line.birth, 1, 6), line.birth[7])
    /\ checkMatches(SubSeq(line.expiry, 1, 6), line.expiry[7])
    /\ checkMatches(line.birth \o line.expiry, line.composite)
    /\ expandMrzDate(line.birth, "birth", ref) # NoDate
    /\ expandMrzDate(line.expiry, "expiry", ref) # NoDate

isAdult(birth, ref) == Before(birth, ref) /\ yearsBetween(birth, ref) >= 18

\* The expiry is compared, as its midnight, with an instant: a passport that expires today has.
isExpired(expiry, ref) == ~Before(ref, expiry)

\* toEligibility, and the three refusals of acceptRecord.
toEligibility(line, ref) ==
    /\ isAdult(expandMrzDate(line.birth, "birth", ref), ref)
    /\ ~isExpired(expandMrzDate(line.expiry, "expiry", ref), ref)

\* parseIsoDate and validateManualFields: full years, no birth to come, a passport still valid.
validateManualFields(page, ref) == ~Before(ref, page.birth) /\ ~isExpired(page.expiry, ref)
=============================================================================
