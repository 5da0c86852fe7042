------------------------- MODULE PureFunctionsProofs -------------------------
(***************************************************************************)
(* The functions of the runtime that keep no state are right for every     *)
(* input, and not only up to the bounds of a run: every day from 1970 on,  *)
(* images of any number of layers, references of any length.               *)
(*                                                                         *)
(* The dates: the divisions of the code find the year of a day of an era,  *)
(* the next day is in the same year or the first of the next one, and the  *)
(* dates of both are compared with the calendar's rule.                    *)
(***************************************************************************)
EXTENDS PureFunctions, FiniteSetTheorems, SequenceTheorems, TLAPS

(* The days in the year that begins on the first of March of year y.       *)
YearLength(y) == IF IsLeap(y + 1) THEN 366 ELSE 365

(* The days of an era before the first of March of its year y.             *)
DaysBefore(y) == 365 * y + y \div 4 - y \div 100

(* The year of the n-th day of an era, as the code divides.                *)
YearOf(n) == (n - n \div 1460 + n \div 36524 - n \div 146096) \div 365

-----------------------------------------------------------------------------
(***************************************************************************)
(* The divisions of the code find the year that the day is in.             *)
(***************************************************************************)
LEMMA YearFound ==
  ASSUME NEW n \in Nat, n < 146097
  PROVE  /\ YearOf(n) \in Nat /\ YearOf(n) < 400
         /\ n - DaysBefore(YearOf(n)) \in Nat
         /\ n - DaysBefore(YearOf(n)) < YearLength(YearOf(n))
BY SMTT(60) DEF YearOf, DaysBefore, YearLength, IsLeap

(* The years of an era follow each other.                                  *)
LEMMA YearsFollow ==
  ASSUME NEW y \in Nat, y < 399
  PROVE  DaysBefore(y + 1) = DaysBefore(y) + YearLength(y)
BY SMTT(60) DEF DaysBefore, YearLength, IsLeap

(* They do not overlap: no other year has the day.                         *)
LEMMA YearUnique ==
  ASSUME NEW n \in Nat, NEW y \in Nat, NEW z \in Nat, y < 400, z < 400,
         n >= DaysBefore(y), n < DaysBefore(y) + YearLength(y),
         n >= DaysBefore(z), n < DaysBefore(z) + YearLength(z)
  PROVE  y = z
BY SMTT(60) DEF DaysBefore, YearLength, IsLeap

(***************************************************************************)
(* The day after is in the same year, or the first day of the next one.    *)
(***************************************************************************)
LEMMA DayAfter ==
  ASSUME NEW n \in Nat, n < 146096, NEW m \in Nat, m = n + 1
  PROVE  LET y == YearOf(n)  d == n - DaysBefore(y) IN
         IF d + 1 < YearLength(y)
         THEN YearOf(m) = y /\ m - DaysBefore(YearOf(m)) = d + 1
         ELSE YearOf(m) = y + 1 /\ m - DaysBefore(YearOf(m)) = 0
<1> DEFINE y == YearOf(n)
           z == YearOf(m)
<1>1. y \in Nat /\ y < 400 /\ n - DaysBefore(y) \in Nat /\ n - DaysBefore(y) < YearLength(y)
  BY YearFound, SMT
<1>2. z \in Nat /\ z < 400 /\ m - DaysBefore(z) \in Nat /\ m - DaysBefore(z) < YearLength(z)
  BY YearFound, SMT
<1>3. DaysBefore(y) \in Int /\ DaysBefore(z) \in Int /\ YearLength(y) \in Nat /\ YearLength(z) \in Nat
  BY <1>1, <1>2, SMT DEF DaysBefore, YearLength
<1>4. CASE n - DaysBefore(y) + 1 < YearLength(y)
  <2>1. y = z
    BY <1>1, <1>2, <1>3, <1>4, YearUnique, SMT
  <2>2. QED BY <1>3, <1>4, <2>1, SMT
<1>5. CASE n - DaysBefore(y) + 1 = YearLength(y)
  <2>1. y < 399
    BY <1>1, <1>5, SMT DEF DaysBefore, YearLength, IsLeap
  <2>2. DaysBefore(y + 1) = m /\ 0 < YearLength(y + 1)
    BY <1>1, <1>3, <1>5, <2>1, YearsFollow, SMT DEF YearLength
  <2>3. y + 1 = z
    <3>1. y + 1 \in Nat /\ y + 1 < 400 /\ m \in Nat /\ YearLength(y + 1) \in Nat
      BY <1>1, <2>1, SMT DEF YearLength
    <3>2. QED BY <1>2, <1>3, <2>2, <3>1, YearUnique, SMT
  <2>4. QED BY <1>3, <1>5, <2>2, <2>3, SMT
<1>6. QED BY <1>1, <1>3, <1>4, <1>5, SMT

(* An era ends with the last day of its year 399.                          *)
LEMMA EraEnds ==
  /\ YearOf(146096) = 399 /\ 146096 - DaysBefore(399) = 365 /\ YearLength(399) = 366
  /\ YearOf(0) = 0 /\ DaysBefore(0) = 0
BY SMT DEF YearOf, DaysBefore, YearLength, IsLeap
-----------------------------------------------------------------------------
(***************************************************************************)
(* The months: the code's date of day d of the year that begins on the     *)
(* first of March of year y.                                               *)
(***************************************************************************)
MonthOf(d) == IF (5 * d + 2) \div 153 < 10 THEN (5 * d + 2) \div 153 + 3
                                           ELSE (5 * d + 2) \div 153 - 9
DayOf(d) == d - (153 * ((5 * d + 2) \div 153) + 2) \div 5 + 1
DateOf(y, d) == <<IF MonthOf(d) <= 2 THEN y + 1 ELSE y, MonthOf(d), DayOf(d)>>

(* The last day of month m, from the day of the year that is its last.     *)
LEMMA MonthGoesOn ==
  ASSUME NEW y \in Nat, NEW d \in Nat, d + 1 < YearLength(y)
  PROVE  NextDate(DateOf(y, d)) = DateOf(y, d + 1)
<1> DEFINE Y == IF MonthOf(d) <= 2 THEN y + 1 ELSE y
           L == DaysOfMonth(Y, MonthOf(d))
<1>1. d < 365 /\ (d = 364 => IsLeap(y + 1))
  BY SMT DEF YearLength
<1>2. MonthOf(d) \in 1..12 /\ DayOf(d) \in 1..31 /\ MonthOf(d + 1) \in 1..12
  BY <1>1, SMT DEF MonthOf, DayOf
<1>3. DayOf(d) <= L
  BY <1>1, SMT DEF MonthOf, DayOf, DaysOfMonth
<1>4. CASE DayOf(d) < L
  <2>1. MonthOf(d + 1) = MonthOf(d) /\ DayOf(d + 1) = DayOf(d) + 1
    BY <1>1, <1>4, SMT DEF MonthOf, DayOf, DaysOfMonth
  <2>2. NextDate(DateOf(y, d)) = <<Y, MonthOf(d), DayOf(d) + 1>>
    BY <1>2, <1>4, SMT DEF NextDate, DateOf
  <2>3. QED BY <2>1, <2>2, SMT DEF DateOf
<1>5. CASE DayOf(d) = L /\ MonthOf(d) < 12
  <2>1. MonthOf(d + 1) = MonthOf(d) + 1 /\ DayOf(d + 1) = 1
    BY <1>1, <1>5, SMT DEF MonthOf, DayOf, DaysOfMonth
  <2>2. MonthOf(d) # 2
    BY <1>1, <1>5, SMT DEF MonthOf, DayOf, DaysOfMonth
  <2>3. NextDate(DateOf(y, d)) = <<Y, MonthOf(d) + 1, 1>>
    BY <1>2, <1>5, SMT DEF NextDate, DateOf
  <2>4. QED BY <1>2, <2>1, <2>2, <2>3, SMT DEF DateOf
<1>6. CASE DayOf(d) = L /\ MonthOf(d) = 12
  <2>1. MonthOf(d + 1) = 1 /\ DayOf(d + 1) = 1
    BY <1>1, <1>6, SMT DEF MonthOf, DayOf, DaysOfMonth
  <2>2. NextDate(DateOf(y, d)) = <<y + 1, 1, 1>>
    BY <1>2, <1>6, SMT DEF NextDate, DateOf
  <2>3. QED BY <2>1, <2>2, SMT DEF DateOf
<1>7. L \in Nat
  BY SMT DEF DaysOfMonth
<1>8. QED BY <1>2, <1>3, <1>4, <1>5, <1>6, <1>7, SMT

(* The year ends with the last day of February.                            *)
LEMMA YearEnds ==
  ASSUME NEW y \in Nat, NEW d \in Nat, d + 1 = YearLength(y)
  PROVE  NextDate(DateOf(y, d)) = DateOf(y + 1, 0)
<1>1. d = IF IsLeap(y + 1) THEN 365 ELSE 364
  BY SMT DEF YearLength
<1>2. MonthOf(d) = 2 /\ DayOf(d) = IF IsLeap(y + 1) THEN 29 ELSE 28
  BY <1>1, SMT DEF MonthOf, DayOf
<1>3. MonthOf(0) = 3 /\ DayOf(0) = 1
  BY SMT DEF MonthOf, DayOf
<1>4. DateOf(y, d) = <<y + 1, 2, DayOf(d)>> /\ DateOf(y + 1, 0) = <<y + 1, 3, 1>>
  BY <1>2, <1>3, SMT DEF DateOf
<1>5. DaysOfMonth(y + 1, 2) = DayOf(d)
  BY <1>2, SMT DEF DaysOfMonth
<1>6. QED BY <1>4, <1>5, SMT DEF NextDate
-----------------------------------------------------------------------------
(* days_to_ymd in these terms: eras are 400 years long.                    *)
LEMMA CodeDate ==
  ASSUME NEW day \in Nat
  PROVE  LET n == doe(day)
             k == (day + 719468) \div Era
         IN /\ n \in Nat /\ n < 146097 /\ k \in Nat /\ day + 719468 = 146097 * k + n
            /\ days_to_ymd(day) = DateOf(YearOf(n) + 400 * k, n - DaysBefore(YearOf(n)))
<1>1. /\ doe(day) \in Nat /\ doe(day) < 146097 /\ (day + 719468) \div Era \in Nat
      /\ day + 719468 = 146097 * ((day + 719468) \div Era) + doe(day)
  BY SMT DEF doe, Era
<1>2. yoe(day) = YearOf(doe(day)) /\ doy(day) = doe(day) - DaysBefore(YearOf(doe(day)))
  BY SMT DEF yoe, doy, YearOf, DaysBefore
<1>3. days_to_ymd(day) = DateOf(yoe(day) + 400 * ((day + 719468) \div Era), doy(day))
  <2>1. yoe(day) + 400 * ((day + 719468) \div Era) = yoe(day) + ((day + 719468) \div Era) * 400
    BY <1>1, SMT
  <2>2. QED BY <2>1, SMT DEF days_to_ymd, DateOf, MonthOf, DayOf
<1>4. QED BY <1>1, <1>2, <1>3, SMT

(* The calendar repeats itself every 400 years.                            *)
LEMMA EraLength ==
  ASSUME NEW y \in Nat, NEW k \in Nat
  PROVE  YearLength(y + 400 * k) = YearLength(y)
BY SMT DEF YearLength, IsLeap

(***************************************************************************)
(* The date of the day after is the next date of the calendar.             *)
(***************************************************************************)
LEMMA NextDay ==
  ASSUME NEW day \in Nat
  PROVE  days_to_ymd(day + 1) = NextDate(days_to_ymd(day))
<1> DEFINE n == doe(day)
           k == (day + 719468) \div Era
           y == YearOf(n)
           d == n - DaysBefore(y)
           m == doe(day + 1)
           l == (day + 1 + 719468) \div Era
<1>1. /\ n \in Nat /\ n < 146097 /\ k \in Nat /\ day + 719468 = 146097 * k + n
      /\ days_to_ymd(day) = DateOf(y + 400 * k, d)
  BY CodeDate, SMT
<1>2. /\ m \in Nat /\ m < 146097 /\ l \in Nat /\ day + 1 + 719468 = 146097 * l + m
      /\ days_to_ymd(day + 1) = DateOf(YearOf(m) + 400 * l, m - DaysBefore(YearOf(m)))
  <2>1. day + 1 \in Nat
    BY SMT
  <2>2. QED BY <2>1, CodeDate, SMT
<1>3. y \in Nat /\ y < 400 /\ d \in Nat /\ d < YearLength(y)
  BY <1>1, YearFound, SMT
<1>4. YearLength(y + 400 * k) = YearLength(y) /\ YearLength(y) \in Nat
  BY <1>1, <1>3, EraLength, SMT DEF YearLength
<1>5. CASE n < 146096
  <2>1. m = n + 1 /\ l = k
    BY <1>1, <1>2, <1>5, SMT
  <2>2. CASE d + 1 < YearLength(y)
    <3>1. YearOf(m) = y /\ m - DaysBefore(YearOf(m)) = d + 1
      BY <1>1, <1>2, <1>5, <2>1, <2>2, DayAfter, SMT
    <3>2. NextDate(DateOf(y + 400 * k, d)) = DateOf(y + 400 * k, d + 1)
      BY <1>1, <1>3, <1>4, <2>2, MonthGoesOn, SMT
    <3>3. QED BY <1>1, <1>2, <2>1, <3>1, <3>2, SMT
  <2>3. CASE d + 1 = YearLength(y)
    <3>1. YearOf(m) = y + 1 /\ m - DaysBefore(YearOf(m)) = 0
      BY <1>1, <1>2, <1>3, <1>5, <2>1, <2>3, DayAfter, SMT
    <3>2. NextDate(DateOf(y + 400 * k, d)) = DateOf(y + 400 * k + 1, 0)
      BY <1>1, <1>3, <1>4, <2>3, YearEnds, SMT
    <3>3. y + 400 * k + 1 = y + 1 + 400 * k
      BY <1>1, <1>3, SMT
    <3>4. QED BY <1>1, <1>2, <2>1, <3>1, <3>2, <3>3, SMT
  <2>4. QED BY <1>3, <1>4, <2>2, <2>3, SMT
<1>6. CASE n = 146096
  <2>1. m = 0 /\ l = k + 1
    BY <1>1, <1>2, <1>6, SMT
  <2>2. y = 399 /\ d = 365 /\ d + 1 = YearLength(y)
    BY <1>6, EraEnds, SMT
  <2>3. NextDate(DateOf(y + 400 * k, d)) = DateOf(y + 400 * k + 1, 0)
    BY <1>1, <1>3, <1>4, <2>2, YearEnds, SMT
  <2>4. YearOf(m) + 400 * l = y + 400 * k + 1 /\ m - DaysBefore(YearOf(m)) = 0
    BY <1>1, <1>2, <2>1, <2>2, EraEnds, SMT
  <2>5. QED BY <1>1, <1>2, <2>3, <2>4, SMT
<1>7. QED BY <1>1, <1>5, <1>6, SMT

(* The first day is the first of January 1970.                             *)
LEMMA FirstDay == days_to_ymd(0) = Epoch
<1>1. doe(0) = 135080 /\ (0 + 719468) \div Era = 4
  BY SMT DEF doe, Era
<1>2. yoe(0) = 369 /\ doy(0) = 306
  BY <1>1, SMT DEF yoe, doy
<1>3. QED BY <1>1, <1>2, SMT DEF days_to_ymd, Epoch

-----------------------------------------------------------------------------
(***************************************************************************)
(* For every day from 1970 on, and not only those of a run, days_to_ymd    *)
(* counts as the Gregorian calendar does.                                  *)
(***************************************************************************)
THEOREM DatesExact == Spec => []CalendarExact
<1> DEFINE Known == input.of = "days_to_ymd" => input.day \in Nat
<1>1. Init => Known
  BY FunctionsAssumption DEF Init
<1>2. Known /\ [Next]_input => Known'
  <2> SUFFICES ASSUME Known, [Next]_input PROVE Known'
    OBVIOUS
  <2>1. ASSUME NEW token, Type(token) PROVE Known'
    BY <2>1, SMT DEF Type
  <2>2. CASE UNCHANGED input
    BY <2>2
  <2>3. QED BY <2>1, <2>2 DEF Next
<1>3. Known => CalendarExact
  BY NextDay, FirstDay DEF CalendarExact
<1>4. QED BY <1>1, <1>2, <1>3, PTL DEF Spec

-----------------------------------------------------------------------------
(***************************************************************************)
(* A set of positions has a least and a greatest element: the first and    *)
(* the last of a sequence that pass a test.                                *)
(***************************************************************************)
LEMMA Least ==
  ASSUME NEW S, S \subseteq Nat, S # {}
  PROVE  Min(S) \in S /\ \A y \in S : Min(S) <= y
<1>0. \A y \in S : y \in Nat
  OBVIOUS
<1>1. PICK n \in S : n \in Nat
  OBVIOUS
<1> DEFINE Below(x) == {y \in S : y <= x}
           D == {Below(x) : x \in Below(n)}
<1>2. ASSUME NEW x \in Below(n) PROVE Below(x) \in FiniteSubsetsOf(S)
  <2>1. ASSUME NEW y \in Below(x) PROVE y \in 0..n
    BY <1>0, <1>1
  <2>2. IsFiniteSet(0..n)
    BY <1>1, FS_Interval
  <2>3. IsFiniteSet(Below(x))
    BY <2>1, <2>2, FS_Subset
  <2>4. QED BY <2>3 DEF FiniteSubsetsOf
<1>3. D \subseteq FiniteSubsetsOf(S)
  BY <1>2
<1>4. n \in Below(n)
  BY <1>1
<1>5. D # {}
  BY <1>4
<1>6. PICK d \in D : \A e \in D : <<e, d>> \notin StrictSubsetOrdering(S)
  <2> HIDE DEF D
  <2>1. IsWellFoundedOn(StrictSubsetOrdering(S), FiniteSubsetsOf(S))
    BY FS_StrictSubsetOrderingWellFounded
  <2>2. QED BY <1>3, <1>5, <2>1, WFMin
<1>7. PICK x \in Below(n) : d = Below(x)
  BY <1>6
<1>8. ASSUME NEW y \in S, y < x PROVE FALSE
  <2>1. y \in Nat /\ x \in Nat /\ n \in Nat /\ x <= n
    BY <1>0, <1>1, <1>7
  <2>2. y \in Below(n) /\ x \in Below(x) /\ x \notin Below(y)
    BY <1>8, <2>1
  <2>3. ASSUME NEW z \in Below(y) PROVE z \in Below(x)
    BY <1>0, <1>8, <2>1
  <2>4. <<Below(y), Below(x)>> \in StrictSubsetOrdering(S)
    <3>1. Below(y) \subseteq Below(x) /\ Below(y) # Below(x)
      BY <2>2, <2>3
    <3> DEFINE E == Below(y)
               F == Below(x)
    <3>2. E \in SUBSET S /\ F \in SUBSET S
      OBVIOUS
    <3> HIDE DEF E, F
    <3>3. QED BY <3>1, <3>2 DEF StrictSubsetOrdering
  <2>5. QED BY <1>6, <1>7, <2>2, <2>4
<1>9. \A y \in S : x <= y
  BY <1>0, <1>7, <1>8
<1>10. QED BY <1>7, <1>9 DEF Min

LEMMA Greatest ==
  ASSUME NEW S, S \subseteq Nat, S # {}, NEW n \in Nat, \A x \in S : x <= n
  PROVE  Max(S) \in S /\ \A y \in S : y <= Max(S)
<1> DEFINE T == {n - x : x \in S}
<1>1. \A x \in S : x \in Nat /\ n - x \in Nat
  OBVIOUS
<1>2. T \subseteq Nat /\ T # {}
  BY <1>1
<1>3. Min(T) \in T /\ \A y \in T : Min(T) <= y
  <2> HIDE DEF T
  <2> QED BY <1>2, Least
<1>4. PICK x \in S : Min(T) = n - x
  BY <1>3
<1>5. ASSUME NEW y \in S PROVE y <= x
  <2>1. n - x <= n - y
    BY <1>3, <1>4
  <2>2. QED BY <1>1, <2>1
<1>6. QED BY <1>5 DEF Max

-----------------------------------------------------------------------------
(***************************************************************************)
(* Overlays.  Each file of the image is what the lowest layer that has it  *)
(* holds: no layer above replaces it by another, or deletes it.            *)
(***************************************************************************)
LowestIsTopmost(layers) ==
  \A n \in Names :
    LET files == {i \in DOMAIN layers : layers[i][n] \notin {Absent, Whiteout}}
        said == {i \in DOMAIN layers : layers[i][n] # Absent}
    IN files # {} => layers[Min(files)][n] = layers[Max(said)][n]

(***************************************************************************)
(* The layers of an image, of any number and with any files, added to a    *)
(* mount in the order of get_image_layers: the mount shows the image when  *)
(* no layer changes a file of a layer below it, and only then.             *)
(***************************************************************************)
THEOREM BottomFirstShows ==
  ASSUME NEW m \in Nat, NEW layers \in [1..m -> Layers],
         NEW given \in SUBSET Settable, NEW ro \in BOOLEAN
  PROVE  LET b == Builder(Extracted(layers), given, ro) IN
         View(lowerdir(b)) = Image(layers) <=> LowestIsTopmost(layers)
<1> DEFINE dirs == Extracted(layers)
           F(n) == {i \in 1..m : layers[i][n] \notin {Absent, Whiteout}}
           M(n) == {i \in 1..m : layers[i][n] # Absent}
<1>1. DOMAIN layers = 1..m /\ DOMAIN dirs = 1..m
  BY DEF Extracted
<1>2. \A i \in 1..m : \A n \in Names :
        dirs[i][n] = IF layers[i][n] = Whiteout THEN Absent ELSE layers[i][n]
  BY DEF Extracted, extract_layer
<1>3. ASSUME NEW n \in Names
      PROVE  View(dirs)[n] = Image(layers)[n]
               <=> (F(n) # {} => layers[Min(F(n))][n] = layers[Max(M(n))][n])
  <2>1. View(dirs)[n] = IF F(n) = {} THEN Absent ELSE dirs[Min(F(n))][n]
    <3>1. {i \in 1..m : dirs[i][n] # Absent} = F(n)
      BY <1>2
    <3> HIDE DEF dirs
    <3>2. View(dirs)[n] = LET S == {i \in DOMAIN dirs : dirs[i][n] # Absent}
                          IN IF S = {} THEN Absent ELSE dirs[Min(S)][n]
      BY DEF View
    <3>3. QED BY <1>1, <3>1, <3>2, Zenon
  <2>2. Image(layers)[n] = IF M(n) = {} \/ layers[Max(M(n))][n] = Whiteout THEN Absent
                           ELSE layers[Max(M(n))][n]
    BY <1>1 DEF Image
  <2>3. CASE F(n) = {}
    <3>1. M(n) # {} => Max(M(n)) \in M(n)
      BY Greatest
    <3>2. \A i \in M(n) : layers[i][n] = Whiteout
      BY <2>3
    <3> HIDE DEF M
    <3>3. QED BY <2>1, <2>2, <2>3, <3>1, <3>2
  <2>4. CASE F(n) # {}
    <3> DEFINE a == Min(F(n))
               b == Max(M(n))
    <3>1. a \in F(n)
      BY <2>4, Least
    <3>2. M(n) # {} /\ b \in M(n)
      BY <3>1, Greatest
    <3> HIDE DEF a, b
    <3>3. dirs[a][n] = layers[a][n] /\ layers[a][n] \notin {Absent, Whiteout}
      BY <1>2, <3>1
    <3>4. View(dirs)[n] = layers[a][n]
      BY <2>1, <2>4, <3>3 DEF a
    <3>5. Image(layers)[n] = IF layers[b][n] = Whiteout THEN Absent ELSE layers[b][n]
      BY <2>2, <3>2 DEF b
    <3>6. View(dirs)[n] = Image(layers)[n] <=> layers[a][n] = layers[b][n]
      BY <3>2, <3>3, <3>4, <3>5
    <3>7. QED BY <2>4, <3>6 DEF a, b
  <2>5. QED BY <2>3, <2>4
<1>4. View(dirs) = Image(layers) <=> \A n \in Names : View(dirs)[n] = Image(layers)[n]
  BY DEF View, Image
<1>5. LowestIsTopmost(layers)
        <=> \A n \in Names : F(n) # {} => layers[Min(F(n))][n] = layers[Max(M(n))][n]
  BY <1>1 DEF LowestIsTopmost
<1> HIDE DEF F, M, dirs
<1>6. View(dirs) = Image(layers) <=> LowestIsTopmost(layers)
  BY <1>3, <1>4, <1>5
<1>7. QED BY <1>6 DEF Builder, lowerdir, dirs

-----------------------------------------------------------------------------
(***************************************************************************)
(* References.  A text that is joined of two by a separator is taken apart *)
(* at this separator again.                                                *)
(***************************************************************************)
Joined(u, sep, v) == u \o <<sep>> \o v

(* s has u before its position k, there sep, and v after it.              *)
HasParts(T, s, k, u, sep, v) ==
  /\ s \in Seq(T) /\ Len(s) = k + Len(v) /\ s # <<>>
  /\ k = Len(u) + 1
  /\ \A i \in 1..Len(u) : s[i] = u[i]
  /\ s[k] = sep
  /\ \A i \in 1..Len(v) : s[k + i] = v[i]
  /\ Before(s, k) = u /\ After(s, k) = v

LEMMA Join ==
  ASSUME NEW T, NEW u \in Seq(T), NEW sep \in T, NEW v \in Seq(T)
  PROVE  HasParts(T, Joined(u, sep, v), Len(u) + 1, u, sep, v)
<1> DEFINE s == Joined(u, sep, v)
           k == Len(u) + 1
<1>1. /\ s \in Seq(T) /\ Len(s) = k + Len(v) /\ Len(u) \in Nat /\ Len(v) \in Nat
      /\ \A i \in 1..Len(u) : s[i] = u[i]
      /\ s[k] = sep
      /\ \A i \in 1..Len(v) : s[k + i] = v[i]
  <2>1. <<sep>> \in Seq(T) /\ Len(<<sep>>) = 1
    OBVIOUS
  <2>2. /\ u \o <<sep>> \in Seq(T) /\ Len(u \o <<sep>>) = k
        /\ \A i \in 1..k : (u \o <<sep>>)[i] = IF i <= Len(u) THEN u[i] ELSE <<sep>>[i - Len(u)]
    BY <2>1, ConcatProperties
  <2>3. /\ s \in Seq(T) /\ Len(s) = k + Len(v)
        /\ \A i \in 1..k + Len(v) : s[i] = IF i <= k THEN (u \o <<sep>>)[i] ELSE v[i - k]
    BY <2>2, ConcatProperties DEF Joined
  <2>4. Len(u) \in Nat /\ Len(v) \in Nat
    OBVIOUS
  <2>5. \A i \in 1..Len(u) : s[i] = u[i]
    BY <2>2, <2>3, <2>4
  <2>6. s[k] = sep
    BY <2>2, <2>3, <2>4
  <2>7. ASSUME NEW i \in 1..Len(v) PROVE s[k + i] = v[i]
    <3>1. k + i \in 1..k + Len(v) /\ ~(k + i <= k) /\ k + i - k = i
      BY <2>4
    <3>2. s[k + i] = v[k + i - k]
      BY <2>3, <3>1
    <3>3. QED BY <3>1, <3>2
  <2>8. QED BY <2>3, <2>4, <2>5, <2>6, <2>7
<1> HIDE DEF s
<1>2. s # <<>>
  BY <1>1
<1>3. SubSeq(s, 1, k - 1) = u
  <2>1. \A i \in 1..k - 1 : s[i] \in T
    BY <1>1
  <2>2. /\ SubSeq(s, 1, k - 1) \in Seq(T) /\ Len(SubSeq(s, 1, k - 1)) = Len(u)
        /\ \A i \in 1..Len(u) : SubSeq(s, 1, k - 1)[i] = s[i]
    BY <1>1, <2>1, SubSeqProperties
  <2>3. QED BY <1>1, <2>2, SeqEqual
<1>4. SubSeq(s, k + 1, Len(s)) = v
  <2>1. \A i \in k + 1..Len(s) : s[i] \in T
    BY <1>1
  <2>2. /\ SubSeq(s, k + 1, Len(s)) \in Seq(T) /\ Len(SubSeq(s, k + 1, Len(s))) = Len(v)
        /\ \A i \in 1..Len(v) : SubSeq(s, k + 1, Len(s))[i] = s[k + i]
    BY <1>1, <2>1, SubSeqProperties
  <2>3. QED BY <1>1, <2>2, SeqEqual
<1>5. QED BY <1>1, <1>2, <1>3, <1>4 DEF s, HasParts, Before, After

(* What a text holds from one side of a separator on.                      *)
LEMMA Parted ==
  ASSUME NEW T, NEW s \in Seq(T), NEW k \in 1..Len(s)
  PROVE  /\ Before(s, k) \in Seq(T) /\ After(s, k) \in Seq(T)
         /\ Len(Before(s, k)) = k - 1 /\ Len(After(s, k)) = Len(s) - k
         /\ \A i \in 1..k - 1 : Before(s, k)[i] = s[i]
         /\ \A i \in 1..Len(s) - k : After(s, k)[i] = s[k + i]
         /\ s = Joined(Before(s, k), s[k], After(s, k))
<1>1. Len(s) \in Nat /\ \A i \in 1..Len(s) : s[i] \in T
  OBVIOUS
<1>2. /\ Before(s, k) \in Seq(T) /\ Len(Before(s, k)) = k - 1
      /\ \A i \in 1..k - 1 : Before(s, k)[i] = s[i]
  BY <1>1, SubSeqProperties DEF Before
<1>3. /\ After(s, k) \in Seq(T) /\ Len(After(s, k)) = Len(s) - k
      /\ \A i \in 1..Len(s) - k : After(s, k)[i] = s[k + i]
  BY <1>1, SubSeqProperties DEF After
<1>4. s = Joined(Before(s, k), s[k], After(s, k))
  <2> DEFINE t == Joined(Before(s, k), s[k], After(s, k))
  <2>1. /\ t \in Seq(T) /\ Len(t) = Len(s) /\ t[k] = s[k]
        /\ \A i \in 1..k - 1 : t[i] = s[i]
        /\ \A i \in 1..Len(s) - k : t[k + i] = s[k + i]
    <3> DEFINE u == Before(s, k)
               v == After(s, k)
    <3>1. u \in Seq(T) /\ v \in Seq(T) /\ s[k] \in T
      BY <1>1, <1>2, <1>3
    <3>2. Len(u) + 1 = k /\ Len(v) = Len(s) - k
      BY <1>1, <1>2, <1>3
    <3>3. /\ t \in Seq(T) /\ Len(t) = k + Len(v)
          /\ t[k] = s[k]
          /\ \A i \in 1..Len(u) : t[i] = u[i]
          /\ \A i \in 1..Len(v) : t[k + i] = v[i]
      <4>1. t = Joined(u, s[k], v) /\ k = Len(u) + 1
        BY <3>2 DEF u, v
      <4> HIDE DEF t, u, v
      <4>2. HasParts(T, t, k, u, s[k], v)
        BY <3>1, <4>1, Join
      <4>3. QED BY <4>2 DEF HasParts
    <3>4. k + Len(v) = Len(s) /\ Len(u) = k - 1
      BY <1>1, <3>2
    <3>5. QED BY <1>2, <1>3, <3>2, <3>3, <3>4 DEF u, v
  <2> HIDE DEF t
  <2>2. ASSUME NEW i \in 1..Len(s) PROVE t[i] = s[i]
    <3>1. i <= k - 1 \/ i = k \/ (i - k \in 1..Len(s) - k /\ i = k + (i - k))
      BY <1>1
    <3>2. QED BY <2>1, <3>1
  <2>3. t = s
    BY <2>1, <2>2, SeqEqual
  <2>4. QED BY <2>3 DEF t
<1>5. QED BY <1>2, <1>3, <1>4

(* Find and RFind, without the choice in Min and Max.                      *)
LEMMA Found ==
  ASSUME NEW T, NEW s \in Seq(T), NEW token
  PROVE  /\ Find(token, s) # 0 <=> Occurs(token, s)
         /\ RFind(token, s) # 0 <=> Occurs(token, s)
         /\ Occurs(token, s) =>
              /\ Find(token, s) \in 1..Len(s) /\ s[Find(token, s)] = token
              /\ \A i \in 1..Len(s) : s[i] = token => Find(token, s) <= i
              /\ RFind(token, s) \in 1..Len(s) /\ s[RFind(token, s)] = token
              /\ \A i \in 1..Len(s) : s[i] = token => i <= RFind(token, s)
<1> DEFINE P == Places(token, s)
<1>1. /\ Len(s) \in Nat /\ DOMAIN s = 1..Len(s)
      /\ P \subseteq Nat /\ (Occurs(token, s) <=> P # {})
      /\ \A i : i \in P <=> i \in 1..Len(s) /\ s[i] = token
      /\ \A i \in P : i <= Len(s)
  BY DEF Places, Occurs
<1>2. P # {} => Min(P) \in P /\ \A i \in P : Min(P) <= i
  <2> HIDE DEF P
  <2> QED BY <1>1, Least
<1>3. P # {} => Max(P) \in P /\ \A i \in P : i <= Max(P)
  <2> HIDE DEF P
  <2> QED BY <1>1, Greatest
<1>4. /\ Find(token, s) = IF P # {} THEN Min(P) ELSE 0
      /\ RFind(token, s) = IF P # {} THEN Max(P) ELSE 0
  BY <1>1 DEF Find, RFind
<1> HIDE DEF P
<1>5. QED BY <1>1, <1>2, <1>3, <1>4

(* Every token of a text with parts is one of theirs.                      *)
LEMMA OccursInParts ==
  ASSUME NEW T, NEW s, NEW k, NEW u \in Seq(T), NEW sep, NEW v \in Seq(T),
         HasParts(T, s, k, u, sep, v), NEW token
  PROVE  Occurs(token, s) <=> Occurs(token, u) \/ token = sep \/ Occurs(token, v)
<1>1. /\ Len(u) \in Nat /\ Len(v) \in Nat /\ DOMAIN u = 1..Len(u) /\ DOMAIN v = 1..Len(v)
      /\ DOMAIN s = 1..Len(s)
      /\ k = Len(u) + 1 /\ Len(s) = k + Len(v) /\ s[k] = sep
      /\ \A i \in 1..Len(u) : s[i] = u[i]
      /\ \A i \in 1..Len(v) : s[k + i] = v[i]
  BY DEF HasParts
<1>2. ASSUME NEW i \in 1..Len(s), s[i] = token
      PROVE  Occurs(token, u) \/ token = sep \/ Occurs(token, v)
  <2>1. CASE i <= Len(u)
    BY <1>1, <1>2, <2>1 DEF Occurs
  <2>2. CASE i = k
    BY <1>1, <1>2, <2>2
  <2>3. CASE i > k
    <3>1. i - k \in 1..Len(v) /\ k + (i - k) = i
      BY <1>1, <2>3
    <3>2. v[i - k] = token
      BY <1>1, <1>2, <3>1
    <3>3. QED BY <1>1, <3>1, <3>2 DEF Occurs
  <2>4. QED BY <1>1, <2>1, <2>2, <2>3
<1>3. ASSUME NEW i \in 1..Len(u), u[i] = token PROVE Occurs(token, s)
  BY <1>1, <1>3 DEF Occurs
<1>4. k \in 1..Len(s)
  BY <1>1
<1>5. ASSUME NEW i \in 1..Len(v), v[i] = token PROVE Occurs(token, s)
  <2>1. k + i \in 1..Len(s) /\ s[k + i] = token
    BY <1>1, <1>5
  <2>2. QED BY <1>1, <2>1 DEF Occurs
<1>6. QED BY <1>1, <1>2, <1>3, <1>4, <1>5 DEF Occurs

(* A separator that the left part does not have is found where it joins    *)
(* the two, and so from behind when the right part does not have it.       *)
LEMMA FoundInParts ==
  ASSUME NEW T, NEW s, NEW k, NEW u \in Seq(T), NEW sep, NEW v \in Seq(T),
         HasParts(T, s, k, u, sep, v)
  PROVE  /\ ~Occurs(sep, u) => Find(sep, s) = k
         /\ ~Occurs(sep, v) => RFind(sep, s) = k
         /\ k # 0
<1>1. /\ Len(u) \in Nat /\ Len(v) \in Nat /\ DOMAIN u = 1..Len(u) /\ DOMAIN v = 1..Len(v)
      /\ s \in Seq(T)
      /\ k = Len(u) + 1 /\ Len(s) = k + Len(v) /\ s[k] = sep
      /\ \A i \in 1..Len(u) : s[i] = u[i]
      /\ \A i \in 1..Len(v) : s[k + i] = v[i]
  BY DEF HasParts
<1>2. k \in 1..Len(s) /\ Occurs(sep, s)
  BY <1>1, OccursInParts
<1>3. ASSUME ~Occurs(sep, u) PROVE Find(sep, s) = k
  <2>1. Find(sep, s) \in 1..Len(s) /\ s[Find(sep, s)] = sep /\ Find(sep, s) <= k
    BY <1>1, <1>2, Found
  <2>2. ~(Find(sep, s) <= Len(u))
    BY <1>1, <1>3, <2>1 DEF Occurs
  <2>3. QED BY <1>1, <2>1, <2>2
<1>4. ASSUME ~Occurs(sep, v) PROVE RFind(sep, s) = k
  <2> DEFINE r == RFind(sep, s)
  <2>1. r \in 1..Len(s) /\ s[r] = sep /\ k <= r
    BY <1>1, <1>2, Found
  <2> HIDE DEF r
  <2>2. ASSUME r > k PROVE FALSE
    <3>1. r - k \in 1..Len(v) /\ k + (r - k) = r
      BY <1>1, <2>1, <2>2
    <3>2. v[r - k] = sep
      BY <1>1, <2>1, <3>1
    <3>3. QED BY <1>1, <1>4, <3>1, <3>2 DEF Occurs
  <2>3. r = k
    BY <1>1, <2>1, <2>2
  <2>4. QED BY <2>3 DEF r
<1>5. QED BY <1>1, <1>3, <1>4

(* A name with a tag is taken apart into the two.                          *)
LEMMA SplitTagged ==
  ASSUME NEW T, ":" \in T, NEW name \in Seq(T), NEW tag \in Seq(T),
         ~Occurs("@", name), ~Occurs("@", tag), ~Occurs(":", tag), ~Occurs("/", tag),
         NEW s, s = Joined(name, ":", tag)
  PROVE  Split(s) = [name |-> name, reference |-> tag] /\ ~Occurs("@", s) /\ s # <<>>
<1> DEFINE k == Len(name) + 1
<1>1. HasParts(T, s, k, name, ":", tag)
  BY Join
<1> HIDE DEF k
<1>2. s \in Seq(T) /\ s # <<>> /\ Before(s, k) = name /\ After(s, k) = tag
  BY <1>1 DEF HasParts
<1>3. ~Occurs("@", s)
  BY <1>1, OccursInParts
<1>4. Find("@", s) = 0
  BY <1>2, <1>3, Found
<1>5. RFind(":", s) = k /\ k # 0
  BY <1>1, FoundInParts
<1>6. QED BY <1>2, <1>3, <1>4, <1>5 DEF Split

(* A name with a digest is taken apart at the `@', whatever colons the     *)
(* name and the digest have.                                               *)
LEMMA SplitDigest ==
  ASSUME NEW T, "@" \in T, NEW name \in Seq(T), NEW digest \in Seq(T), ~Occurs("@", name),
         NEW s, s = Joined(name, "@", digest)
  PROVE  Split(s) = [name |-> name, reference |-> digest] /\ s # <<>>
<1> DEFINE k == Len(name) + 1
<1>1. HasParts(T, s, k, name, "@", digest)
  BY Join
<1> HIDE DEF k
<1>2. s # <<>> /\ Before(s, k) = name /\ After(s, k) = digest
  BY <1>1 DEF HasParts
<1>3. Find("@", s) = k /\ k # 0
  BY <1>1, FoundInParts
<1>4. QED BY <1>2, <1>3 DEF Split

(* A name that begins with a registry is located there, any other that has *)
(* a slash is located at Docker Hub.                                       *)
LEMMA LocateSlashed ==
  ASSUME NEW T, "/" \in T, NEW first \in Seq(T), NEW rest \in Seq(T), ~Occurs("/", first),
         NEW s, s = Joined(first, "/", rest)
  PROVE  /\ IsRegistry(first) => Locate(s) = [registry |-> first, repository |-> rest]
         /\ ~IsRegistry(first) => Locate(s) = [registry |-> DEFAULT_REGISTRY, repository |-> s]
<1> DEFINE k == Len(first) + 1
<1>1. HasParts(T, s, k, first, "/", rest)
  BY Join
<1> HIDE DEF k
<1>2. Before(s, k) = first /\ After(s, k) = rest
  BY <1>1 DEF HasParts
<1>3. Find("/", s) = k /\ k # 0
  BY <1>1, FoundInParts
<1>4. QED BY <1>2, <1>3 DEF Locate

-----------------------------------------------------------------------------
(***************************************************************************)
(* Display.  What parse finds in a text without a digest: a tag that       *)
(* Display can put behind a colon, and a place that Locate finds again in  *)
(* what Display writes before it.                                          *)
(***************************************************************************)
Tokens == Words \cup Separators \cup {"latest", "v1", "5000", "abcd"}

LEMMA TagFound ==
  ASSUME NEW s \in Seq(Tokens), ~Occurs("@", s)
  PROVE  LET name == Split(s).name  tag == Split(s).reference IN
         /\ name \in Seq(Tokens) /\ tag \in Seq(Tokens)
         /\ ~Occurs("@", name) /\ ~Occurs("@", tag) /\ ~Occurs(":", tag) /\ ~Occurs("/", tag)
         /\ name # <<>> => name[1] = s[1]
<1> DEFINE k == RFind(":", s)
           tagged == k # 0 /\ ~Occurs("/", After(s, k))
<1>1. Find("@", s) = 0
  BY Found
<1>2. CASE tagged
  <2>1. k \in 1..Len(s) /\ \A i \in 1..Len(s) : s[i] = ":" => i <= k
    BY <1>2, Found
  <2>2. Split(s) = [name |-> Before(s, k), reference |-> After(s, k)]
    BY <1>1, <1>2 DEF Split
  <2> HIDE DEF k
  <2> DEFINE u == Before(s, k)
             v == After(s, k)
  <2>3. /\ u \in Seq(Tokens) /\ v \in Seq(Tokens) /\ Len(s) \in Nat
        /\ Len(u) = k - 1 /\ Len(v) = Len(s) - k
        /\ \A i \in 1..k - 1 : u[i] = s[i]
        /\ \A i \in 1..Len(s) - k : v[i] = s[k + i]
    BY <2>1, Parted
  <2> HIDE DEF u, v
  <2>4. ASSUME NEW i \in DOMAIN u PROVE i \in 1..k - 1 /\ i \in 1..Len(s)
    BY <2>1, <2>3
  <2>5. ASSUME NEW i \in DOMAIN v
        PROVE  i \in 1..Len(s) - k /\ k + i \in 1..Len(s) /\ ~(k + i <= k)
    BY <2>1, <2>3
  <2>6. ~Occurs("@", u)
    BY <2>3, <2>4 DEF Occurs
  <2>7. ~Occurs("@", v)
    BY <2>3, <2>5 DEF Occurs
  <2>8. ~Occurs(":", v)
    BY <2>1, <2>3, <2>5 DEF Occurs
  <2>9. u # <<>> => u[1] = s[1]
    BY <2>1, <2>3
  <2>10. ~Occurs("/", v)
    BY <1>2 DEF v, k
  <2>11. QED BY <2>2, <2>3, <2>6, <2>7, <2>8, <2>9, <2>10 DEF u, v
<1>3. CASE ~tagged
  <2>1. Split(s) = [name |-> s, reference |-> DEFAULT_TAG]
    BY <1>1, <1>3 DEF Split
  <2>2. DEFAULT_TAG \in Seq(Tokens) /\ \A x \in {"@", ":", "/"} : ~Occurs(x, DEFAULT_TAG)
    BY DEF DEFAULT_TAG, Tokens, Occurs
  <2>3. QED BY <2>1, <2>2
<1>4. QED BY <1>2, <1>3

LEMMA PlaceFound ==
  ASSUME NEW name \in Seq(Tokens), ~Occurs("@", name)
  PROVE  LET r == Locate(name) IN
         /\ r.registry \in Seq(Tokens) /\ r.repository \in Seq(Tokens)
         /\ ~Occurs("@", r.registry) /\ ~Occurs("@", r.repository)
         /\ \/ r.registry = DEFAULT_REGISTRY /\ Locate(r.repository) = r
            \/ /\ r.registry = DEFAULT_REGISTRY
               /\ name # <<>> /\ name[1] = DEFAULT_REGISTRY[1]
            \/ /\ r.registry # DEFAULT_REGISTRY
               /\ Joined(r.registry, "/", r.repository) = name
<1> DEFINE k == Find("/", name)
           u == Before(name, k)
           v == After(name, k)
<1>1. "/" \in Tokens /\ DEFAULT_REGISTRY \in Seq(Tokens) /\ ~Occurs("@", DEFAULT_REGISTRY)
  BY DEF Tokens, Words, Dotted, Separators, DEFAULT_REGISTRY, Occurs
<1>2. CASE k = 0
  <2>1. Locate(name) = [registry |-> DEFAULT_REGISTRY, repository |-> <<"library", "/">> \o name]
    BY <1>2 DEF Locate
  <2> DEFINE l == <<"library">>
  <2>2. l \in Seq(Tokens) /\ ~Occurs("/", l) /\ ~Occurs("@", l) /\ ~IsRegistry(l)
    BY DEF Tokens, Words, Dotted, Separators, Occurs, IsRegistry
  <2>3. <<"library", "/">> \o name = Joined(l, "/", name)
    BY DEF Joined
  <2>4. HasParts(Tokens, Joined(l, "/", name), Len(l) + 1, l, "/", name)
    BY <1>1, <2>2, Join
  <2>5. Locate(Joined(l, "/", name))
          = [registry |-> DEFAULT_REGISTRY, repository |-> Joined(l, "/", name)]
    BY <1>1, <2>2, LocateSlashed
  <2> HIDE DEF l
  <2>6. Joined(l, "/", name) \in Seq(Tokens) /\ ~Occurs("@", Joined(l, "/", name))
    BY <2>2, <2>4, OccursInParts DEF HasParts
  <2> DEFINE j == Joined(l, "/", name)
  <2>7. Locate(name) = [registry |-> DEFAULT_REGISTRY, repository |-> j] /\ Locate(j) = Locate(name)
    BY <2>1, <2>3, <2>5
  <2>8. j \in Seq(Tokens) /\ ~Occurs("@", j)
    BY <2>6
  <2> HIDE DEF j
  <2>9. Locate(name).registry = DEFAULT_REGISTRY /\ Locate(name).repository = j
    BY <2>7
  <2>10. QED BY <1>1, <2>7, <2>8, <2>9
<1>3. CASE k # 0
  <2>1. k \in 1..Len(name) /\ name[k] = "/" /\ \A i \in 1..Len(name) : name[i] = "/" => k <= i
    BY <1>3, Found
  <2> HIDE DEF k
  <2>2. /\ u \in Seq(Tokens) /\ v \in Seq(Tokens) /\ Len(name) \in Nat
        /\ Len(u) = k - 1 /\ \A i \in 1..k - 1 : u[i] = name[i]
        /\ name = Joined(u, "/", v)
    <3>1. name = Joined(u, name[k], v)
      BY <2>1, Parted
    <3>2. name[k] = "/"
      BY <2>1
    <3>3. name = Joined(u, "/", v)
      BY <3>1, <3>2
    <3>4. u \in Seq(Tokens) /\ v \in Seq(Tokens) /\ Len(name) \in Nat
      BY <2>1, Parted
    <3>5. Len(u) = k - 1 /\ \A i \in 1..k - 1 : u[i] = name[i]
      BY <2>1, Parted
    <3>6. QED BY <3>3, <3>4, <3>5
  <2> HIDE DEF u, v
  <2>3. HasParts(Tokens, name, Len(u) + 1, u, "/", v)
    BY <1>1, <2>2, Join
  <2>4. ~Occurs("@", u) /\ ~Occurs("@", v)
    BY <2>2, <2>3, OccursInParts
  <2>5. CASE IsRegistry(u)
    <3>1. Locate(name) = [registry |-> u, repository |-> v]
      BY <1>3, <2>5 DEF Locate, u, v, k
    <3>2. u = DEFAULT_REGISTRY => name # <<>> /\ name[1] = DEFAULT_REGISTRY[1]
      BY <2>1, <2>2 DEF DEFAULT_REGISTRY
    <3>3. QED BY <2>2, <2>4, <3>1, <3>2
  <2>6. CASE ~IsRegistry(u)
    <3>1. Locate(name) = [registry |-> DEFAULT_REGISTRY, repository |-> name]
      BY <1>3, <2>6 DEF Locate, u, k
    <3>2. QED BY <1>1, <3>1
  <2>7. QED BY <2>5, <2>6
<1>4. QED BY <1>2, <1>3

LEMMA DisplayOf ==
  ASSUME NEW s \in Seq(Tokens), parse(s) # Invalid, ~is_digest(parse(s)),
         s[1] # DEFAULT_REGISTRY[1]
  PROVE  parse(Display(parse(s))) = parse(s)
<1> DEFINE parts == Split(s)
           place == Locate(parts.name)
           tag == parts.reference
           r == parse(s)
<1>1. /\ ~(Occurs("@", s) /\ ~IsSha256(tag)) /\ place.repository # <<>>
      /\ r = [registry |-> place.registry, repository |-> place.repository, reference |-> tag]
  BY DEF parse
<1>2. ~Occurs("@", s)
  BY <1>1 DEF is_digest
<1>3. /\ parts.name \in Seq(Tokens) /\ tag \in Seq(Tokens)
      /\ ~Occurs("@", parts.name) /\ ~Occurs("@", tag) /\ ~Occurs(":", tag) /\ ~Occurs("/", tag)
      /\ parts.name # <<>> => parts.name[1] = s[1]
  BY <1>2, TagFound
<1> DEFINE written == IF r.registry = DEFAULT_REGISTRY THEN r.repository
                      ELSE Joined(r.registry, "/", r.repository)
<1>4. Display(r) = Joined(written, ":", tag)
  <2>1. r.reference = tag
    BY <1>1
  <2> HIDE DEF r, tag
  <2>2. Display(r) = Joined(written, ":", r.reference)
    BY DEF Display, Joined
  <2>3. QED BY <2>1, <2>2
<1>5. written \in Seq(Tokens) /\ ~Occurs("@", written) /\ Locate(written) = place
  <2> HIDE DEF parts
  <2> DEFINE name == parts.name
  <2>1. /\ place.registry \in Seq(Tokens) /\ place.repository \in Seq(Tokens)
        /\ ~Occurs("@", place.registry) /\ ~Occurs("@", place.repository)
        /\ \/ place.registry = DEFAULT_REGISTRY /\ Locate(place.repository) = place
           \/ /\ place.registry = DEFAULT_REGISTRY
              /\ name # <<>> /\ name[1] = DEFAULT_REGISTRY[1]
           \/ /\ place.registry # DEFAULT_REGISTRY
              /\ Joined(place.registry, "/", place.repository) = name
    BY <1>3, PlaceFound
  <2> HIDE DEF place
  <2>2. CASE place.registry = DEFAULT_REGISTRY
    BY <1>1, <1>3, <2>1, <2>2
  <2>3. CASE place.registry # DEFAULT_REGISTRY
    BY <1>1, <1>3, <2>1, <2>3 DEF place
  <2>4. QED BY <2>2, <2>3
<1> HIDE DEF written, parts, place, r
<1>6. ":" \in Tokens
  BY DEF Tokens, Separators
<1>7. /\ Split(Display(r)) = [name |-> written, reference |-> tag]
      /\ ~Occurs("@", Display(r)) /\ Display(r) # <<>>
  BY <1>3, <1>4, <1>5, <1>6, SplitTagged
<1>8. parse(Display(r)) = r
  BY <1>1, <1>5, <1>7 DEF parse
<1>9. QED BY <1>8 DEF r

(***************************************************************************)
(* For a text of any length, what Display writes of a tagged reference is  *)
(* parsed as the same one.                                                 *)
(***************************************************************************)
THEOREM DisplayRoundTrip == Spec => []DisplayParses
<1> DEFINE Known == input.of = "parse" => input.text \in Seq(Words \cup Separators)
<1>1. Init => Known
  <2>1. Init /\ input.of = "parse" => input.text = <<>>
    BY DEF Init
  <2>2. <<>> \in Seq(Words \cup Separators)
    OBVIOUS
  <2>3. QED BY <2>1, <2>2
<1>2. Known /\ [Next]_input => Known'
  <2> SUFFICES ASSUME Known, [Next]_input PROVE Known'
    OBVIOUS
  <2>1. ASSUME NEW token \in Words \cup Separators, Type(token) PROVE Known'
    BY <2>1 DEF Type
  <2>2. CASE UNCHANGED input
    BY <2>2
  <2>3. QED BY <2>1, <2>2 DEF Next
<1>3. Known => DisplayParses
  <2>1. Seq(Words \cup Separators) \subseteq Seq(Tokens)
    BY SeqMonotonic DEF Tokens
  <2>2. QED BY <2>1, DisplayOf DEF DisplayParses
<1>4. QED BY <1>1, <1>2, <1>3, PTL DEF Spec

-----------------------------------------------------------------------------
(***************************************************************************)
(* References as they are written.  The words of a path have slashes       *)
(* between them and no other separator.                                    *)
(***************************************************************************)
LEMMA SlashedPath ==
  ASSUME NEW path \in Seq(PathWords), path # <<>>
  PROVE  LET s == Slashed(path) IN
         /\ s \in Seq(Tokens) /\ s # <<>> /\ ~Occurs("@", s) /\ ~Occurs(":", s)
         /\ Len(path) = 1 => s = path /\ ~Occurs("/", s)
         /\ Len(path) # 1 => \E rest \in Seq(Tokens) : s = Joined(<<path[1]>>, "/", rest)
<1> DEFINE s == Slashed(path)
           n == 2 * Len(path) - 1
<1>1. Len(path) \in Nat /\ Len(path) > 0 /\ n \in Nat /\ n >= 1
  BY EmptySeq
<1>2. PathWords \cup {"/"} \subseteq Tokens /\ "@" \notin PathWords /\ ":" \notin PathWords
      /\ "/" \notin PathWords
  BY DEF PathWords, Tokens, Words, Dotted, Separators
<1>3. \A i \in 1..n : i % 2 = 1 => (i + 1) \div 2 \in 1..Len(path)
  BY <1>1, SMT
<1>4. \A i \in 1..n : (IF i % 2 = 1 THEN path[(i + 1) \div 2] ELSE "/") \in PathWords \cup {"/"}
  BY <1>1, <1>3
<1>5. s \in [1..n -> PathWords \cup {"/"}]
  BY <1>4 DEF Slashed
<1>6. s \in Seq(Tokens) /\ Len(s) = n /\ DOMAIN s = 1..n
  BY <1>1, <1>2, <1>5
<1>7. s # <<>> /\ ~Occurs("@", s) /\ ~Occurs(":", s)
  BY <1>1, <1>2, <1>5, <1>6 DEF Occurs
<1>8. ASSUME Len(path) = 1 PROVE s = path /\ ~Occurs("/", s)
  <2>1. n = 1 /\ s[1] = path[1] /\ path[1] \in PathWords
    BY <1>8 DEF Slashed
  <2>2. s = path
    <3>1. path \in Seq(Tokens)
      BY <1>2, SeqMonotonic
    <3>2. QED BY <1>6, <1>8, <2>1, <3>1, SeqEqual
  <2>3. QED BY <1>2, <1>6, <2>1, <2>2 DEF Occurs
<1>9. ASSUME Len(path) # 1 PROVE \E rest \in Seq(Tokens) : s = Joined(<<path[1]>>, "/", rest)
  <2>1. n >= 3 /\ s[1] = path[1] /\ s[2] = "/" /\ 2 \in 1..Len(s)
    <3>1. n >= 3 /\ 1 \in 1..n /\ 2 \in 1..n
      <4>1. \A l \in Nat : l > 0 /\ l # 1 =>
               2 * l - 1 >= 3 /\ 1 \in 1..2 * l - 1 /\ 2 \in 1..2 * l - 1
        BY SMT
      <4>2. QED BY <1>1, <1>9, <4>1
    <3>2. 1 % 2 = 1 /\ (1 + 1) \div 2 = 1 /\ 2 % 2 = 0
      BY SMT
    <3>3. s[1] = path[1] /\ s[2] = "/"
      BY <3>1, <3>2 DEF Slashed
    <3>4. QED BY <1>6, <3>1, <3>3
  <2> HIDE DEF s
  <2> DEFINE u == Before(s, 2)
  <2>2. u \in Seq(Tokens) /\ Len(u) = 1 /\ u[1] = s[1]
    <3>1. u \in Seq(Tokens) /\ Len(u) = 2 - 1 /\ \A i \in 1..2 - 1 : u[i] = s[i]
      BY <1>6, <2>1, Parted
    <3>2. QED BY <3>1
  <2>3. u = <<path[1]>>
    <3>1. <<path[1]>> \in Seq(Tokens)
      BY <1>1, <1>2
    <3>2. QED BY <2>1, <2>2, <3>1, SeqEqual
  <2>4. After(s, 2) \in Seq(Tokens) /\ s = Joined(u, s[2], After(s, 2))
    BY <1>6, <2>1, Parted
  <2>5. QED BY <2>1, <2>3, <2>4
<1>10. QED BY <1>6, <1>7, <1>8, <1>9

(* What the host of a registry looks like.                                 *)
LEMMA RegistryLooks ==
  ASSUME NEW r \in Registries, r # <<>>
  PROVE  r \in Seq(Tokens) /\ IsRegistry(r) /\ ~Occurs("/", r) /\ ~Occurs("@", r)
<1> USE DEF Tokens, Words, Dotted, Separators, Occurs, IsRegistry
<1>1. CASE r = <<"ghcr.io">>
  BY <1>1
<1>2. CASE r = <<"localhost">>
  BY <1>2
<1>3. CASE r = <<"registry-1.docker.io">>
  BY <1>3
<1>4. ASSUME NEW host \in {"localhost", "repo"}, r = <<host, ":", "5000">>
      PROVE  r \in Seq(Tokens) /\ IsRegistry(r) /\ ~Occurs("/", r) /\ ~Occurs("@", r)
  <2>1. r \in Seq(Tokens) /\ DOMAIN r = 1..3 /\ r[1] = host /\ r[2] = ":" /\ r[3] = "5000"
    BY <1>4
  <2>2. \A i \in 1..3 : r[i] # "/" /\ r[i] # "@"
    BY <2>1
  <2>3. Occurs(":", r)
    BY <2>1
  <2>4. QED BY <2>1, <2>2, <2>3
<1>5. QED BY <1>1, <1>2, <1>3, <1>4 DEF Registries, DEFAULT_REGISTRY

(* The colon of a port is no tag: a slash follows it.                      *)
LEMMA SplitUntagged ==
  ASSUME NEW s \in Seq(Tokens), ~Occurs("@", s),
         \/ ~Occurs(":", s)
         \/ \E u, v \in Seq(Tokens) : s = Joined(u, "/", v) /\ ~Occurs(":", v)
  PROVE  Split(s) = [name |-> s, reference |-> DEFAULT_TAG]
<1> DEFINE c == RFind(":", s)
<1>1. Find("@", s) = 0
  BY Found
<1>2. ASSUME Occurs(":", s) PROVE Occurs("/", After(s, c))
  <2>1. PICK u \in Seq(Tokens), v \in Seq(Tokens) : s = Joined(u, "/", v) /\ ~Occurs(":", v)
    BY <1>2
  <2> DEFINE k == Len(u) + 1
  <2>2. HasParts(Tokens, s, k, u, "/", v)
    BY <2>1, Join DEF Tokens, Separators
  <2>3. c \in 1..Len(s) /\ s[c] = ":"
    BY <1>2, Found
  <2> HIDE DEF c, k
  <2>4. /\ Len(s) = k + Len(v) /\ s[k] = "/" /\ Len(v) \in Nat /\ DOMAIN v = 1..Len(v)
        /\ k = Len(u) + 1 /\ Len(u) \in Nat
        /\ \A i \in 1..Len(v) : s[k + i] = v[i]
    BY <2>2 DEF HasParts
  <2>5. ASSUME c > k PROVE FALSE
    <3>1. c - k \in 1..Len(v) /\ k + (c - k) = c
      BY <2>3, <2>4, <2>5
    <3>2. v[c - k] = ":"
      BY <2>3, <2>4, <3>1
    <3>3. QED BY <2>1, <2>4, <3>1, <3>2 DEF Occurs
  <2>6. k - c \in 1..Len(s) - c /\ c + (k - c) = k
    BY <2>3, <2>4, <2>5
  <2>7. /\ After(s, c) \in Seq(Tokens) /\ Len(After(s, c)) = Len(s) - c
        /\ \A i \in 1..Len(s) - c : After(s, c)[i] = s[c + i]
    BY <2>3, Parted
  <2>8. After(s, c)[k - c] = "/" /\ k - c \in DOMAIN After(s, c)
    BY <2>4, <2>6, <2>7
  <2>9. QED BY <2>8 DEF Occurs
<1>3. ~Occurs(":", s) => c = 0
  BY Found
<1> HIDE DEF c
<1>4. ~(c # 0 /\ ~Occurs("/", After(s, c)))
  BY <1>2, <1>3
<1>5. QED BY <1>1, <1>4 DEF Split, c

(***************************************************************************)
(* A reference as it is written is parsed as it is meant.                  *)
(***************************************************************************)
LEMMA WrittenParses ==
  ASSUME NEW w, w.registry \in Registries, w.path \in Seq(PathWords), w.path # <<>>,
         w.reference \in References
  PROVE  parse(Written(w)) = Meant(w)
<1> DEFINE path == Slashed(w.path)
           name == IF w.registry = <<>> THEN path ELSE Joined(w.registry, "/", path)
           reference == IF w.reference = <<>> THEN DEFAULT_TAG ELSE w.reference
           s == Written(w)
<1>1. {"/", ":"} \subseteq Tokens
  BY DEF Tokens, Separators
<1>2. /\ path \in Seq(Tokens) /\ path # <<>> /\ ~Occurs("@", path) /\ ~Occurs(":", path)
      /\ Len(w.path) = 1 => path = w.path /\ ~Occurs("/", path)
      /\ Len(w.path) # 1 => \E rest \in Seq(Tokens) : path = Joined(<<w.path[1]>>, "/", rest)
  BY SlashedPath
<1>3. w.registry # <<>> =>
        /\ w.registry \in Seq(Tokens) /\ IsRegistry(w.registry)
        /\ ~Occurs("/", w.registry) /\ ~Occurs("@", w.registry)
  BY RegistryLooks
<1> HIDE DEF path
<1>4. name \in Seq(Tokens) /\ ~Occurs("@", name) /\ name # <<>>
  <2>1. CASE w.registry = <<>>
    BY <1>2, <2>1
  <2>2. CASE w.registry # <<>>
    <3>1. HasParts(Tokens, Joined(w.registry, "/", path), Len(w.registry) + 1, w.registry, "/", path)
      BY <1>1, <1>2, <1>3, <2>2, Join
    <3>2. ~Occurs("@", Joined(w.registry, "/", path))
      BY <1>2, <1>3, <2>2, <3>1, OccursInParts
    <3>3. QED BY <2>2, <3>1, <3>2 DEF HasParts
  <2>3. QED BY <2>1, <2>2
<1>5. /\ Split(s) = [name |-> name, reference |-> reference] /\ s # <<>>
      /\ Occurs("@", s) => IsSha256(reference)
  <2>1. (IF w.registry = <<>> THEN <<>> ELSE w.registry \o <<"/">>) \o path = name
    BY <1>2, ConcatEmptySeq DEF Joined
  <2> HIDE DEF name
  <2> DEFINE ending == CASE w.reference = <<>> -> <<>>
                        [] IsSha256(w.reference) -> <<"@">> \o w.reference
                        [] OTHER -> <<":">> \o w.reference
  <2>2. s = name \o ending
    BY <2>1 DEF Written, path
  <2>3. CASE w.reference = <<>>
    <3>1. ending = <<>>
      BY <2>3 DEF IsSha256
    <3>2. s = name
      <4> HIDE DEF ending
      <4> QED BY <1>4, <2>2, <3>1, ConcatEmptySeq
    <3>3. \/ ~Occurs(":", name)
          \/ \E u, v \in Seq(Tokens) : name = Joined(u, "/", v) /\ ~Occurs(":", v)
      BY <1>2, <1>3 DEF name
    <3>4. QED BY <1>4, <2>3, <3>2, <3>3, SplitUntagged
  <2>4. CASE w.reference = <<"v1">>
    <3>1. <<"v1">> \in Seq(Tokens) /\ <<":">> \in Seq(Tokens)
          /\ \A x \in {"@", ":", "/"} : ~Occurs(x, <<"v1">>)
      BY DEF Tokens, Separators, Occurs
    <3>2. ending = <<":">> \o w.reference
      BY <2>4 DEF IsSha256
    <3> HIDE DEF ending
    <3>3. s = Joined(name, ":", w.reference)
      BY <1>4, <2>2, <2>4, <3>1, <3>2, ConcatAssociative DEF Joined
    <3>4. /\ w.reference \in Seq(Tokens) /\ ~Occurs("@", w.reference)
          /\ ~Occurs(":", w.reference) /\ ~Occurs("/", w.reference) /\ ":" \in Tokens
      BY <1>1, <2>4, <3>1
    <3> HIDE DEF s
    <3>5. Split(s) = [name |-> name, reference |-> w.reference] /\ ~Occurs("@", s) /\ s # <<>>
      BY <1>4, <3>3, <3>4, SplitTagged
    <3>6. QED BY <2>4, <3>5
  <2>5. CASE w.reference = <<"sha256", ":", "abcd">>
    <3> DEFINE digest == <<"sha256", ":", "abcd">>
    <3>1. digest \in Seq(Tokens) /\ <<"@">> \in Seq(Tokens) /\ "@" \in Tokens
      BY DEF Tokens, Words, Separators
    <3>2. IsSha256(digest) /\ digest # <<>>
      BY DEF IsSha256
    <3> HIDE DEF digest
    <3>3. w.reference = digest
      BY <2>5 DEF digest
    <3>4. ending = <<"@">> \o digest
      BY <3>2, <3>3
    <3> HIDE DEF ending
    <3>5. s = Joined(name, "@", digest)
      <4>1. name \o (<<"@">> \o digest) = (name \o <<"@">>) \o digest
        BY <1>4, <3>1, ConcatAssociative
      <4>2. QED BY <2>2, <3>4, <4>1 DEF Joined
    <3> HIDE DEF s
    <3>6. Split(s) = [name |-> name, reference |-> digest] /\ s # <<>>
      BY <1>4, <3>1, <3>5, SplitDigest
    <3>7. QED BY <3>2, <3>3, <3>6
  <2>6. QED BY <2>3, <2>4, <2>5 DEF References
<1>6. Locate(name) = [registry |-> Meant(w).registry, repository |-> Meant(w).repository]
      /\ Meant(w).repository # <<>>
  <2>1. CASE w.registry # <<>>
    <3>1. Locate(name) = [registry |-> w.registry, repository |-> path]
      BY <1>1, <1>2, <1>3, <2>1, LocateSlashed
    <3>2. QED BY <1>2, <2>1, <3>1 DEF Meant, path
  <2>2. CASE w.registry = <<>> /\ Len(w.path) = 1
    <3>1. Find("/", path) = 0
      BY <1>2, <2>2, Found
    <3>2. Locate(name) = [registry |-> DEFAULT_REGISTRY, repository |-> <<"library", "/">> \o w.path]
      BY <1>2, <2>2, <3>1 DEF Locate
    <3>3. <<"library", "/">> \o w.path # <<>>
      OBVIOUS
    <3>4. QED BY <2>2, <3>2, <3>3 DEF Meant
  <2>3. CASE w.registry = <<>> /\ Len(w.path) # 1
    <3>1. PICK rest \in Seq(Tokens) : path = Joined(<<w.path[1]>>, "/", rest)
      BY <1>2, <2>3
    <3> DEFINE first == <<w.path[1]>>
    <3>2. first \in Seq(Tokens) /\ ~Occurs("/", first) /\ ~IsRegistry(first)
      <4>1. w.path[1] \in {"repo", "library"}
        BY EmptySeq DEF PathWords
      <4>2. QED BY <4>1 DEF Tokens, Words, Dotted, Occurs, IsRegistry
    <3> HIDE DEF first
    <3>3. Locate(path) = [registry |-> DEFAULT_REGISTRY, repository |-> path]
      BY <1>1, <3>1, <3>2, LocateSlashed DEF first
    <3>4. QED BY <1>2, <2>3, <3>3 DEF Meant, path
  <2>4. QED BY <2>1, <2>2, <2>3
<1> HIDE DEF s, name
<1>7. reference = Meant(w).reference
  BY DEF Meant
<1>8. parse(s) = [registry |-> Meant(w).registry, repository |-> Meant(w).repository,
                  reference |-> Meant(w).reference]
  BY <1>5, <1>6, <1>7 DEF parse
<1>9. QED BY <1>8 DEF Meant, s

(***************************************************************************)
(* With a tag, with a digest or with neither, the colon of a port or of a  *)
(* digest is no tag, and a namespace is no registry: what is true of a     *)
(* path of any length (WrittenParses) is true of those of Init.            *)
(***************************************************************************)
THEOREM WrittenAsMeant == Spec => []ParsedAsMeant
<1> DEFINE Known == input.of = "written" =>
                      /\ input.registry \in Registries
                      /\ input.path \in Seq(PathWords) /\ input.path # <<>>
                      /\ input.reference \in References
<1>1. Init => Known
  <2> SUFFICES ASSUME Init, input.of = "written" PROVE Known
    OBVIOUS
  <2>1. PICK registry \in Registries, path \in BoundedSeq(PathWords, 3) \ {<<>>},
             reference \in References :
          input = [of |-> "written", registry |-> registry, path |-> path, reference |-> reference]
    BY DEF Init
  <2>2. path \in Seq(PathWords)
    <3>1. PICK m \in 0..3 : path \in [1..m -> PathWords]
      BY <2>1 DEF BoundedSeq, SeqOf
    <3>2. QED BY <3>1
  <2>3. QED BY <2>1, <2>2
<1>2. Known /\ [Next]_input => Known'
  <2> SUFFICES ASSUME Known, [Next]_input PROVE Known'
    OBVIOUS
  <2>1. ASSUME NEW token, Type(token) PROVE Known'
    BY <2>1, SMT DEF Type
  <2>2. CASE UNCHANGED input
    BY <2>2
  <2>3. QED BY <2>1, <2>2 DEF Next
<1>3. Known => ParsedAsMeant
  BY WrittenParses DEF ParsedAsMeant
<1>4. QED BY <1>1, <1>2, <1>3, PTL DEF Spec
===============================================================================
