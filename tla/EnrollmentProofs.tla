--------------------------- MODULE EnrollmentProofs ---------------------------
(***************************************************************************)
(* What holds of Enrollment for every audience, page and batch size, and   *)
(* every number of enrollments, cron runs, retries and deaths.             *)
(***************************************************************************)
EXTENDS Enrollment, FiniteSetTheorems, TLAPS

USE DEF Runs, timing

-----------------------------------------------------------------------------
(* Listings and pages.                                                     *)

\* A customer who is not listed can be put at the end.
LEMMA AppendListing ==
  ASSUME NEW s \in Listing, NEW c \in Customers, \A i \in DOMAIN s : s[i] # c
  PROVE  Append(s, c) \in Listing
<1>1. s \in Seq(Customers) /\ Append(s, c) \in Seq(Customers)
  BY DEF Listing
<1>2. /\ DOMAIN Append(s, c) = 1..(Len(s) + 1)
      /\ \A i \in 1..Len(s) : Append(s, c)[i] = s[i]
      /\ Append(s, c)[Len(s) + 1] = c
      /\ DOMAIN s = 1..Len(s) /\ Len(s) \in Nat
  BY <1>1
<1>3. ASSUME NEW i \in 1..(Len(s) + 1), NEW k \in 1..(Len(s) + 1),
             Append(s, c)[i] = Append(s, c)[k]
      PROVE  i = k
  BY <1>2, <1>3 DEF Listing
<1> QED BY <1>1, <1>2, <1>3 DEF Listing

\* Any entry of a listing can be taken out.
LEMMA WithoutListing ==
  ASSUME NEW s \in Listing, NEW k \in DOMAIN s
  PROVE  Without(s, k) \in Listing
<1>1. s \in Seq(Customers) /\ DOMAIN s = 1..Len(s) /\ Len(s) \in Nat
  BY DEF Listing
<1>2. k \in Nat /\ k >= 1 /\ k <= Len(s) /\ Len(s) - 1 \in Nat
  BY <1>1
<1>3. \A i \in 1..(Len(s) - 1) : Behind(i, k) \in 1..Len(s)
  BY <1>2 DEF Behind
<1>4. \A i \in 1..Len(s) : s[i] \in Customers
  BY <1>1
<1>5. Without(s, k) \in [1..(Len(s) - 1) -> Customers]
  BY <1>3, <1>4 DEF Without
<1>6. Without(s, k) \in Seq(Customers) /\ DOMAIN Without(s, k) = 1..(Len(s) - 1)
  BY <1>2, <1>5
<1>7. ASSUME NEW i \in 1..(Len(s) - 1), NEW l \in 1..(Len(s) - 1),
             Without(s, k)[i] = Without(s, k)[l]
      PROVE  i = l
  <2>1. s[Behind(i, k)] = s[Behind(l, k)]
    BY <1>7 DEF Without
  <2>2. Behind(i, k) = Behind(l, k)
    BY <1>1, <1>3, <2>1 DEF Listing
  <2> QED BY <1>2, <2>2 DEF Behind
<1> QED BY <1>6, <1>7 DEF Listing

\* A page is a set of customers.
LEMMA PageType ==
  ASSUME NEW s \in Listing, NEW skip, NEW limit
  PROVE  Page(s, skip, limit) \subseteq Customers
BY DEF Page, Listing

-----------------------------------------------------------------------------
(* Type correctness.                                                       *)

\* A handled job leaves START jobs behind.
LEMMA HandledType ==
  ASSUME TypeOK, NEW j \in starts, NEW published \in SUBSET StartJob,
         Handled(j, published)
  PROVE  starts' \subseteq StartJob /\ repeats' \in 0..MaxRepeats
<1>1. CASE UNCHANGED repeats /\ starts' = (starts \ {j}) \cup published
  BY <1>1 DEF TypeOK
<1>2. CASE /\ repeats < MaxRepeats
           /\ repeats' = repeats + 1
           /\ starts' = (starts \ {j})
                \cup {[j EXCEPT !.copy = repeats', !.at = "queued", !.found = {}]}
                \cup published
  <2>1. repeats' \in 0..MaxRepeats
    BY <1>2, EnrollmentAssumption DEF TypeOK
  <2>2. j \in StartJob
    BY DEF TypeOK
  <2>3. [j EXCEPT !.copy = repeats', !.at = "queued", !.found = {}] \in StartJob
    BY <2>1, <2>2 DEF StartJob
  <2> QED BY <1>2, <2>1, <2>3 DEF TypeOK
<1> QED BY <1>1, <1>2 DEF Handled

\* Waiting handlers are typed.
LEMMA WaitingType == Waiting \in Handler
BY EnrollmentAssumption DEF Waiting, Handler, Points, Listing

\* So are the steps of a cron run, which copies pages like an ENROLLMENT job.
LEMMA CronType ==
  ASSUME TypeOK, NEW k \in Crons,
         \/ CronCount(k) \/ CronSave(k) \/ CronCommit(k) \/ CronPublish(k)
         \/ CronFails(k)
  PROVE  TypeOK'
<1> USE EnrollmentAssumption, WaitingType
<1>1. CASE CronCount(k)
  <2>1. Len(audience) \in Nat /\ audience \in Listing
    BY DEF TypeOK, Listing
  <2>2. SizeOf(Len(audience)) \in Nat
    BY <2>1 DEF SizeOf
  <2>3. [Waiting EXCEPT !.point = "selected", !.listing = audience,
                        !.size = SizeOf(Len(audience))] \in Handler
    BY <2>1, <2>2 DEF Handler, Points
  <2> QED BY <1>1, <2>3 DEF CronCount, TypeOK
<1>2. CASE CronSave(k)
  <2>1. [enrollment[k] EXCEPT !.point = "counted"] \in Handler
    BY DEF TypeOK, Handler, Points
  <2> QED BY <1>2, <2>1 DEF CronSave, TypeOK
<1>3. CASE CronCommit(k)
  <2>1. [enrollment[k] EXCEPT !.point = "committed", !.copied = {}] \in Handler
    BY DEF TypeOK, Handler, Points
  <2>2. enrollment[k].copied \subseteq Customers
    BY DEF TypeOK, Handler
  <2> QED BY <1>3, <2>1, <2>2 DEF CronCommit, TypeOK
<1>4. CASE CronPublish(k)
  <2>1. [listing |-> << >>, skip |-> 0, limit |-> enrollment[k].size,
         copy |-> 0, found |-> {}, at |-> "queued"] \in StartJob
    BY DEF TypeOK, Handler, StartJob, Listing
  <2> QED BY <1>4, <2>1 DEF CronPublish, TypeOK
<1>5. CASE CronFails(k)
  BY <1>5 DEF CronFails, TypeOK
<1> QED BY <1>1, <1>2, <1>3, <1>4, <1>5

\* The type invariant is inductive.
LEMMA TypeStep == TypeOK /\ [Next]_vars => TypeOK'
<1> SUFFICES ASSUME TypeOK, [Next]_vars PROVE TypeOK'
  OBVIOUS
<1> USE EnrollmentAssumption
<1>1. CASE AudienceChanges
  <2>1. audience' \in Listing
    <3>1. CASE \E c \in Customers : ~InAudience(c) /\ audience' = Append(audience, c)
      BY <3>1, AppendListing DEF InAudience, TypeOK
    <3>2. CASE \E k \in DOMAIN audience : audience' = Without(audience, k)
      BY <3>2, WithoutListing DEF TypeOK
    <3> QED BY <1>1, <3>1, <3>2 DEF AudienceChanges
  <2>2. churn' \in 0..MaxChurn
    BY <1>1 DEF AudienceChanges, TypeOK
  <2> QED BY <1>1, <2>1, <2>2 DEF AudienceChanges, TypeOK
<1>2. ASSUME NEW e \in Enrollments, Count(e) PROVE TypeOK'
  <2>1. Len(audience) \in Nat /\ audience \in Listing
    BY DEF TypeOK, Listing
  <2>2. SizeOf(Len(audience)) \in Nat
    BY <2>1 DEF SizeOf
  <2>3. enrollment' \in [Runs -> Handler]
    <3>1. [enrollment[e] EXCEPT !.point = "counted", !.listing = audience,
             !.size = SizeOf(Len(audience)), !.batch = 0, !.copied = {}] \in Handler
      BY <2>1, <2>2 DEF TypeOK, Handler, Points
    <3> QED BY <1>2, <3>1 DEF Count, TypeOK
  <2> QED BY <1>2, <2>3 DEF Count, TypeOK
<1>3. ASSUME NEW e \in Runs, CopyPage(e) PROVE TypeOK'
  <2>1. PageOf(e) \subseteq Customers
    BY PageType DEF PageOf, Listed, TypeOK, Handler
  <2>2. WithPage(e) \in Handler
    <3>1. enrollment[e] \in Handler
      BY DEF TypeOK
    <3>2. /\ enrollment[e].batch + 1 \in Nat
          /\ enrollment[e].copied \cup PageOf(e) \in SUBSET Customers
      BY <2>1, <3>1 DEF Handler
    <3> QED BY <3>1, <3>2 DEF Handler, WithPage
  <2> QED BY <1>3, <2>2 DEF CopyPage, TypeOK
<1>4. ASSUME NEW e \in Enrollments, Commit(e) PROVE TypeOK'
  <2>1. [enrollment[e] EXCEPT !.point = "committed"] \in Handler
    BY DEF TypeOK, Handler, Points
  <2>2. rows' \subseteq Customers
    BY <1>4 DEF Commit, TypeOK, Handler
  <2>3. enrollmentCount' \in {0, 1}
    BY <1>4 DEF Commit, CountedAtStart, TypeOK
  <2> QED BY <1>4, <2>1, <2>2, <2>3 DEF Commit, TypeOK
<1>5. ASSUME NEW e \in Enrollments, PublishStart(e) PROVE TypeOK'
  <2>1. [listing |-> enrollment[e].listing, skip |-> 0,
         limit |-> enrollment[e].size, copy |-> 0, found |-> {},
         at |-> "queued"] \in StartJob
    BY DEF TypeOK, Handler, StartJob
  <2>2. [enrollment[e] EXCEPT !.point = "published"] \in Handler
    BY DEF TypeOK, Handler, Points
  <2> QED BY <1>5, <2>1, <2>2 DEF PublishStart, TypeOK
<1>6. ASSUME NEW e \in Enrollments, Acknowledge(e) PROVE TypeOK'
  <2>1. [enrollment[e] EXCEPT !.point = "done"] \in Handler
    BY DEF TypeOK, Handler, Points
  <2> QED BY <1>6, <2>1 DEF Acknowledge, TypeOK
<1>7. ASSUME NEW e \in Enrollments, Throws(e) PROVE TypeOK'
  <2>1. Orphans(e) \subseteq Customers
    BY DEF Orphans, TypeOK, Handler
  <2>2. Retried(e) \in Handler
    <3>1. enrollment[e] \in Handler
      BY DEF TypeOK
    <3>2. (IF RetriesLeft(e) THEN enrollment[e].attempts + 1
                             ELSE enrollment[e].attempts) \in 0..MaxRetries
      BY <3>1 DEF RetriesLeft, Handler
    <3>3. (IF RetriesLeft(e) THEN "queued" ELSE "failed") \in Points
      BY DEF Points
    <3> QED BY <3>1, <3>2, <3>3 DEF Handler, Retried
  <2> QED BY <1>7, <2>1, <2>2 DEF Throws, TypeOK
<1>8. ASSUME NEW e \in Enrollments, Dies(e) PROVE TypeOK'
  <2>1. Orphans(e) \subseteq Customers
    BY DEF Orphans, TypeOK, Handler
  <2>2. [enrollment[e] EXCEPT !.point = "queued", !.copied = {}] \in Handler
    BY DEF TypeOK, Handler, Points
  <2> QED BY <1>8, <2>1, <2>2 DEF Dies, TypeOK
<1>9. ASSUME NEW j \in starts, Split(j) PROVE TypeOK'
  <2>1. {FirstHalf(j), SecondHalf(j)} \subseteq StartJob
    <3>1. j \in StartJob
      BY DEF TypeOK
    <3>2. j.limit \div 2 \in Nat /\ (j.limit + 1) \div 2 \in Nat /\ j.skip + j.limit \div 2 \in Nat
      BY <3>1 DEF StartJob
    <3> QED BY <3>1, <3>2 DEF StartJob, FirstHalf, SecondHalf
  <2>2. starts' \subseteq StartJob /\ repeats' \in 0..MaxRepeats
    BY <1>9, <2>1, HandledType DEF Split
  <2> QED BY <1>9, <2>2 DEF Split, TypeOK
<1>10. ASSUME NEW j \in starts, Find(j) PROVE TypeOK'
  <2>1. Page(Listed(j.listing), j.skip, j.limit) \subseteq Customers
    BY PageType DEF Listed, TypeOK, StartJob
  <2>2. [j EXCEPT !.at = "found",
                  !.found = Page(Listed(j.listing), j.skip, j.limit)] \in StartJob
    BY <2>1 DEF TypeOK, StartJob
  <2> QED BY <1>10, <2>2 DEF Find, TypeOK
<1>11. ASSUME NEW j \in starts, Enter(j) PROVE TypeOK'
  <2>1. starts' \subseteq StartJob /\ repeats' \in 0..MaxRepeats
    BY <1>11, HandledType DEF Enter
  <2>2. j.found \subseteq Customers
    BY DEF TypeOK, StartJob
  <2> QED BY <1>11, <2>1, <2>2 DEF Enter, TypeOK
<1>12. ASSUME NEW j \in starts, Drop(j) PROVE TypeOK'
  <2>1. Page(j.listing, j.skip, j.limit) \subseteq Customers
    BY PageType DEF TypeOK, StartJob
  <2> QED BY <1>12, <2>1 DEF Drop, TypeOK
<1>13. CASE UNCHANGED vars
  BY <1>13 DEF vars, TypeOK
<1>14. CASE TimeComes
  BY <1>14 DEF TimeComes, TypeOK
<1>15. ASSUME NEW k \in Crons, EntryTiming(k) \/ CronFails(k) PROVE TypeOK'
  BY <1>3, <1>15, CronType DEF EntryTiming
<1>16. settings.jobs \subseteq Enrollments
  BY DEF TypeOK, Setting
<1> QED
  BY <1>1, <1>2, <1>3, <1>4, <1>5, <1>6, <1>7, <1>8, <1>9, <1>10, <1>11, <1>12,
     <1>13, <1>14, <1>15, <1>16
  DEF Next, Enroll, Start, CopyThrows, Fails

\* Every step is typed: retries never pass their option, ranges are ranges.
THEOREM TypeInvariant == Spec => []TypeOK
<1>1. ASSUME Init PROVE TypeOK
  <2>1. enrollment \in [Runs -> Handler]
    BY <1>1, WaitingType DEF Init
  <2>2. enrollmentCount \in {0, 1}
    BY <1>1 DEF Init, CountedAtStart
  <2>3. /\ settings \in Settings /\ due \in BOOLEAN /\ audience \in Listing
        /\ rows \subseteq Customers /\ starts \subseteq StartJob
        /\ entered \in [Customers -> Nat]
        /\ unlocated \subseteq Customers /\ orphaned \subseteq Customers
    BY <1>1, EnrollmentAssumption DEF Init
  <2>4. /\ deaths \in 0..MaxDeaths /\ repeats \in 0..MaxRepeats
        /\ drops \in 0..MaxDrops /\ churn \in 0..MaxChurn
    BY <1>1, EnrollmentAssumption DEF Init
  <2> QED BY <2>1, <2>2, <2>3, <2>4 DEF TypeOK
<1> QED BY <1>1, TypeStep, PTL DEF Spec

-----------------------------------------------------------------------------
(* Who is in whose hands.                                                  *)

\* The hands are those of a query's audience.  A maximum of 0 entries is apart:
\* find takes the size 0 for no limit, but nobody enters (ShutInv).
OfQuery == settings.frozen /\ (settings.maxEnabled => MaxEntries > 0)

RangeOf(j) == Page(j.listing, j.skip, j.limit)

Upto(s, k) == {s[i] : i \in {n \in DOMAIN s : n <= k}}

\* The range a START job is made for is within the listing, and all of it
\* where entries are not limited.
Sizes ==
  \A e \in Enrollments :
    enrollment[e].point \in {"counted", "committed"} =>
      /\ enrollment[e].size = 0 => Len(enrollment[e].listing) = 0
      /\ ~settings.maxEnabled => enrollment[e].size = Len(enrollment[e].listing)

\* An open transaction has written the pages it has passed.
Copying ==
  \A e \in Runs :
    enrollment[e].point = "counted" =>
      /\ enrollment[e].copied =
           Upto(enrollment[e].listing, enrollment[e].batch * PageSize)
      /\ enrollment[e].copied \cap rows = {}

\* A committed one has written the range it will publish, and nobody in it
\* has entered or is in the range of a START job.
Committed ==
  \A e \in Enrollments :
    enrollment[e].point = "committed" =>
      /\ enrollment[e].copied \subseteq rows
      /\ Page(enrollment[e].listing, 0, enrollment[e].size) \subseteq enrollment[e].copied
      /\ ~settings.maxEnabled =>
           enrollment[e].copied \subseteq Page(enrollment[e].listing, 0, enrollment[e].size)
      /\ \A c \in enrollment[e].copied : entered[c] = 0
      /\ \A j \in starts : RangeOf(j) \cap enrollment[e].copied = {}

\* No two of them have written the same row.
Apart ==
  \A e, f \in Runs :
    /\ e # f
    /\ enrollment[e].point \in {"counted", "committed"}
    /\ enrollment[f].point \in {"counted", "committed"}
    => enrollment[e].copied \cap enrollment[f].copied = {}

\* A cron run has written nothing yet, or nothing that is still its own.
CronHands ==
  \A k \in Crons :
    /\ enrollment[k].point \in {"selected", "committed"} =>
         enrollment[k].copied = {}
    /\ enrollment[k].point = "selected" => enrollment[k].batch = 0

\* A START job's range has rows.
Ranges ==
  \A j \in starts :
    /\ RangeOf(j) \subseteq rows
    /\ j.at = "found" => j.found = RangeOf(j)
    /\ j.limit = 0 => RangeOf(j) = {}

\* The START jobs that will queue c's first step job.
Holding(c) == {j \in starts : c \in RangeOf(j)}

\* There is one to begin with, and one more for each that is delivered again.
Counted ==
  /\ IsFiniteSet(starts)
  /\ \A c \in Customers : entered[c] + Cardinality(Holding(c)) <= 1 + repeats

EnteredRows == \A c \in Customers : entered[c] > 0 => c \in rows

Located == unlocated = {}

Accounted ==
  ~settings.maxEnabled =>
    \A c \in rows : entered[c] > 0 \/ Underway(c) \/ c \in orphaned

Hands ==
  /\ Sizes
  /\ Copying
  /\ Committed
  /\ Apart
  /\ CronHands
  /\ Ranges
  /\ Counted
  /\ EnteredRows
  /\ Located
  /\ Accounted

-----------------------------------------------------------------------------
(* Ranges.                                                                 *)

\* The halves of a range are disjoint and make it up.
LEMMA Halves ==
  ASSUME NEW s \in Listing, NEW skip \in Nat, NEW limit \in Nat, limit >= 2
  PROVE  LET first == Page(s, skip, limit \div 2)
             second == Page(s, skip + limit \div 2, (limit + 1) \div 2)
         IN /\ Page(s, skip, limit) = first \cup second
            /\ first \cap second = {}
<1> DEFINE a == limit \div 2
           b == (limit + 1) \div 2
<1>1. a \in Nat /\ b \in Nat /\ a + b = limit /\ a > 0 /\ b > 0
  OBVIOUS
<1>2. DOMAIN s \subseteq Nat /\ \A i, k \in DOMAIN s : s[i] = s[k] => i = k
  BY DEF Listing
<1> HIDE DEF a, b
<1>3. Page(s, skip, limit) = Page(s, skip, a) \cup Page(s, skip + a, b)
  <2>1. \A n \in DOMAIN s :
          (n > skip /\ n <= skip + limit) <=>
            \/ n > skip /\ n <= skip + a
            \/ n > skip + a /\ n <= skip + a + b
    BY <1>1, <1>2
  <2> QED BY <1>1, <2>1 DEF Page
<1>4. Page(s, skip, a) \cap Page(s, skip + a, b) = {}
  BY <1>1, <1>2 DEF Page
<1> QED BY <1>3, <1>4 DEF a, b

\* One page more.
LEMMA NextPage ==
  ASSUME NEW s \in Listing, NEW b \in Nat
  PROVE  Upto(s, (b + 1) * PageSize) =
           Upto(s, b * PageSize) \cup Page(s, b * PageSize, PageSize)
<1>1. PageSize \in Nat /\ PageSize # 0
  BY EnrollmentAssumption
<1>2. b * PageSize \in Nat /\ (b + 1) * PageSize = b * PageSize + PageSize
  BY <1>1
<1>3. DOMAIN s \subseteq Nat
  BY DEF Listing
<1>4. \A n \in DOMAIN s :
        n <= b * PageSize + PageSize <=>
          n <= b * PageSize \/ (n > b * PageSize /\ n <= b * PageSize + PageSize)
  BY <1>1, <1>2, <1>3
<1> QED BY <1>1, <1>2, <1>4 DEF Upto, Page

\* The pages before one that is behind the size hold the whole range, and
\* the range of the size of a listing is all of it.
LEMMA LastPage ==
  ASSUME NEW s \in Listing, NEW size \in Nat, NEW k \in Nat, k > size,
         size = 0 => Len(s) = 0
  PROVE  /\ Page(s, 0, size) \subseteq Upto(s, k)
         /\ size = Len(s) => Upto(s, k) \subseteq Page(s, 0, size)
         /\ size = 0 => Page(s, 0, size) = {}
<1>1. DOMAIN s = 1..Len(s) /\ Len(s) \in Nat
  BY DEF Listing
<1>2. size = 0 => DOMAIN s = {}
  BY <1>1
<1>3. \A n \in DOMAIN s : n > 0 /\ n <= size => n <= k
  BY <1>1
<1>4. Page(s, 0, size) \subseteq Upto(s, k)
  BY <1>2, <1>3 DEF Page, Upto
<1>5. ASSUME size = Len(s) PROVE Upto(s, k) \subseteq Page(s, 0, size)
  <2>1. \A n \in DOMAIN s : n > 0 /\ n <= 0 + size
    BY <1>1, <1>5
  <2> QED BY <2>1 DEF Page, Upto
<1>6. ASSUME size = 0 PROVE Page(s, 0, size) = {}
  BY <1>2, <1>6 DEF Page
<1> QED BY <1>4, <1>5, <1>6

\* What is left of a handled job j: nothing, or a copy to be delivered again.
Again(j, left) ==
  \/ left = {} /\ repeats' = repeats
  \/ /\ repeats' = repeats + 1
     /\ \E k : /\ left = {k} /\ RangeOf(k) = RangeOf(j)
              /\ k.limit = j.limit /\ k.at = "queued"

LEMMA HandledLeaves ==
  ASSUME TypeOK, NEW j \in starts, NEW published, Handled(j, published)
  PROVE  \E left : /\ starts' = (starts \ {j}) \cup left \cup published
                   /\ Again(j, left)
<1>1. CASE starts' = (starts \ {j}) \cup published /\ UNCHANGED repeats
  <2>1. starts' = (starts \ {j}) \cup {} \cup published /\ Again(j, {})
    BY <1>1 DEF Again
  <2> QED BY <2>1
<1>2. CASE /\ repeats' = repeats + 1
           /\ starts' = (starts \ {j})
                \cup {[j EXCEPT !.copy = repeats', !.at = "queued", !.found = {}]}
                \cup published
  <2> DEFINE k == [j EXCEPT !.copy = repeats', !.at = "queued", !.found = {}]
  <2>1. j \in StartJob
    BY DEF TypeOK
  <2>2. /\ k.listing = j.listing /\ k.skip = j.skip
        /\ k.limit = j.limit /\ k.at = "queued"
    BY <2>1 DEF StartJob
  <2>3. starts' = (starts \ {j}) \cup {k} \cup published
    BY <1>2
  <2> HIDE DEF k
  <2>4. RangeOf(k) = RangeOf(j)
    BY <2>2 DEF RangeOf
  <2>5. Again(j, {k})
    BY <1>2, <2>2, <2>4 DEF Again
  <2> QED BY <2>3, <2>5
<1> QED BY <1>1, <1>2 DEF Handled

\* What is left of a job weighs what was added to the repeats.
LEMMA AgainWeighs ==
  ASSUME TypeOK, NEW j, NEW left, Again(j, left),
         NEW S, IsFiniteSet(S)
  PROVE  /\ IsFiniteSet(S \cup left)
         /\ Cardinality(S \cup left) - Cardinality(S) <= repeats' - repeats
         /\ repeats \in Nat /\ repeats' \in Nat
         /\ Cardinality(S \cup left) \in Nat /\ Cardinality(S) \in Nat
<1>1. repeats \in Nat /\ Cardinality(S) \in Nat
  BY EnrollmentAssumption, FS_CardinalityType DEF TypeOK
<1>2. CASE left = {} /\ repeats' = repeats
  <2>1. S \cup left = S
    BY <1>2
  <2> QED BY <1>1, <1>2, <2>1
<1>3. CASE repeats' = repeats + 1 /\ \E k : left = {k}
  <2>1. PICK k : left = {k}
    BY <1>3
  <2>2. /\ IsFiniteSet(S \cup {k})
        /\ Cardinality(S \cup {k}) = IF k \in S THEN Cardinality(S)
                                      ELSE Cardinality(S) + 1
    BY FS_AddElement
  <2> QED BY <1>1, <1>3, <2>1, <2>2
<1> QED BY <1>2, <1>3 DEF Again

\* Jobs that are gone hold nobody.
LEMMA FewerCounted ==
  ASSUME TypeOK, Counted, starts' \subseteq starts, UNCHANGED <<entered, repeats>>
  PROVE  Counted'
<1>1. IsFiniteSet(starts')
  BY FS_Subset DEF Counted
<1>2. ASSUME NEW c \in Customers
      PROVE  entered[c] + Cardinality(Holding(c)') <= 1 + repeats
  <2>1. Holding(c)' \subseteq Holding(c)
    BY DEF Holding, RangeOf
  <2>2. IsFiniteSet(Holding(c))
    BY FS_Subset DEF Counted, Holding
  <2>3. /\ Cardinality(Holding(c)') <= Cardinality(Holding(c))
        /\ Cardinality(Holding(c)') \in Nat /\ Cardinality(Holding(c)) \in Nat
    BY <2>1, <2>2, FS_Subset, FS_CardinalityType
  <2>4. entered[c] \in Nat /\ repeats \in Nat
    BY EnrollmentAssumption DEF TypeOK
  <2> QED BY <2>3, <2>4 DEF Counted
<1> QED BY <1>1, <1>2 DEF Counted

\* A new job may hold those that nobody held.
LEMMA MoreCounted ==
  ASSUME TypeOK, Counted, NEW k, starts' = starts \cup {k},
         UNCHANGED <<entered, repeats>>,
         \A c \in Customers : c \in RangeOf(k) => entered[c] = 0 /\ Holding(c) = {}
  PROVE  Counted'
<1>1. IsFiniteSet(starts')
  BY FS_AddElement DEF Counted
<1>2. ASSUME NEW c \in Customers
      PROVE  entered[c] + Cardinality(Holding(c)') <= 1 + repeats
  <2>1. CASE c \in RangeOf(k)
    <3>1. Holding(c)' = {k}
      BY <2>1 DEF Holding, RangeOf
    <3>2. Cardinality({k}) = 1
      BY FS_Singleton
    <3>3. repeats \in Nat /\ entered[c] = 0
      BY <2>1, EnrollmentAssumption DEF TypeOK
    <3> QED BY <3>1, <3>2, <3>3
  <2>2. CASE c \notin RangeOf(k)
    <3>1. Holding(c)' = Holding(c)
      BY <2>2 DEF Holding, RangeOf
    <3> QED BY <3>1 DEF Counted
  <2> QED BY <2>1, <2>2
<1> QED BY <1>1, <1>2 DEF Counted

-----------------------------------------------------------------------------
(* Every step keeps the hands.                                             *)

\* A handler that leaves its transaction, or its range, behind.
LEMMA ReleaseHands ==
  ASSUME TypeOK, Hands, NEW e \in Runs,
         enrollment'[e].point \notin {"selected", "counted", "committed"},
         \A f \in Runs : f # e => enrollment'[f] = enrollment[f],
         orphaned \subseteq orphaned',
         e \in Enrollments => Orphans(e) \subseteq orphaned',
         UNCHANGED <<settings, rows, starts, entered, unlocated, repeats>>
  PROVE  Hands'
<1>1. Sizes' /\ Copying' /\ Apart' /\ CronHands'
  BY DEF Hands, Sizes, Copying, Apart, CronHands
<1>2. Committed'
  BY DEF Hands, Committed, RangeOf
<1>3. Ranges' /\ Counted'
  BY DEF Hands, Ranges, Counted, Holding, RangeOf
<1>4. EnteredRows' /\ Located'
  BY DEF Hands, EnteredRows, Located
<1>5. Accounted'
  <2>1. ASSUME ~settings.maxEnabled, NEW c \in rows
        PROVE  entered[c] > 0 \/ Underway(c)' \/ c \in orphaned'
    <3>1. CASE entered[c] > 0 \/ c \in orphaned
      BY <3>1
    <3>2. CASE \E j \in starts : c \in Page(j.listing, j.skip, j.limit)
      BY <3>2 DEF Underway
    <3>3. CASE \E f \in Enrollments :
                 enrollment[f].point = "committed" /\ c \in enrollment[f].copied
      BY <3>3 DEF Underway, Orphans
    <3> QED BY <2>1, <3>1, <3>2, <3>3 DEF Hands, Accounted, Underway
  <2> QED BY <2>1 DEF Accounted
<1> QED BY <1>1, <1>2, <1>3, <1>4, <1>5 DEF Hands

\* No page has been passed at first.
LEMMA EmptyUpto ==
  ASSUME NEW s \in Listing
  PROVE  Upto(s, 0 * PageSize) = {}
<1>1. 0 * PageSize = 0
  BY EnrollmentAssumption
<1>2. DOMAIN s = 1..Len(s) /\ Len(s) \in Nat
  BY DEF Listing
<1> QED BY <1>1, <1>2 DEF Upto

LEMMA CountHands ==
  ASSUME TypeOK, OfQuery, Hands, NEW e \in Enrollments, Count(e)
  PROVE  Hands'
<1>1. /\ enrollment'[e].point = "counted" /\ enrollment'[e].listing = audience
      /\ enrollment'[e].size = SizeOf(Len(audience))
      /\ enrollment'[e].batch = 0 /\ enrollment'[e].copied = {}
      /\ enrollment[e].point = "queued"
  BY DEF Count, TypeOK, Handler
<1>2. \A f \in Runs : f # e => enrollment'[f] = enrollment[f]
  BY DEF Count, TypeOK
<1>3. UNCHANGED <<settings, rows, starts, entered, unlocated, orphaned, repeats>>
  BY DEF Count
<1>4. Sizes'
  <2>1. SizeOf(Len(audience)) = 0 => Len(audience) = 0
    BY EnrollmentAssumption DEF SizeOf, OfQuery, TypeOK, Listing
  <2>2. ~settings.maxEnabled => SizeOf(Len(audience)) = Len(audience)
    BY DEF SizeOf
  <2> QED BY <1>1, <1>2, <1>3, <2>1, <2>2 DEF Hands, Sizes
<1>5. Copying'
  <2>1. Upto(audience, 0 * PageSize) = {}
    BY EmptyUpto DEF TypeOK
  <2> QED BY <1>1, <1>2, <1>3, <2>1 DEF Hands, Copying, Upto
<1>6. Committed' /\ Apart' /\ CronHands'
  BY <1>1, <1>2, <1>3 DEF Hands, Committed, Apart, CronHands, RangeOf
<1>7. Ranges' /\ Counted'
  BY <1>3 DEF Hands, Ranges, Counted, Holding, RangeOf
<1>8. EnteredRows' /\ Located'
  BY <1>3 DEF Hands, EnteredRows, Located
<1>9. Accounted'
  BY <1>1, <1>2, <1>3 DEF Hands, Accounted, Underway
<1> QED BY <1>4, <1>5, <1>6, <1>7, <1>8, <1>9 DEF Hands

LEMMA CopyPageHands ==
  ASSUME TypeOK, OfQuery, Hands, NEW e \in Runs, CopyPage(e)
  PROVE  Hands'
<1>1. /\ enrollment'[e].point = "counted"
      /\ enrollment'[e].listing = enrollment[e].listing
      /\ enrollment'[e].size = enrollment[e].size
      /\ enrollment'[e].batch = enrollment[e].batch + 1
      /\ enrollment'[e].copied = enrollment[e].copied \cup PageOf(e)
      /\ enrollment[e].point = "counted"
  BY DEF CopyPage, WithPage, TypeOK, Handler
<1>2. \A f \in Runs : f # e => enrollment'[f] = enrollment[f]
  BY DEF CopyPage, TypeOK
<1>3. UNCHANGED <<settings, rows, starts, entered, unlocated, orphaned, repeats>>
  BY DEF CopyPage
<1>4. Sizes'
  BY <1>1, <1>2, <1>3 DEF Hands, Sizes
<1>5. PageOf(e) \cap rows = {}
  BY DEF CopyPage, RepeatsRow
<1>6. Copying'
  <2>1. enrollment[e].listing \in Listing /\ enrollment[e].batch \in Nat
    BY DEF TypeOK, Handler
  <2>2. PageOf(e) =
          Page(enrollment[e].listing, enrollment[e].batch * PageSize, PageSize)
    BY DEF PageOf, Listed, OfQuery
  <2>3. enrollment'[e].copied =
          Upto(enrollment'[e].listing, enrollment'[e].batch * PageSize)
    BY <1>1, <2>1, <2>2, NextPage DEF Hands, Copying
  <2> QED BY <1>1, <1>2, <1>3, <1>5, <2>3 DEF Hands, Copying, Upto
<1>7. Committed' /\ CronHands'
  BY <1>1, <1>2, <1>3 DEF Hands, Committed, CronHands, RangeOf
<1>8. Apart'
  <2>1. ASSUME NEW f \in Runs, f # e,
               enrollment[f].point \in {"counted", "committed"}
        PROVE  enrollment[f].copied \cap (enrollment[e].copied \cup PageOf(e)) = {}
    <3>1. enrollment[f].copied \cap enrollment[e].copied = {}
      BY <1>1, <2>1 DEF Hands, Apart
    <3>2. CASE enrollment[f].point = "counted"
      BY <2>1, <3>1, <3>2 DEF CopyPage, Waits
    <3>3. CASE enrollment[f].point = "committed"
      BY <1>5, <2>1, <3>1, <3>3 DEF Hands, Committed, CronHands
    <3> QED BY <2>1, <3>2, <3>3
  <2> QED BY <1>1, <1>2, <2>1 DEF Hands, Apart
<1>9. Ranges' /\ Counted'
  BY <1>3 DEF Hands, Ranges, Counted, Holding, RangeOf
<1>10. EnteredRows' /\ Located'
  BY <1>3 DEF Hands, EnteredRows, Located
<1>11. Accounted'
  BY <1>1, <1>2, <1>3 DEF Hands, Accounted, Underway
<1> QED BY <1>4, <1>6, <1>7, <1>8, <1>9, <1>10, <1>11 DEF Hands

LEMMA CommitHands ==
  ASSUME TypeOK, OfQuery, Hands, NEW e \in Enrollments, Commit(e)
  PROVE  Hands'
<1>1. /\ enrollment'[e].point = "committed"
      /\ enrollment'[e].listing = enrollment[e].listing
      /\ enrollment'[e].size = enrollment[e].size
      /\ enrollment'[e].copied = enrollment[e].copied
      /\ enrollment[e].point = "counted"
  BY DEF Commit, TypeOK, Handler
<1>2. \A f \in Runs : f # e => enrollment'[f] = enrollment[f]
  BY DEF Commit, TypeOK
<1>3. UNCHANGED <<settings, starts, entered, unlocated, orphaned, repeats>>
  BY DEF Commit
<1>4. rows' = rows \cup enrollment[e].copied
  BY DEF Commit
<1>5. /\ enrollment[e].listing \in Listing /\ enrollment[e].size \in Nat
      /\ enrollment[e].batch \in Nat /\ enrollment[e].copied \subseteq Customers
  BY DEF TypeOK, Handler
<1>6. Sizes'
  BY <1>1, <1>2, <1>3 DEF Hands, Sizes
<1>7. Copying' /\ Apart' /\ CronHands'
  BY <1>1, <1>2, <1>4, EnrollmentAssumption
  DEF Hands, Copying, Apart, CronHands, Upto
<1>8. Committed'
  <2>1. ASSUME NEW f \in Enrollments, f # e, enrollment'[f].point = "committed"
        PROVE  /\ enrollment'[f].copied \subseteq rows'
               /\ Page(enrollment'[f].listing, 0, enrollment'[f].size)
                    \subseteq enrollment'[f].copied
               /\ ~settings.maxEnabled =>
                    enrollment'[f].copied
                      \subseteq Page(enrollment'[f].listing, 0, enrollment'[f].size)
               /\ \A c \in enrollment'[f].copied : entered'[c] = 0
               /\ \A j \in starts' : RangeOf(j) \cap enrollment'[f].copied = {}
    BY <1>2, <1>3, <1>4, <2>1 DEF Hands, Committed
  <2>2. \A c \in enrollment[e].copied : entered[c] = 0
    BY <1>1, <1>5 DEF Hands, Copying, EnteredRows, TypeOK
  <2>3. \A j \in starts : RangeOf(j) \cap enrollment[e].copied = {}
    BY <1>1 DEF Hands, Copying, Ranges
  <2>4. /\ Page(enrollment[e].listing, 0, enrollment[e].size) \subseteq enrollment[e].copied
        /\ ~settings.maxEnabled =>
             enrollment[e].copied \subseteq Page(enrollment[e].listing, 0, enrollment[e].size)
    <3>1. /\ enrollment[e].batch * PageSize \in Nat
          /\ enrollment[e].batch * PageSize > enrollment[e].size
      BY <1>5, EnrollmentAssumption DEF Commit, PagesLeft
    <3> QED BY <1>1, <1>5, <3>1, LastPage DEF Hands, Sizes, Copying
  <2>5. \A j \in starts' : RangeOf(j)' = RangeOf(j)
    BY DEF RangeOf
  <2> QED BY <1>1, <1>3, <1>4, <2>1, <2>2, <2>3, <2>4, <2>5 DEF Committed, RangeOf
<1>9. Ranges' /\ Counted'
  BY <1>3, <1>4 DEF Hands, Ranges, Counted, Holding, RangeOf
<1>10. EnteredRows' /\ Located'
  BY <1>3, <1>4 DEF Hands, EnteredRows, Located
<1>11. Accounted'
  BY <1>1, <1>2, <1>3, <1>4 DEF Hands, Accounted, Underway
<1> QED BY <1>6, <1>7, <1>8, <1>9, <1>10, <1>11 DEF Hands

LEMMA PublishHands ==
  ASSUME TypeOK, OfQuery, Hands, NEW e \in Enrollments, PublishStart(e)
  PROVE  Hands'
<1> DEFINE h == enrollment[e]
           j0 == [listing |-> h.listing, skip |-> 0, limit |-> h.size,
                  copy |-> 0, found |-> {}, at |-> "queued"]
<1>1. enrollment'[e].point = "published" /\ h.point = "committed"
  BY DEF PublishStart, TypeOK, Handler
<1>2. \A f \in Runs : f # e => enrollment'[f] = enrollment[f]
  BY DEF PublishStart, TypeOK
<1>3. UNCHANGED <<settings, rows, entered, unlocated, orphaned, repeats>> /\ starts' = starts \cup {j0}
  BY DEF PublishStart
<1>4. RangeOf(j0) = Page(h.listing, 0, h.size) /\ j0.at = "queued" /\ j0.limit = h.size
  BY DEF RangeOf
<1>5. /\ RangeOf(j0) \subseteq h.copied /\ h.copied \subseteq rows
      /\ ~settings.maxEnabled => h.copied \subseteq RangeOf(j0)
      /\ \A c \in h.copied : entered[c] = 0
      /\ \A j \in starts : RangeOf(j) \cap h.copied = {}
  BY <1>1, <1>4 DEF Hands, Committed
<1>6. h.size = 0 => RangeOf(j0) = {}
  <2>1. h.listing \in Listing /\ h.size \in Nat
    BY DEF TypeOK, Handler
  <2> QED BY <1>1, <1>4, <2>1, LastPage, h.size + 1 > h.size DEF Hands, Sizes
<1> HIDE DEF h, j0
<1>7. Sizes' /\ Copying' /\ Apart' /\ CronHands'
  BY <1>1, <1>2, <1>3 DEF Hands, Sizes, Copying, Apart, CronHands, Upto
<1>8. Committed'
  <2>1. ASSUME NEW f \in Enrollments, f # e, enrollment[f].point = "committed"
        PROVE  enrollment[f].copied \cap RangeOf(j0) = {}
    BY <1>1, <1>5, <2>1 DEF Hands, Apart, h
  <2> QED BY <1>1, <1>2, <1>3, <2>1 DEF Hands, Committed, RangeOf
<1>9. Ranges' /\ Counted'
  <2>1. Ranges'
    BY <1>3, <1>4, <1>5, <1>6 DEF Hands, Ranges, RangeOf
  <2>2. \A c \in Customers : c \in RangeOf(j0) => entered[c] = 0 /\ Holding(c) = {}
    BY <1>5 DEF Holding
  <2> QED BY <1>3, <2>1, <2>2, MoreCounted DEF Hands
<1>10. EnteredRows' /\ Located'
  BY <1>3 DEF Hands, EnteredRows, Located
<1>11. Accounted'
  <2>1. j0 \in starts' /\ RangeOf(j0) = Page(j0.listing, j0.skip, j0.limit)
    BY <1>3 DEF RangeOf
  <2> QED BY <1>1, <1>2, <1>3, <1>5, <2>1 DEF Hands, Accounted, Underway, h
<1> QED BY <1>7, <1>8, <1>9, <1>10, <1>11 DEF Hands

(***************************************************************************)
(* A START job replaced by others that share its range out between them,   *)
(* and perhaps left to be delivered again: what Split and Find do to the   *)
(* hands.                                                                  *)
(***************************************************************************)
LEMMA ShareHands ==
  ASSUME TypeOK, Hands, NEW j \in starts, NEW P, NEW left,
         starts' = (starts \ {j}) \cup left \cup P,
         Again(j, left),
         IsFiniteSet(P),
         UNION {RangeOf(k) : k \in P} = RangeOf(j),
         \A k, l \in P : k # l => RangeOf(k) \cap RangeOf(l) = {},
         \A k \in P : /\ k.at = "found" => k.found = RangeOf(k)
                      /\ k.limit = 0 => RangeOf(k) = {},
         UNCHANGED <<settings, enrollment, rows, entered, unlocated, orphaned>>
  PROVE  Hands'
<1>1. Sizes' /\ Copying' /\ Apart' /\ CronHands'
  BY DEF Hands, Sizes, Copying, Apart, CronHands, Upto
<1>2. /\ \A k \in P : RangeOf(k) \subseteq RangeOf(j)
      /\ \A k \in left : /\ RangeOf(k) = RangeOf(j)
                          /\ k.limit = j.limit /\ k.at = "queued"
  BY DEF Again
<1>3. Committed'
  BY <1>2 DEF Hands, Committed, RangeOf
<1>4. Ranges'
  <2>1. ASSUME NEW k \in starts'
        PROVE  /\ RangeOf(k) \subseteq rows
               /\ k.at = "found" => k.found = RangeOf(k)
               /\ k.limit = 0 => RangeOf(k) = {}
    <3>1. CASE k \in P
      BY <1>2, <3>1 DEF Hands, Ranges
    <3>2. CASE k \in left
      BY <1>2, <3>2 DEF Hands, Ranges
    <3>3. CASE k \in starts
      BY <3>3 DEF Hands, Ranges
    <3> QED BY <3>1, <3>2, <3>3
  <2> QED BY <2>1 DEF Ranges, RangeOf
<1>5. Counted'
  <2>1. IsFiniteSet(starts) /\ IsFiniteSet(starts \ {j})
    BY FS_Subset DEF Hands, Counted
  <2>2. IsFiniteSet(starts')
    <3>1. IsFiniteSet((starts \ {j}) \cup left)
      BY <2>1, AgainWeighs
    <3> QED BY <3>1, FS_Union
  <2>3. ASSUME NEW c \in Customers
        PROVE  entered[c] + Cardinality(Holding(c)') <= 1 + repeats'
    <3>1. Holding(c)' = {k \in starts' : c \in RangeOf(k)}
      BY DEF Holding, RangeOf
    <3>2. Holding(c) \subseteq starts /\ IsFiniteSet(Holding(c))
      BY <2>1, FS_Subset DEF Holding
    <3>3. Cardinality(Holding(c)) \in Nat /\ entered[c] \in Nat
      BY <3>2, FS_CardinalityType DEF TypeOK
    <3>4. entered[c] + Cardinality(Holding(c)) <= 1 + repeats
      BY DEF Hands, Counted
    <3>5. CASE c \notin RangeOf(j)
      <4>1. Holding(c)' \subseteq Holding(c)
        BY <1>2, <3>1, <3>5 DEF Holding
      <4>2. /\ Cardinality(Holding(c)') <= Cardinality(Holding(c))
            /\ Cardinality(Holding(c)') \in Nat
        BY <3>2, <4>1, FS_Subset, FS_CardinalityType
      <4>3. repeats <= repeats' /\ repeats \in Nat /\ repeats' \in Nat
        BY EnrollmentAssumption DEF Again, TypeOK
      <4> QED BY <3>3, <3>4, <4>2, <4>3
    <3>6. CASE c \in RangeOf(j)
      <4>1. PICK k \in P : c \in RangeOf(k)
        BY <3>6
      <4>2. j \in Holding(c)
        BY <3>6 DEF Holding
      <4> DEFINE rest == Holding(c) \ {j}
                 one == rest \cup {k}
      <4>3. /\ IsFiniteSet(rest)
            /\ Cardinality(rest) = Cardinality(Holding(c)) - 1
        BY <3>2, <4>2, FS_RemoveElement
      <4>4. /\ IsFiniteSet(one)
            /\ Cardinality(one) <= Cardinality(rest) + 1
            /\ Cardinality(one) \in Nat /\ Cardinality(rest) \in Nat
        <5>1. Cardinality(rest) \in Nat
          BY <4>3, FS_CardinalityType
        <5>2. /\ IsFiniteSet(one)
              /\ Cardinality(one) =
                   IF k \in rest THEN Cardinality(rest) ELSE Cardinality(rest) + 1
          BY <4>3, FS_AddElement
        <5> HIDE DEF one, rest
        <5> QED BY <5>1, <5>2
      <4>5. Holding(c)' \subseteq one \cup left
        BY <3>1, <4>1 DEF Holding
      <4> HIDE DEF rest, one
      <4>6. /\ IsFiniteSet(one \cup left)
            /\ Cardinality(one \cup left) - Cardinality(one) <= repeats' - repeats
            /\ repeats \in Nat /\ repeats' \in Nat
            /\ Cardinality(one \cup left) \in Nat
        BY <4>4, AgainWeighs
      <4>7. /\ Cardinality(Holding(c)') <= Cardinality(one \cup left)
            /\ Cardinality(Holding(c)') \in Nat
        BY <4>5, <4>6, FS_Subset, FS_CardinalityType
      <4> QED BY <3>3, <3>4, <4>3, <4>4, <4>6, <4>7
    <3> QED BY <3>5, <3>6
  <2> QED BY <2>2, <2>3 DEF Counted
<1>6. EnteredRows' /\ Located'
  BY DEF Hands, EnteredRows, Located
<1>7. Accounted'
  <2>1. \A c : c \in RangeOf(j) => \E k \in P : c \in RangeOf(k)
    OBVIOUS
  <2> QED BY <2>1 DEF Hands, Accounted, Underway, RangeOf
<1> QED BY <1>1, <1>3, <1>4, <1>5, <1>6, <1>7 DEF Hands

LEMMA SplitHands ==
  ASSUME TypeOK, OfQuery, Hands, NEW j \in starts, Split(j)
  PROVE  Hands'
<1>1. /\ j \in StartJob /\ j.listing \in Listing /\ j.skip \in Nat /\ j.limit \in Nat
  BY DEF TypeOK, StartJob
<1>2. j.limit >= 2
  BY <1>1, EnrollmentAssumption DEF Split
<1>3. /\ FirstHalf(j).listing = j.listing /\ FirstHalf(j).skip = j.skip
      /\ FirstHalf(j).limit = j.limit \div 2
      /\ FirstHalf(j).at = j.at /\ FirstHalf(j).found = j.found
      /\ SecondHalf(j).listing = j.listing
      /\ SecondHalf(j).skip = j.skip + j.limit \div 2
      /\ SecondHalf(j).limit = (j.limit + 1) \div 2
      /\ SecondHalf(j).at = j.at /\ SecondHalf(j).found = j.found
  BY <1>1 DEF StartJob, FirstHalf, SecondHalf
<1>4. /\ RangeOf(j) = RangeOf(FirstHalf(j)) \cup RangeOf(SecondHalf(j))
      /\ RangeOf(FirstHalf(j)) \cap RangeOf(SecondHalf(j)) = {}
  BY <1>1, <1>2, <1>3, Halves DEF RangeOf
<1>5. j.limit \div 2 > 0 /\ (j.limit + 1) \div 2 > 0
  BY <1>1, <1>2
<1>6. j.at = "queued"
  BY DEF Split
<1>7. PICK left :
        /\ starts' = (starts \ {j}) \cup left \cup {FirstHalf(j), SecondHalf(j)}
        /\ Again(j, left)
  BY HandledLeaves DEF Split
<1>8. UNCHANGED <<settings, enrollment, rows, entered, unlocated, orphaned>>
  BY DEF Split
<1> DEFINE P == {FirstHalf(j), SecondHalf(j)}
<1>9. UNION {RangeOf(k) : k \in P} = RangeOf(j)
  BY <1>4
<1>10. \A k, l \in P : k # l => RangeOf(k) \cap RangeOf(l) = {}
  BY <1>4
<1>11. \A k \in P : /\ k.at = "found" => k.found = RangeOf(k)
                    /\ k.limit = 0 => RangeOf(k) = {}
  BY <1>3, <1>5, <1>6
<1>12. starts' = (starts \ {j}) \cup left \cup P /\ Again(j, left)
  BY <1>7
<1>13. IsFiniteSet(P)
  <2>1. IsFiniteSet({FirstHalf(j)})
    BY FS_Singleton
  <2>2. P = {FirstHalf(j)} \cup {SecondHalf(j)}
    OBVIOUS
  <2> QED BY <2>1, <2>2, FS_AddElement
<1> HIDE DEF P
<1> QED BY <1>8, <1>9, <1>10, <1>11, <1>12, <1>13, ShareHands

LEMMA FindHands ==
  ASSUME TypeOK, OfQuery, Hands, NEW j \in starts, Find(j)
  PROVE  Hands'
<1> DEFINE k == [j EXCEPT !.at = "found",
                          !.found = Page(Listed(j.listing), j.skip, j.limit)]
<1>1. j \in StartJob
  BY DEF TypeOK
<1>2. /\ k.listing = j.listing /\ k.skip = j.skip /\ k.limit = j.limit
      /\ k.found = RangeOf(j)
  BY <1>1 DEF StartJob, RangeOf, Listed, OfQuery
<1>3. starts' = (starts \ {j}) \cup {k}
  BY DEF Find
<1>4. UNCHANGED <<settings, enrollment, rows, entered, unlocated, orphaned, repeats>>
  BY DEF Find
<1> HIDE DEF k
<1>5. RangeOf(k) = RangeOf(j)
  BY <1>2 DEF RangeOf
<1>6. k.limit = 0 => RangeOf(k) = {}
  BY <1>2, <1>5 DEF Hands, Ranges
<1> DEFINE P == {k}
<1>7. UNION {RangeOf(l) : l \in P} = RangeOf(j)
  BY <1>5
<1>8. \A l, l2 \in P : l # l2 => RangeOf(l) \cap RangeOf(l2) = {}
  OBVIOUS
<1>9. \A l \in P : /\ l.at = "found" => l.found = RangeOf(l)
                   /\ l.limit = 0 => RangeOf(l) = {}
  BY <1>2, <1>5, <1>6
<1>10. starts' = (starts \ {j}) \cup {} \cup P /\ Again(j, {})
  BY <1>3, <1>4 DEF Again
<1>11. IsFiniteSet(P)
  BY FS_Singleton
<1> HIDE DEF P
<1> QED BY <1>4, <1>7, <1>8, <1>9, <1>10, <1>11, ShareHands

LEMMA EnterHands ==
  ASSUME TypeOK, OfQuery, Hands, NEW j \in starts, Enter(j)
  PROVE  Hands'
<1>1. PICK left : starts' = (starts \ {j}) \cup left /\ Again(j, left)
  BY HandledLeaves DEF Enter
<1>2. UNCHANGED <<settings, enrollment, rows, orphaned>>
  BY DEF Enter
<1>3. j.found = RangeOf(j) /\ j.found \subseteq rows /\ j.found \subseteq Customers
  BY DEF Enter, Hands, Ranges, TypeOK
<1>4. unlocated' = unlocated
  BY <1>3 DEF Enter
<1>5. \A c \in Customers : c \notin j.found => entered'[c] = entered[c]
  BY DEF Enter, TypeOK
<1>6. \A c \in j.found :
        /\ entered'[c] \in {entered[c], entered[c] + 1}
        /\ ~settings.maxEnabled => entered'[c] = entered[c] + 1
  <2>1. CASE EntriesLimited
    BY <2>1 DEF Enter, EntriesLimited
  <2>2. CASE ~EntriesLimited
    BY <1>3, <2>2 DEF Enter
  <2> QED BY <2>1, <2>2
<1>7. \A k \in left : /\ RangeOf(k) = RangeOf(j)
                      /\ k.limit = j.limit /\ k.at = "queued"
  BY <1>1 DEF Again
<1>8. Sizes' /\ Copying' /\ Apart' /\ CronHands'
  BY <1>2 DEF Hands, Sizes, Copying, Apart, CronHands, Upto
<1>9. Committed'
  <2>1. ASSUME NEW e \in Enrollments, enrollment[e].point = "committed",
               NEW c \in enrollment[e].copied
        PROVE  entered'[c] = 0
    BY <1>3, <1>5, <2>1 DEF Hands, Committed, TypeOK, Handler
  <2> QED BY <1>1, <1>2, <1>7, <2>1 DEF Hands, Committed, RangeOf
<1>10. Ranges'
  <2>1. ASSUME NEW k \in starts'
        PROVE  /\ RangeOf(k) \subseteq rows
               /\ k.at = "found" => k.found = RangeOf(k)
               /\ k.limit = 0 => RangeOf(k) = {}
    BY <1>1, <1>7 DEF Hands, Ranges
  <2> QED BY <1>2, <2>1 DEF Ranges, RangeOf
<1>11. Counted'
  <2>1. IsFiniteSet(starts) /\ IsFiniteSet(starts \ {j})
    BY FS_Subset DEF Hands, Counted
  <2>2. IsFiniteSet(starts')
    BY <1>1, <2>1, AgainWeighs
  <2>3. ASSUME NEW c \in Customers
        PROVE  entered'[c] + Cardinality(Holding(c)') <= 1 + repeats'
    <3>1. Holding(c)' = {k \in starts' : c \in RangeOf(k)}
      BY DEF Holding, RangeOf
    <3>2. Holding(c) \subseteq starts /\ IsFiniteSet(Holding(c))
      BY <2>1, FS_Subset DEF Holding
    <3>3. Cardinality(Holding(c)) \in Nat /\ entered[c] \in Nat
      BY <3>2, FS_CardinalityType DEF TypeOK
    <3>4. entered[c] + Cardinality(Holding(c)) <= 1 + repeats
      BY DEF Hands, Counted
    <3>5. CASE c \notin RangeOf(j)
      <4>1. Holding(c)' \subseteq Holding(c)
        BY <1>1, <1>7, <3>1, <3>5 DEF Holding
      <4>2. /\ Cardinality(Holding(c)') <= Cardinality(Holding(c))
            /\ Cardinality(Holding(c)') \in Nat
        BY <3>2, <4>1, FS_Subset, FS_CardinalityType
      <4>3. repeats <= repeats' /\ repeats \in Nat /\ repeats' \in Nat
        BY <1>1, EnrollmentAssumption DEF Again, TypeOK
      <4>4. entered'[c] = entered[c]
        BY <1>3, <1>5, <3>5
      <4> QED BY <3>3, <3>4, <4>2, <4>3, <4>4
    <3>6. CASE c \in RangeOf(j)
      <4>1. j \in Holding(c)
        BY <3>6 DEF Holding
      <4> DEFINE rest == Holding(c) \ {j}
      <4>2. /\ IsFiniteSet(rest)
            /\ Cardinality(rest) = Cardinality(Holding(c)) - 1
        BY <3>2, <4>1, FS_RemoveElement
      <4>3. Holding(c)' \subseteq rest \cup left
        BY <1>1, <3>1 DEF Holding
      <4> HIDE DEF rest
      <4>4. /\ IsFiniteSet(rest \cup left)
            /\ Cardinality(rest \cup left) - Cardinality(rest) <= repeats' - repeats
            /\ repeats \in Nat /\ repeats' \in Nat
            /\ Cardinality(rest \cup left) \in Nat
        BY <1>1, <4>2, AgainWeighs
      <4>5. /\ Cardinality(Holding(c)') <= Cardinality(rest \cup left)
            /\ Cardinality(Holding(c)') \in Nat
        BY <4>3, <4>4, FS_Subset, FS_CardinalityType
      <4>6. entered'[c] \in {entered[c], entered[c] + 1}
        BY <1>3, <1>6, <3>6
      <4> QED BY <3>3, <3>4, <4>2, <4>4, <4>5, <4>6
    <3> QED BY <3>5, <3>6
  <2> QED BY <2>2, <2>3 DEF Counted
<1>12. EnteredRows' /\ Located'
  BY <1>2, <1>3, <1>4, <1>5 DEF Hands, EnteredRows, Located
<1>13. Accounted'
  <2>1. ASSUME ~settings.maxEnabled, NEW c \in rows
        PROVE  entered'[c] > 0 \/ Underway(c)' \/ c \in orphaned
    <3>1. c \in Customers /\ entered[c] \in Nat
      BY DEF TypeOK
    <3>2. CASE c \in j.found
      BY <1>6, <2>1, <3>1, <3>2
    <3>3. CASE c \notin j.found
      BY <1>1, <1>2, <1>3, <1>5, <2>1, <3>1, <3>3
      DEF Hands, Accounted, Underway, RangeOf
    <3> QED BY <3>2, <3>3
  <2> QED BY <1>2, <2>1 DEF Accounted
<1> QED BY <1>8, <1>9, <1>10, <1>11, <1>12, <1>13 DEF Hands

\* The range of a START job that is given up is orphaned.
LEMMA DropHands ==
  ASSUME TypeOK, Hands, NEW j \in starts, Drop(j)
  PROVE  Hands'
<1>1. UNCHANGED <<settings, enrollment, rows, entered, unlocated, repeats>>
  BY DEF Drop
<1>2. starts' = starts \ {j} /\ orphaned' = orphaned \cup RangeOf(j)
  BY DEF Drop, RangeOf
<1>3. Sizes' /\ Copying' /\ Apart' /\ CronHands'
  BY <1>1 DEF Hands, Sizes, Copying, Apart, CronHands, Upto
<1>4. Committed' /\ Ranges'
  BY <1>1, <1>2 DEF Hands, Committed, Ranges, RangeOf
<1>5. Counted'
  BY <1>1, <1>2, FewerCounted DEF Hands
<1>6. EnteredRows' /\ Located'
  BY <1>1 DEF Hands, EnteredRows, Located
<1>7. Accounted'
  BY <1>1, <1>2 DEF Hands, Accounted, Underway, RangeOf
<1> QED BY <1>3, <1>4, <1>5, <1>6, <1>7 DEF Hands

-----------------------------------------------------------------------------
(* Cron runs.                                                              *)

LEMMA CronCountHands ==
  ASSUME TypeOK, Hands, NEW k \in Crons, CronCount(k)
  PROVE  Hands'
<1>1. /\ enrollment'[k].point = "selected" /\ enrollment'[k].batch = 0
      /\ enrollment'[k].copied = {} /\ enrollment[k].point = "queued"
  BY DEF CronCount, Waiting, TypeOK
<1>2. \A f \in Runs : f # k => enrollment'[f] = enrollment[f]
  BY DEF CronCount, TypeOK
<1>3. UNCHANGED <<settings, rows, starts, entered, unlocated, orphaned, repeats>>
  BY DEF CronCount
<1>4. \A e \in Enrollments : e # k
  BY EnrollmentAssumption
<1>5. Sizes' /\ Copying' /\ Apart' /\ CronHands'
  BY <1>1, <1>2, <1>3, <1>4 DEF Hands, Sizes, Copying, Apart, CronHands, Upto
<1>6. Committed'
  BY <1>2, <1>3, <1>4 DEF Hands, Committed, RangeOf
<1>7. Ranges' /\ Counted'
  BY <1>3 DEF Hands, Ranges, Counted, Holding, RangeOf
<1>8. EnteredRows' /\ Located'
  BY <1>3 DEF Hands, EnteredRows, Located
<1>9. Accounted'
  BY <1>2, <1>3, <1>4 DEF Hands, Accounted, Underway
<1> QED BY <1>5, <1>6, <1>7, <1>8, <1>9 DEF Hands

LEMMA CronSaveHands ==
  ASSUME TypeOK, Hands, NEW k \in Crons, CronSave(k)
  PROVE  Hands'
<1>1. /\ enrollment'[k].point = "counted" /\ enrollment[k].point = "selected"
      /\ enrollment'[k].listing = enrollment[k].listing
      /\ enrollment'[k].batch = enrollment[k].batch
      /\ enrollment'[k].copied = enrollment[k].copied
      /\ enrollment[k].listing \in Listing
  BY DEF CronSave, TypeOK, Handler
<1>2. \A f \in Runs : f # k => enrollment'[f] = enrollment[f]
  BY DEF CronSave, TypeOK
<1>3. UNCHANGED <<settings, rows, starts, entered, unlocated, orphaned, repeats>>
  BY DEF CronSave
<1>4. \A e \in Enrollments : e # k
  BY EnrollmentAssumption
<1>5. enrollment[k].batch = 0 /\ enrollment[k].copied = {}
  BY <1>1 DEF Hands, CronHands
<1>6. Upto(enrollment[k].listing, 0 * PageSize) = {}
  BY <1>1, EmptyUpto
<1>7. Copying'
  BY <1>1, <1>2, <1>3, <1>5, <1>6 DEF Hands, Copying, Upto
<1>8. Sizes' /\ Apart' /\ CronHands'
  BY <1>1, <1>2, <1>3, <1>4, <1>5 DEF Hands, Sizes, Apart, CronHands
<1>9. Committed'
  BY <1>2, <1>3, <1>4 DEF Hands, Committed, RangeOf
<1>10. Ranges' /\ Counted'
  BY <1>3 DEF Hands, Ranges, Counted, Holding, RangeOf
<1>11. EnteredRows' /\ Located'
  BY <1>3 DEF Hands, EnteredRows, Located
<1>12. Accounted'
  BY <1>2, <1>3, <1>4 DEF Hands, Accounted, Underway
<1> QED BY <1>7, <1>8, <1>9, <1>10, <1>11, <1>12 DEF Hands

LEMMA CronCommitHands ==
  ASSUME TypeOK, Hands, NEW k \in Crons, CronCommit(k)
  PROVE  Hands'
<1>1. /\ enrollment'[k].point = "committed" /\ enrollment'[k].copied = {}
      /\ enrollment[k].point = "counted"
  BY DEF CronCommit, TypeOK, Handler
<1>2. \A f \in Runs : f # k => enrollment'[f] = enrollment[f]
  BY DEF CronCommit, TypeOK
<1>3. UNCHANGED <<settings, starts, entered, unlocated, repeats>>
  BY DEF CronCommit
<1>4. /\ rows' = rows \cup enrollment[k].copied
      /\ orphaned' = orphaned \cup enrollment[k].copied
  BY DEF CronCommit
<1>5. \A e \in Enrollments : e # k
  BY EnrollmentAssumption
<1>6. Sizes'
  BY <1>2, <1>3, <1>5 DEF Hands, Sizes
<1>7. Copying' /\ Apart' /\ CronHands'
  BY <1>1, <1>2, <1>4 DEF Hands, Copying, Apart, CronHands, Upto
<1>8. Committed'
  BY <1>2, <1>3, <1>4, <1>5 DEF Hands, Committed, RangeOf
<1>9. Ranges' /\ Counted'
  BY <1>3, <1>4 DEF Hands, Ranges, Counted, Holding, RangeOf
<1>10. EnteredRows' /\ Located'
  BY <1>3, <1>4 DEF Hands, EnteredRows, Located
<1>11. Accounted'
  BY <1>2, <1>3, <1>4, <1>5 DEF Hands, Accounted, Underway
<1> QED BY <1>6, <1>7, <1>8, <1>9, <1>10, <1>11 DEF Hands

LEMMA CronPublishHands ==
  ASSUME TypeOK, Hands, NEW k \in Crons, CronPublish(k)
  PROVE  Hands'
<1> DEFINE j0 == [listing |-> << >>, skip |-> 0, limit |-> enrollment[k].size,
                  copy |-> 0, found |-> {}, at |-> "queued"]
<1>1. enrollment'[k].point = "queued"
  BY DEF CronPublish, Waiting, TypeOK
<1>2. \A f \in Runs : f # k => enrollment'[f] = enrollment[f]
  BY DEF CronPublish, TypeOK
<1>3. UNCHANGED <<settings, rows, entered, unlocated, orphaned, repeats>>
  BY DEF CronPublish
<1>4. \A e \in Enrollments : e # k
  BY EnrollmentAssumption
<1>5. starts' \subseteq starts \cup {j0} /\ starts \subseteq starts'
  BY DEF CronPublish
<1>6. RangeOf(j0) = {} /\ j0.at = "queued"
  BY DEF RangeOf, Page
<1> HIDE DEF j0
<1>7. Sizes' /\ Copying' /\ Apart' /\ CronHands'
  BY <1>1, <1>2, <1>3, <1>4 DEF Hands, Sizes, Copying, Apart, CronHands, Upto
<1>8. Committed'
  <2>1. ASSUME NEW e \in Enrollments, enrollment[e].point = "committed",
               NEW j \in starts'
        PROVE  RangeOf(j) \cap enrollment[e].copied = {}
    BY <1>5, <1>6, <2>1 DEF Hands, Committed
  <2> QED BY <1>2, <1>3, <1>4, <2>1 DEF Hands, Committed, RangeOf
<1>9. Ranges' /\ Counted'
  <2>1. ASSUME NEW j \in starts'
        PROVE  /\ RangeOf(j) \subseteq rows
               /\ j.at = "found" => j.found = RangeOf(j)
               /\ j.limit = 0 => RangeOf(j) = {}
    BY <1>5, <1>6 DEF Hands, Ranges
  <2>2. Ranges'
    BY <1>3, <2>1 DEF Ranges, RangeOf
  <2>3. ASSUME starts' = starts PROVE Counted'
    BY <1>3, <2>3, FewerCounted DEF Hands
  <2>4. ASSUME starts' = starts \cup {j0} PROVE Counted'
    BY <1>3, <1>6, <2>4, MoreCounted DEF Hands
  <2> QED BY <1>5, <2>2, <2>3, <2>4
<1>10. EnteredRows' /\ Located'
  BY <1>3 DEF Hands, EnteredRows, Located
<1>11. Accounted'
  BY <1>2, <1>3, <1>4, <1>5 DEF Hands, Accounted, Underway
<1> QED BY <1>7, <1>8, <1>9, <1>10, <1>11 DEF Hands

LEMMA CronFailsHands ==
  ASSUME TypeOK, Hands, NEW k \in Crons, CronFails(k)
  PROVE  Hands'
<1>1. enrollment'[k].point = "queued"
  BY DEF CronFails, Waiting, TypeOK
<1>2. \A f \in Runs : f # k => enrollment'[f] = enrollment[f]
  BY DEF CronFails, TypeOK
<1>3. k \notin Enrollments
  BY EnrollmentAssumption
<1> QED BY <1>1, <1>2, <1>3, ReleaseHands DEF CronFails

-----------------------------------------------------------------------------
LEMMA HandsStep ==
  TypeOK /\ OfQuery /\ Hands /\ [Next]_vars => Hands'
<1> SUFFICES ASSUME TypeOK, OfQuery, Hands, [Next]_vars
             PROVE  Hands'
  OBVIOUS
<1>1. CASE AudienceChanges \/ TimeComes \/ UNCHANGED vars
  <2>1. UNCHANGED <<settings, enrollment, rows, starts, entered, unlocated,
                    orphaned, repeats>>
    BY <1>1 DEF AudienceChanges, TimeComes, vars
  <2>2. Sizes' /\ Copying' /\ Apart' /\ CronHands'
    BY <2>1 DEF Hands, Sizes, Copying, Apart, CronHands, Upto
  <2>3. Committed'
    BY <2>1 DEF Hands, Committed, RangeOf
  <2>4. Ranges' /\ Counted'
    BY <2>1 DEF Hands, Ranges, Counted, Holding, RangeOf
  <2>5. EnteredRows' /\ Located'
    BY <2>1 DEF Hands, EnteredRows, Located
  <2>6. Accounted'
    BY <2>1 DEF Hands, Accounted, Underway
  <2> QED BY <2>2, <2>3, <2>4, <2>5, <2>6 DEF Hands
<1>2. ASSUME NEW e \in Enrollments, Acknowledge(e) PROVE Hands'
  <2>1. /\ enrollment'[e].point = "done" /\ Orphans(e) = {}
        /\ \A f \in Runs : f # e => enrollment'[f] = enrollment[f]
    BY <1>2 DEF Acknowledge, Orphans, TypeOK, Handler
  <2> QED BY <1>2, <2>1, ReleaseHands DEF Acknowledge
<1>3. ASSUME NEW e \in Enrollments, Throws(e) PROVE Hands'
  <2>1. /\ enrollment'[e].point \in {"queued", "failed"}
        /\ \A f \in Runs : f # e => enrollment'[f] = enrollment[f]
    BY <1>3 DEF Throws, Retried, TypeOK, Handler
  <2> QED BY <1>3, <2>1, ReleaseHands DEF Throws
<1>4. ASSUME NEW e \in Enrollments, Dies(e) PROVE Hands'
  <2>1. /\ enrollment'[e].point = "queued"
        /\ \A f \in Runs : f # e => enrollment'[f] = enrollment[f]
    BY <1>4 DEF Dies, TypeOK, Handler
  <2> QED BY <1>4, <2>1, ReleaseHands DEF Dies
<1>5. ASSUME NEW j \in starts, Drop(j) PROVE Hands'
  BY <1>5, DropHands
<1>6. ASSUME NEW k \in Crons, EntryTiming(k) \/ CronFails(k) PROVE Hands'
  BY <1>6, CronCountHands, CronSaveHands, CopyPageHands, CronCommitHands,
     CronPublishHands, CronFailsHands
  DEF EntryTiming
<1>7. settings.jobs \subseteq Enrollments
  BY EnrollmentAssumption DEF TypeOK, Setting
<1> QED
  BY <1>1, <1>2, <1>3, <1>4, <1>5, <1>6, <1>7, CountHands, CopyPageHands,
     CommitHands, PublishHands, SplitHands, FindHands, EnterHands
  DEF Next, Enroll, Start, CopyThrows, Fails

-----------------------------------------------------------------------------
(* What the hands show.                                                    *)

LEMMA InitHands == Init => Hands
<1> SUFFICES ASSUME Init PROVE Hands
  OBVIOUS
<1>1. Counted
  <2>1. starts = {} /\ IsFiniteSet({}) /\ Cardinality({}) = 0
    BY FS_EmptySet DEF Init
  <2>2. \A c \in Customers : Holding(c) = {}
    BY <2>1 DEF Holding
  <2> QED BY <2>1, <2>2 DEF Init, Counted
<1> QED BY <1>1
        DEF Init, Waiting, Hands, Sizes, Copying, Committed, Apart, CronHands,
            Ranges, EnteredRows, Located, Accounted

\* The settings of a journey do not change once it is started.
LEMMA SettingsStep == [Next]_vars => settings' = settings
BY DEF Next, vars, AudienceChanges, Enroll, Count, CopyPage, CopyThrows, Throws,
       Commit, PublishStart, Acknowledge, Fails, Dies, TimeComes, EntryTiming,
       CronCount, CronSave, CronCommit, CronPublish, CronFails, Start, Split,
       Find, Enter, Drop

LEMMA HandsInvariant == Spec => [](TypeOK /\ (OfQuery => Hands))
<1>1. TypeOK /\ (OfQuery => Hands) /\ [Next]_vars => (OfQuery => Hands)'
  BY HandsStep, SettingsStep DEF OfQuery
<1>2. Init => (OfQuery => Hands)
  BY InitHands
<1> QED BY <1>1, <1>2, TypeInvariant, PTL DEF Spec

\* With a maximum of 0 entries nobody enters.
ShutInv ==
  settings.maxEnabled /\ MaxEntries = 0
    => unlocated = {} /\ \A c \in Customers : entered[c] = 0

LEMMA ShutInvariant == Spec => []ShutInv
<1>1. Init => ShutInv
  BY DEF Init, ShutInv
<1>2. TypeOK /\ ShutInv /\ [Next]_vars => ShutInv'
  <2> SUFFICES ASSUME TypeOK, ShutInv, [Next]_vars PROVE ShutInv'
    OBVIOUS
  <2>1. ASSUME NEW j \in starts, Enter(j) PROVE ShutInv'
    <3>1. Cardinality(rows) \in Nat
      BY EnrollmentAssumption, FS_Subset, FS_CardinalityType DEF TypeOK
    <3>2. settings.maxEnabled /\ MaxEntries = 0 => EntriesLimited
      BY <3>1 DEF EntriesLimited
    <3> QED BY <2>1, <3>2, SettingsStep DEF Enter, ShutInv
  <2>2. ASSUME ~(\E j \in starts : Enter(j)) PROVE UNCHANGED <<entered, unlocated>>
    BY <2>2
    DEF Next, vars, AudienceChanges, Enroll, Count, CopyPage, CopyThrows,
        Throws, Commit, PublishStart, Acknowledge, Fails, Dies, TimeComes,
        EntryTiming, CronCount, CronSave, CronCommit, CronPublish, CronFails,
        Start, Split, Find, Drop
  <2> QED BY <2>1, <2>2, SettingsStep DEF ShutInv
<1> QED BY <1>1, <1>2, TypeInvariant, PTL DEF Spec

LEMMA MaximumOf == TypeOK /\ settings.maxEnabled => MaxEntries = 0 \/ MaxEntries > 0
BY EnrollmentAssumption

\* The first step job of a customer of a query is queued once, and once more
\* for each START job that is delivered again, for every audience, batch size
\* and number of enrollments and cron runs, whatever fails or dies in them.
THEOREM EntersOnce == Spec => []EnteredOnce
<1>1. TypeOK /\ (OfQuery => Hands) /\ ShutInv => EnteredOnce
  <2> SUFFICES ASSUME TypeOK, OfQuery => Hands, ShutInv, settings.frozen,
                      NEW c \in Customers
               PROVE  entered[c] <= 1 + repeats
    BY DEF EnteredOnce
  <2>1. repeats \in Nat /\ entered[c] \in Nat
    BY EnrollmentAssumption DEF TypeOK
  <2>2. CASE OfQuery
    <3>1. IsFiniteSet(Holding(c))
      BY <2>2, FS_Subset DEF Hands, Counted, Holding
    <3>2. Cardinality(Holding(c)) \in Nat
      BY <3>1, FS_CardinalityType
    <3> QED BY <2>1, <2>2, <3>2 DEF Hands, Counted
  <2>3. CASE ~OfQuery
    BY <2>1, <2>3, MaximumOf DEF OfQuery, ShutInv
  <2> QED BY <2>2, <2>3
<1> QED BY <1>1, HandsInvariant, ShutInvariant, PTL

\* It always has a location to carry on.
THEOREM EntersWithRow == Spec => []EnteredWithRow
<1>1. TypeOK /\ (OfQuery => Hands) /\ ShutInv => EnteredWithRow
  BY MaximumOf DEF OfQuery, Hands, Located, ShutInv, EnteredWithRow
<1> QED BY <1>1, HandsInvariant, ShutInvariant, PTL

\* Where entries have no maximum, no locked row of a query is forgotten,
\* except those of an ENROLLMENT job that ended between its commit and its
\* publish, of a START job that was given up, and of cron runs.
THEOREM AccountsForRows == Spec => []RowsAccounted
<1>1. (OfQuery => Hands) => RowsAccounted
  BY DEF OfQuery, Hands, Accounted, RowsAccounted
<1> QED BY <1>1, HandsInvariant, PTL

-----------------------------------------------------------------------------
(* The maximum of entries.                                                 *)

(***************************************************************************)
(* Rows are counted when a batch enters, and who enters without one is     *)
(* not carried on: nothing is needed of the ranges, so that this holds of  *)
(* a live audience and of START jobs that are delivered again as well.     *)
(***************************************************************************)
RowOrNone == Entered \subseteq rows \cup unlocated

MaxInv == RowOrNone /\ EntriesWithinMax

LEMMA EnterWithinMax ==
  ASSUME TypeOK, MaxInv, NEW j \in starts, Enter(j)
  PROVE  MaxInv'
<1>1. UNCHANGED <<settings, rows>>
  BY DEF Enter
<1>2. CASE EntriesLimited
  BY <1>1, <1>2 DEF Enter, MaxInv, RowOrNone, EntriesWithinMax, Entered
<1>3. CASE ~EntriesLimited
  <2>1. /\ \A c \in Customers : c \notin j.found => entered'[c] = entered[c]
        /\ unlocated' = unlocated \cup (j.found \ rows)
    BY <1>3 DEF Enter
  <2>2. Entered' \subseteq rows \cup unlocated'
    BY <2>1 DEF MaxInv, RowOrNone, Entered
  <2>3. ASSUME settings.maxEnabled
        PROVE  Cardinality(Entered' \ unlocated') <= MaxEntries
    <3>1. IsFiniteSet(rows)
      BY EnrollmentAssumption, FS_Subset DEF TypeOK
    <3>2. Entered' \ unlocated' \subseteq rows
      BY <2>2
    <3>3. /\ IsFiniteSet(Entered' \ unlocated')
          /\ Cardinality(Entered' \ unlocated') <= Cardinality(rows)
      BY <3>1, <3>2, FS_Subset
    <3>4. /\ Cardinality(rows) \in Nat
          /\ Cardinality(Entered' \ unlocated') \in Nat
      BY <3>1, <3>3, FS_CardinalityType
    <3>5. ~(Cardinality(rows) >= MaxEntries)
      BY <1>3, <2>3 DEF EntriesLimited
    <3> QED BY <3>3, <3>4, <3>5, EnrollmentAssumption
  <2> QED BY <1>1, <2>2, <2>3 DEF MaxInv, RowOrNone, EntriesWithinMax
<1> QED BY <1>2, <1>3

\* No other step queues a first step job or takes a row away.
LEMMA MaxStep == TypeOK /\ MaxInv /\ [Next]_vars => MaxInv'
<1> SUFFICES ASSUME TypeOK, MaxInv, [Next]_vars,
                    ~(\E j \in starts : Enter(j))
             PROVE  MaxInv'
  BY EnterWithinMax
<1>1. UNCHANGED <<settings, entered, unlocated>> /\ rows \subseteq rows'
  BY DEF Next, vars, AudienceChanges, Enroll, Count, CopyPage, CopyThrows,
         Throws, Commit, PublishStart, Acknowledge, Fails, Dies, TimeComes,
         EntryTiming, CronCount, CronSave, CronCommit, CronPublish, CronFails,
         Start, Split, Find, Drop
<1> QED BY <1>1 DEF MaxInv, RowOrNone, EntriesWithinMax, Entered

LEMMA MaxInvariant == Spec => []MaxInv
<1>1. Init => MaxInv
  <2>1. Init => Entered = {}
    BY DEF Init, Entered
  <2>2. Cardinality({}) = 0 /\ {} \ unlocated = {}
    BY FS_EmptySet
  <2> QED BY <2>1, <2>2, EnrollmentAssumption
          DEF MaxInv, RowOrNone, EntriesWithinMax
<1> QED BY <1>1, MaxStep, TypeInvariant, PTL DEF Spec

\* No more customers enter with a row than the journey's maximum, for every
\* audience, live or frozen, and whatever is delivered again or given up.
THEOREM EntersWithinMaximum == Spec => []EntriesWithinMax
BY MaxInvariant, PTL DEF MaxInv

\* Of a query that is all customers that enter.
THEOREM QueryEntersWithinMaximum ==
  Spec => [](settings.frozen /\ settings.maxEnabled
               => Cardinality(Entered) <= MaxEntries)
<1>1. EntriesWithinMax /\ EnteredWithRow
        => (settings.frozen /\ settings.maxEnabled
              => Cardinality(Entered) <= MaxEntries)
  <2>1. Entered \ {} = Entered
    OBVIOUS
  <2> QED BY <2>1 DEF EntriesWithinMax, EnteredWithRow
<1> QED BY <1>1, EntersWithinMaximum, EntersWithRow, PTL
=============================================================================
