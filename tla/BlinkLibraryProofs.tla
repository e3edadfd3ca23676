------------------------- MODULE BlinkLibraryProofs --------------------------
(***************************************************************************)
(* Whatever is replugged while a fade looks for its device, for any number *)
(* of ports and devices: nothing but a blink(1) is opened, and the time in *)
(* the report is off by what taking the remainder by 255 makes of it.  If  *)
(* nothing is replugged, the device that is opened is the one whose serial *)
(* is least.                                                               *)
(*                                                                         *)
(* The last needs that sorting is possible, for any length: natural        *)
(* numbers have no induction rule that can be cited here, so EveryNatural  *)
(* makes one for sets, out of the least number that is not in the set.     *)
(***************************************************************************)
EXTENDS BlinkLibrary, FiniteSetTheorems, TLAPS

\* A path that was chosen is that of a blink(1), and so is what it opens,
\* although the device behind the port may be another one by then.
BlinkInv ==
  /\ pc = "opening" => path \in Paths /\ path.blink
  /\ handle # None => handle \in Blinks

\* A fade under way keeps its arguments, and the report is made from them.
ReportInv ==
  /\ pc # "idle" => fade \in Fades
  /\ written # None =>
       /\ written.fade.millis \in 0..MaxMillis
       /\ written.high = High(Dms(written.fade.millis))
       /\ written.low = Low(Dms(written.fade.millis))
-----------------------------------------------------------------------------
LEMMA BlinkStep ==
  ASSUME BlinkInv, [Next]_vars
  PROVE  BlinkInv'
<1> USE DEF BlinkInv
<1>1. CASE Enumerate
  BY <1>1 DEF Enumerate
<1>2. CASE Fade
  BY <1>2 DEF Fade
<1>3. CASE HidOpen
  <2>1. \A p \in BlinkPorts : PathAt(p) \in Paths /\ PathAt(p).blink
    BY DEF BlinkPorts, BlinkAt, PathAt, Paths
  <2> QED BY <1>3, <2>1 DEF HidOpen
<1>4. CASE HidOpenPath
  <2>1. \A p \in Ports : PathAt(p) = path => plugged[p] \in Blinks
    <3> SUFFICES ASSUME NEW p \in Ports, PathAt(p) = path
                 PROVE  plugged[p] \in Blinks
      OBVIOUS
    <3>1. path.blink
      BY <1>4 DEF HidOpenPath
    <3>2. PathAt(p).blink <=> BlinkAt(p)
      BY DEF PathAt
    <3> QED BY <3>1, <3>2 DEF BlinkAt
  <2> QED BY <1>4, <2>1 DEF HidOpenPath
<1>5. CASE Write
  BY <1>5 DEF Write
<1>6. CASE Replug
  BY <1>6 DEF Replug
<1>7. CASE UNCHANGED vars
  BY <1>7 DEF vars
<1> QED BY <1>1, <1>2, <1>3, <1>4, <1>5, <1>6, <1>7 DEF Next

\* hid_open_path matches vendor and product again with the location, so a
\* keyboard that took the port of a blink(1) in between is not opened.
THEOREM OnlyBlinksOpened == Spec => []OpenedIsBlink
<1>1. Init => BlinkInv
  BY DEF Init, BlinkInv
<1>2. BlinkInv /\ [Next]_vars => BlinkInv'
  BY BlinkStep
<1>3. BlinkInv => OpenedIsBlink
  BY DEF BlinkInv, OpenedIsBlink
<1> QED BY <1>1, <1>2, <1>3, PTL DEF Spec
-----------------------------------------------------------------------------
\* Hundredths of a second by 256 and by 255: up to 65535 milliseconds the two
\* quotients differ by one at most.
LEMMA HighAndLow ==
  ASSUME NEW dms \in Nat, dms <= 6553
  PROVE  /\ High(dms) = dms \div 256
         /\ \/ Low(dms) = (dms % 256) + (dms \div 256)
            \/ Low(dms) = (dms % 256) + (dms \div 256) - 255
         /\ dms < 255 => High(dms) = 0 /\ Low(dms) = dms
<1> DEFINE h == dms \div 256
           l == dms % 256
<1>1. /\ h \in Nat /\ h <= 25 /\ l \in Nat /\ l <= 255
      /\ dms = 256 * h + l
  OBVIOUS
<1>2. High(dms) = h
  BY <1>1 DEF High
<1>3. dms = 255 * h + (h + l) /\ h + l <= 280
  BY <1>1
<1>4. Low(dms) = IF h + l < 255 THEN h + l ELSE h + l - 255
  BY <1>1, <1>3 DEF Low
<1>5. dms < 255 => h = 0 /\ l = dms
  BY <1>1
<1> QED BY <1>1, <1>2, <1>4, <1>5

LEMMA TimeIsNear ==
  ASSUME NEW millis \in 0..MaxMillis
  PROVE  NearTime(millis, High(Dms(millis)), Low(Dms(millis)))
<1> DEFINE dms == Dms(millis)
<1>1. MaxMillis = 65535
  BY DEF MaxMillis
<1>2. dms \in Nat /\ dms <= 6553 /\ (millis < 2550 => dms < 255)
  <2>1. millis \in Nat /\ millis <= 65535
    BY <1>1
  <2> QED BY <2>1 DEF Dms
<1>3. /\ dms = 256 * (dms \div 256) + (dms % 256)
      /\ dms \div 256 \in Int /\ dms % 256 \in Int
  BY <1>2
<1> HIDE DEF dms
<1>4. High(dms) * 256 + Low(dms) - dms \in {dms \div 256, (dms \div 256) - 255}
  BY <1>2, <1>3, HighAndLow
<1>5. dms < 255 => FadeMillis(High(dms), Low(dms)) = 10 * dms
  <2> SUFFICES ASSUME dms < 255
               PROVE  FadeMillis(High(dms), Low(dms)) = 10 * dms
    OBVIOUS
  <2>1. High(dms) = 0 /\ Low(dms) = dms
    BY <1>2, HighAndLow
  <2>2. FadeMillis(0, dms) = 10 * dms
    BY <1>2 DEF FadeMillis
  <2> QED BY <2>1, <2>2
<1> QED BY <1>2, <1>4, <1>5 DEF NearTime, dms

LEMMA ReportStep ==
  ASSUME ReportInv, [Next]_vars
  PROVE  ReportInv'
<1> USE DEF ReportInv, High, Low, Dms
<1>1. CASE Enumerate
  BY <1>1 DEF Enumerate
<1>2. CASE Fade
  BY <1>2 DEF Fade
<1>3. CASE HidOpen
  BY <1>3 DEF HidOpen
<1>4. CASE HidOpenPath
  BY <1>4 DEF HidOpenPath
<1>5. CASE Write
  <2>1. fade.millis \in 0..MaxMillis
    BY <1>5, LibraryAssumption DEF Write, Fades
  <2>2. CASE UNCHANGED written
    BY <1>5, <2>2 DEF Write
  <2>3. CASE written' = ReportOf(handle, fade)
    <3>1. /\ written'.fade = fade
          /\ written'.high = High(Dms(fade.millis))
          /\ written'.low = Low(Dms(fade.millis))
      BY <2>3 DEF ReportOf
    <3> QED BY <1>5, <2>1, <3>1 DEF Write
  <2> QED BY <1>5, <2>2, <2>3 DEF Write
<1>6. CASE Replug
  BY <1>6 DEF Replug
<1>7. CASE UNCHANGED vars
  BY <1>7 DEF vars
<1> QED BY <1>1, <1>2, <1>3, <1>4, <1>5, <1>6, <1>7 DEF Next

\* The two bytes of msecs2dms, for every fade time a 16-bit argument can ask for.
THEOREM FadeTimeIsNear == Spec => []FadeTimeNear
<1>1. Init => ReportInv
  BY DEF Init, ReportInv
<1>2. ReportInv /\ [Next]_vars => ReportInv'
  BY ReportStep
<1>3. ReportInv => FadeTimeNear
  <2> SUFFICES ASSUME ReportInv, written # None
               PROVE  NearTime(written.fade.millis, written.high, written.low)
    BY DEF FadeTimeNear
  <2>1. written.fade.millis \in 0..MaxMillis
    BY DEF ReportInv
  <2>2. NearTime(written.fade.millis, High(Dms(written.fade.millis)),
                 Low(Dms(written.fade.millis)))
    BY <2>1, TimeIsNear
  <2>3. /\ written.high = High(Dms(written.fade.millis))
        /\ written.low = Low(Dms(written.fade.millis))
    BY DEF ReportInv
  <2> QED BY <2>2, <2>3
<1> QED BY <1>1, <1>2, <1>3, PTL DEF Spec
-----------------------------------------------------------------------------
(***************************************************************************)
(* Sorting.  That finitely many numbers have an ascending arrangement is   *)
(* shown by induction on their number, one inserted into the rest at a     *)
(* time; the induction itself is the least element of a set of naturals.   *)
(***************************************************************************)
LEMMA LeastNatural ==
  ASSUME NEW S \in SUBSET Nat, S # {}
  PROVE  \E n \in S : \A m \in S : n <= m
<1>1. PICK n \in S : \A m \in S : <<m, n>> \notin OpToRel(<, Nat)
  BY NatLessThanWellFounded, WFMin
<1>2. ASSUME NEW m \in S PROVE n <= m
  <2>1. m \in Nat /\ n \in Nat
    OBVIOUS
  <2>2. ~(m < n)
    BY <1>1, <2>1 DEF OpToRel
  <2> QED BY <2>1, <2>2
<1> QED BY <1>2

LEMMA EveryNatural ==
  ASSUME NEW S \in SUBSET Nat, 0 \in S, \A n \in S : n + 1 \in S
  PROVE  S = Nat
<1> SUFFICES ASSUME Nat \ S # {} PROVE FALSE
  OBVIOUS
<1>1. PICK n \in Nat \ S : \A m \in Nat \ S : n <= m
  BY LeastNatural
<1>2. n # 0 /\ n \in Nat /\ n \notin S
  BY <1>1
<1>3. PICK k \in Nat : n = k + 1 /\ ~(n <= k)
  <2>1. n - 1 \in Nat /\ n = (n - 1) + 1 /\ ~(n <= n - 1)
    BY <1>2
  <2> QED BY <2>1
<1>4. k \in S
  BY <1>1, <1>3
<1>5. k + 1 \in S
  BY <1>4
<1> QED BY <1>2, <1>3, <1>5, Zenon

\* p arranges the numbers s in ascending order.
Sorts(p, s, n) ==
  /\ p \in Surjection(1..n, 1..n)
  /\ \A i, j \in 1..n : i < j => s[p[i]] <= s[p[j]]

\* The place of one more number among those that are sorted, and where the
\* numbers are then.
LEMMA InsertOne ==
  ASSUME NEW n \in Nat, NEW s \in [1..(n + 1) -> Nat], NEW p, Sorts(p, s, n)
  PROVE  \E q : Sorts(q, s, n + 1)
<1>1. /\ p \in [1..n -> 1..n]
      /\ \A k \in 1..n : \E i \in 1..n : p[i] = k
      /\ \A i, j \in 1..n : i < j => s[p[i]] <= s[p[j]]
  BY DEF Sorts, Surjection
<1> DEFINE Room == {i \in 1..(n + 1) : i = n + 1 \/ s[n + 1] < s[p[i]]}
<1>2. PICK j \in Room : \A i \in Room : j <= i
  <2>1. Room \in SUBSET Nat /\ n + 1 \in Room
    OBVIOUS
  <2> HIDE DEF Room
  <2> QED BY <2>1, LeastNatural
<1>3. j \in 1..(n + 1) /\ (j = n + 1 \/ s[n + 1] < s[p[j]])
  BY <1>2
<1>4. \A i \in 1..(n + 1) : i < j => i \in 1..n /\ ~(s[n + 1] < s[p[i]])
  <2> SUFFICES ASSUME NEW i \in 1..(n + 1), i < j
               PROVE  i \in 1..n /\ ~(s[n + 1] < s[p[i]])
    OBVIOUS
  <2>1. i # n + 1 /\ i \in 1..n
    BY <1>3
  <2>2. i \notin Room
    BY <1>2, <1>3
  <2> QED BY <2>1, <2>2
<1>5. \A i \in 1..n : p[i] \in 1..n /\ p[i] \in 1..(n + 1) /\ s[p[i]] \in Nat
  <2> SUFFICES ASSUME NEW i \in 1..n
               PROVE  p[i] \in 1..n /\ p[i] \in 1..(n + 1) /\ s[p[i]] \in Nat
    OBVIOUS
  <2>1. p[i] \in 1..n
    BY <1>1
  <2>2. p[i] \in 1..(n + 1)
    BY <2>1
  <2> QED BY <2>1, <2>2
<1>6. s[n + 1] \in Nat
  OBVIOUS
<1> HIDE DEF Room
<1> DEFINE q == [i \in 1..(n + 1) |-> IF i < j THEN p[i] ELSE IF i = j THEN n + 1 ELSE p[i - 1]]
<1>7. \A i \in 1..(n + 1) :
        /\ i < j => i \in 1..n /\ q[i] = p[i]
        /\ i = j => q[i] = n + 1
        /\ i > j => i - 1 \in 1..n /\ q[i] = p[i - 1]
  BY <1>3, <1>4
<1>8. q \in [1..(n + 1) -> 1..(n + 1)]
  <2>1. \A i \in 1..(n + 1) : q[i] \in 1..(n + 1)
    <3> SUFFICES ASSUME NEW i \in 1..(n + 1) PROVE q[i] \in 1..(n + 1)
      OBVIOUS
    <3> HIDE DEF q
    <3>1. i < j \/ i = j \/ i > j
      BY <1>3
    <3> QED BY <1>5, <1>7, <3>1
  <2> QED BY <2>1
<1> HIDE DEF q
<1>9. ASSUME NEW k \in 1..(n + 1)
      PROVE  \E i \in 1..(n + 1) : q[i] = k
  <2>1. CASE k = n + 1
    BY <1>3, <1>7, <2>1
  <2>2. CASE k # n + 1
    <3>1. k \in 1..n
      BY <2>2
    <3>2. PICK i \in 1..n : p[i] = k
      BY <1>1, <3>1
    <3>3. CASE i < j
      <4>1. i \in 1..(n + 1)
        OBVIOUS
      <4> QED BY <1>7, <3>2, <3>3, <4>1
    <3>4. CASE i >= j
      <4>1. i + 1 \in 1..(n + 1) /\ i + 1 > j /\ (i + 1) - 1 = i
        BY <1>3, <3>4
      <4> QED BY <1>7, <3>2, <4>1
    <3> QED BY <1>3, <3>3, <3>4
  <2> QED BY <2>1, <2>2
<1>10. \A i \in 1..n : i >= j => s[n + 1] <= s[p[i]]
  <2> SUFFICES ASSUME NEW i \in 1..n, i >= j PROVE s[n + 1] <= s[p[i]]
    OBVIOUS
  <2>1. j \in 1..n /\ s[n + 1] < s[p[j]]
    BY <1>3
  <2>2. s[p[j]] <= s[p[i]]
    <3>1. CASE i = j
      BY <1>5, <3>1
    <3>2. CASE j < i
      BY <1>1, <2>1, <3>2
    <3> QED BY <1>3, <3>1, <3>2
  <2> QED BY <1>5, <1>6, <2>1, <2>2
<1>11. \A i \in 1..n : i < j => s[p[i]] <= s[n + 1]
  <2> SUFFICES ASSUME NEW i \in 1..n, i < j PROVE s[p[i]] <= s[n + 1]
    OBVIOUS
  <2>1. i \in 1..(n + 1)
    OBVIOUS
  <2>2. ~(s[n + 1] < s[p[i]])
    BY <1>4, <2>1
  <2> QED BY <1>5, <1>6, <2>2
<1>12. ASSUME NEW a \in 1..(n + 1), NEW b \in 1..(n + 1), a < b
       PROVE  s[q[a]] <= s[q[b]]
  <2>1. CASE b < j
    <3>1. a < j /\ a \in 1..n /\ b \in 1..n
      BY <1>3, <1>12, <2>1
    <3>2. q[a] = p[a] /\ q[b] = p[b]
      BY <1>7, <2>1, <3>1
    <3> QED BY <1>1, <1>12, <3>1, <3>2
  <2>2. CASE b = j
    BY <1>3, <1>7, <1>11, <1>12, <2>2
  <2>3. CASE b > j
    <3>1. b - 1 \in 1..n /\ q[b] = p[b - 1] /\ b - 1 >= j
      BY <1>3, <1>7, <2>3
    <3>2. CASE a < j
      <4>1. a \in 1..n /\ q[a] = p[a] /\ a < b - 1
        BY <1>3, <1>7, <3>1, <3>2
      <4> QED BY <1>1, <3>1, <4>1
    <3>3. CASE a = j
      BY <1>7, <1>10, <3>1, <3>3
    <3>4. CASE a > j
      <4>1. a - 1 \in 1..n /\ q[a] = p[a - 1] /\ a - 1 < b - 1
        BY <1>7, <1>12, <3>4
      <4> QED BY <1>1, <3>1, <4>1
    <3> QED BY <1>3, <3>2, <3>3, <3>4
  <2> QED BY <1>3, <2>1, <2>2, <2>3
<1>13. Sorts(q, s, n + 1)
  BY <1>8, <1>9, <1>12 DEF Sorts, Surjection
<1> QED BY <1>13

LEMMA SomeSort ==
  ASSUME NEW n \in Nat, NEW s \in [1..n -> Nat]
  PROVE  \E p : Sorts(p, s, n)
<1> DEFINE Sortable == {k \in Nat : \A t \in [1..k -> Nat] : \E p : Sorts(p, t, k)}
<1>1. 0 \in Sortable
  <2>1. ASSUME NEW t PROVE Sorts([i \in 1..0 |-> i], t, 0)
    BY DEF Sorts, Surjection
  <2> QED BY <2>1
<1>2. ASSUME NEW k \in Sortable PROVE k + 1 \in Sortable
  <2> SUFFICES ASSUME NEW t \in [1..(k + 1) -> Nat]
               PROVE  \E p : Sorts(p, t, k + 1)
    BY DEF Sorts
  <2> DEFINE u == [i \in 1..k |-> t[i]]
  <2>1. k \in Nat /\ u \in [1..k -> Nat] /\ \A i \in 1..k : u[i] = t[i]
    OBVIOUS
  <2>2. PICK p : Sorts(p, u, k)
    BY <2>1
  <2>3. p \in [1..k -> 1..k]
    BY <2>2 DEF Sorts, Surjection
  <2>4. Sorts(p, t, k)
    BY <2>1, <2>2, <2>3 DEF Sorts
  <2> QED BY <2>1, <2>4, InsertOne
<1>3. Sortable \in SUBSET Nat
  OBVIOUS
<1> HIDE DEF Sortable
<1>4. Sortable = Nat
  BY <1>1, <1>2, <1>3, EveryNatural
<1> USE DEF Sortable
<1> QED BY <1>4

\* What Sorted returns: the same numbers, the least of them first.
LEMMA SortedProperties ==
  ASSUME NEW n \in Nat, NEW s \in [1..n -> Nat]
  PROVE  /\ Sorted(s) \in [1..n -> Nat]
         /\ n > 0 => /\ \A k \in 1..n : Sorted(s)[1] <= s[k]
                     /\ \E k \in 1..n : Sorted(s)[1] = s[k]
<1>1. PICK p : Sorts(p, s, n)
  BY SomeSort
<1> DEFINE t == [i \in 1..n |-> s[p[i]]]
<1>2. t \in Arrangements(s) /\ Ascending(t)
  <2>1. DOMAIN s = 1..n /\ p \in Surjection(1..n, 1..n)
    BY <1>1 DEF Sorts
  <2>2. t \in Arrangements(s)
    BY <2>1 DEF Arrangements
  <2> QED BY <1>1, <2>2 DEF Ascending, Sorts
<1>3. Sorted(s) \in Arrangements(s) /\ Ascending(Sorted(s))
  BY <1>2 DEF Sorted
<1>4. PICK q \in Surjection(1..n, 1..n) : Sorted(s) = [i \in 1..n |-> s[q[i]]]
  <2>1. DOMAIN s = 1..n
    OBVIOUS
  <2> QED BY <1>3, <2>1 DEF Arrangements
<1>5. q \in [1..n -> 1..n] /\ \A k \in 1..n : \E i \in 1..n : q[i] = k
  BY DEF Surjection
<1>6. Sorted(s) \in [1..n -> Nat]
  BY <1>4, <1>5
<1>7. ASSUME n > 0, NEW k \in 1..n PROVE Sorted(s)[1] <= s[k]
  <2>1. PICK i \in 1..n : q[i] = k
    BY <1>5
  <2>2. Sorted(s)[i] = s[k] /\ 1 \in 1..n
    BY <1>4, <1>7, <2>1
  <2>3. CASE i = 1
    BY <1>6, <2>2, <2>3
  <2>4. CASE i # 1
    <3>1. DOMAIN Sorted(s) = 1..n /\ 1 < i
      BY <1>6, <2>4
    <3>2. Sorted(s)[1] <= Sorted(s)[i]
      BY <1>3, <2>2, <3>1 DEF Ascending
    <3> QED BY <2>2, <3>2
  <2> QED BY <2>3, <2>4
<1>8. ASSUME n > 0 PROVE \E k \in 1..n : Sorted(s)[1] = s[k]
  BY <1>4, <1>5, <1>8
<1> QED BY <1>6, <1>7, <1>8
-----------------------------------------------------------------------------
(***************************************************************************)
(* Which device is first.                                                  *)
(***************************************************************************)
\* SetToSeqs lists every element.
LEMMA EveryoneListed ==
  ASSUME NEW S, IsFiniteSet(S), NEW f \in SetToSeqs(S)
  PROVE  /\ Cardinality(S) \in Nat
         /\ f \in [1..Cardinality(S) -> S]
         /\ \A x \in S : \E i \in 1..Cardinality(S) : f[i] = x
<1> DEFINE n == Cardinality(S)
<1>1. n \in Nat
  BY FS_CardinalityType
<1>2. f \in [1..n -> S] /\ \A i, j \in 1..n : i # j => f[i] # f[j]
  BY DEF SetToSeqs
<1>3. f \in Injection(1..n, S)
  <2>1. IsInjective(f)
    BY <1>2 DEF IsInjective
  <2> QED BY <1>2, <2>1 DEF Injection
<1>4. Cardinality(1..n) = n
  <2>1. 1 \in Int /\ n \in Int /\ (IF 1 > n THEN 0 ELSE n - 1 + 1) = n
    BY <1>1
  <2> HIDE DEF n
  <2>2. Cardinality(1..n) = IF 1 > n THEN 0 ELSE n - 1 + 1
    BY <2>1, FS_Interval
  <2> QED BY <2>1, <2>2
<1>5. f \in Surjection(1..n, S)
  BY <1>3, <1>4, FS_Injection
<1> QED BY <1>1, <1>2, <1>5 DEF Surjection

Plugged == plugged \in [Ports -> Devices \cup {None}]

\* s is the least serial number that is plugged in.
Least(s) ==
  /\ \A p \in BlinkPorts : s <= SerialAt(p)
  /\ BlinkPorts # {} => \E p \in BlinkPorts : s = SerialAt(p)

LEMMA SerialTyped ==
  ASSUME Plugged, NEW p \in BlinkPorts
  PROVE  SerialAt(p) \in Nat
<1>1. p \in Ports /\ plugged[p] \in Devices
  BY LibraryAssumption DEF BlinkPorts, BlinkAt
<1> QED BY <1>1, LibraryAssumption DEF SerialAt

\* Enumerating leaves the least serial number in the first place, whatever was
\* there, and as many as there are devices, which fit.
LEMMA EnumerateSorts ==
  ASSUME Plugged, serials \in [1..PathMax -> Nat], Enumerate
  PROVE  /\ serials' \in [1..PathMax -> Nat] /\ count' \in 0..PathMax
         /\ Least(serials'[1])
<1>1. PICK ports \in SetToSeqs(BlinkPorts) :
        LET found == [i \in DOMAIN ports |-> SerialAt(ports[i])]
        IN  serials' = SortedSerials(found) /\ count' = Len(found)
  BY DEF Enumerate
<1> DEFINE n == Cardinality(BlinkPorts)
           found == [i \in DOMAIN ports |-> SerialAt(ports[i])]
<1>2. IsFiniteSet(BlinkPorts) /\ n <= Cardinality(Ports) /\ Cardinality(Ports) <= PathMax
  <2>1. BlinkPorts \in SUBSET Ports
    BY DEF BlinkPorts
  <2> QED BY <2>1, FS_Subset, LibraryAssumption
<1>3. /\ n \in Nat /\ ports \in [1..n -> BlinkPorts]
      /\ \A p \in BlinkPorts : \E i \in 1..n : ports[i] = p
  BY <1>2, EveryoneListed
<1>4. PathMax \in Nat /\ Cardinality(Ports) \in Nat /\ n <= PathMax
  <2>1. PathMax \in Nat /\ Cardinality(Ports) \in Nat
    BY FS_CardinalityType, LibraryAssumption
  <2> QED BY <1>2, <1>3, <2>1
<1> HIDE DEF n
<1>5. /\ found \in [1..n -> Nat] /\ DOMAIN found = 1..n
      /\ \A i \in 1..n : found[i] = SerialAt(ports[i])
  BY <1>3, SerialTyped
<1> HIDE DEF found
<1>6. Len(found) = n
  BY <1>3, <1>5
<1>7. /\ Sorted(found) \in [1..n -> Nat]
      /\ n > 0 => /\ \A k \in 1..n : Sorted(found)[1] <= found[k]
                  /\ \E k \in 1..n : Sorted(found)[1] = found[k]
  BY <1>3, <1>5, SortedProperties
<1>8. serials' = [i \in 1..PathMax |-> IF i <= n THEN Sorted(found)[i] ELSE serials[i]]
  BY <1>1, <1>6 DEF SortedSerials, found
<1>9. serials' \in [1..PathMax -> Nat]
  <2>1. \A i \in 1..PathMax : (IF i <= n THEN Sorted(found)[i] ELSE serials[i]) \in Nat
    BY <1>3, <1>7
  <2> QED BY <1>8, <2>1
<1>10. count' \in 0..PathMax
  BY <1>1, <1>3, <1>4, <1>6 DEF found
<1>11. CASE BlinkPorts = {}
  BY <1>9, <1>10, <1>11 DEF Least
<1>12. CASE BlinkPorts # {}
  <2>1. n > 0 /\ 1 \in 1..n /\ 1 \in 1..PathMax
    BY <1>3, <1>4, <1>12
  <2>2. serials'[1] = Sorted(found)[1]
    BY <1>8, <2>1
  <2>3. \A p \in BlinkPorts : serials'[1] <= SerialAt(p)
    BY <1>3, <1>5, <1>7, <2>1, <2>2
  <2>4. \E p \in BlinkPorts : serials'[1] = SerialAt(p)
    BY <1>3, <1>5, <1>7, <2>1, <2>2
  <2> QED BY <1>9, <1>10, <2>3, <2>4 DEF Least
<1> QED BY <1>11, <1>12

\* What a fade under way goes by: the path of a blink(1), and then the blink(1).
FadeTyped ==
  /\ pc = "opening" => path \in Paths /\ path.blink
  /\ pc = "open" => handle \in Blinks
  /\ pc # "idle" => fade \in Fades

\* The caches and the devices, and what is on its way from them to a report.
LibraryTypes == TypeOK /\ FadeTyped

LEMMA DegammaFits ==
  ASSUME NEW n \in 0..255
  PROVE  Degamma(n) \in 0..255
<1> DEFINE k == n \div 32
           m == n % 32
<1>1. k \in 0..7 /\ m \in 0..31
  OBVIOUS
<1> HIDE DEF k, m
<1>2. Degamma(n) = (<<1, 2, 4, 8, 16, 32, 64, 128>>[k + 1] - 1)
                   + (<<1, 2, 4, 8, 16, 32, 64, 128>>[k + 1] * (m + 1) + 15) \div 32
  BY DEF Degamma, Scale, Octave, k, m
<1>3. CASE k = 0
  <2>1. Degamma(n) = (1 - 1) + (1 * (m + 1) + 15) \div 32
    BY <1>2, <1>3
  <2> QED BY <1>1, <2>1
<1>4. CASE k = 1
  <2>1. Degamma(n) = (2 - 1) + (2 * (m + 1) + 15) \div 32
    BY <1>2, <1>4
  <2> QED BY <1>1, <2>1
<1>5. CASE k = 2
  <2>1. Degamma(n) = (4 - 1) + (4 * (m + 1) + 15) \div 32
    BY <1>2, <1>5
  <2> QED BY <1>1, <2>1
<1>6. CASE k = 3
  <2>1. Degamma(n) = (8 - 1) + (8 * (m + 1) + 15) \div 32
    BY <1>2, <1>6
  <2> QED BY <1>1, <2>1
<1>7. CASE k = 4
  <2>1. Degamma(n) = (16 - 1) + (16 * (m + 1) + 15) \div 32
    BY <1>2, <1>7
  <2> QED BY <1>1, <2>1
<1>8. CASE k = 5
  <2>1. Degamma(n) = (32 - 1) + (32 * (m + 1) + 15) \div 32
    BY <1>2, <1>8
  <2> QED BY <1>1, <2>1
<1>9. CASE k = 6
  <2>1. Degamma(n) = (64 - 1) + (64 * (m + 1) + 15) \div 32
    BY <1>2, <1>9
  <2> QED BY <1>1, <2>1
<1>10. CASE k = 7
  <2>1. Degamma(n) = (128 - 1) + (128 * (m + 1) + 15) \div 32
    BY <1>2, <1>10
  <2> QED BY <1>1, <2>1
<1> QED BY <1>1, <1>3, <1>4, <1>5, <1>6, <1>7, <1>8, <1>9, <1>10

LEMMA ReportTyped ==
  ASSUME NEW d \in Blinks, NEW f \in Fades
  PROVE  ReportOf(d, f) \in Report
<1>1. f.millis \in Nat /\ f.level \in 0..255
  <2>1. f.millis \in Millis /\ f.level \in Levels
    BY DEF Fades
  <2>2. f.millis \in 0..MaxMillis /\ f.level \in 0..255
    BY <2>1, LibraryAssumption, Zenon
  <2> QED BY <2>2
<1>2. Dms(f.millis) \in Nat
  BY <1>1 DEF Dms
<1>3. High(Dms(f.millis)) \in 0..255 /\ Low(Dms(f.millis)) \in 0..255
  BY <1>2 DEF High, Low
<1>4. Degamma(f.level) \in 0..255
  BY <1>1, DegammaFits
<1> QED BY <1>3, <1>4, Zenon DEF ReportOf, Report

LEMMA LibraryTypesInit == Init => LibraryTypes
<1> SUFFICES ASSUME Init PROVE LibraryTypes
  OBVIOUS
<1>1. PathMax \in Nat
  BY LibraryAssumption, Zenon
<1>2. serials \in [1..PathMax -> Nat] /\ count \in 0..PathMax
  BY <1>1 DEF Init
<1>3. plugged \in [Ports -> Devices \cup {None}]
  BY DEF Init
<1>4. /\ pc = "idle" /\ fade = None /\ path = None /\ handle = None
      /\ written = None /\ undisturbed \in BOOLEAN
  BY DEF Init
<1> QED BY <1>2, <1>3, <1>4 DEF LibraryTypes, TypeOK, FadeTyped

LEMMA LibraryTypesStep ==
  ASSUME LibraryTypes, [Next]_vars
  PROVE  LibraryTypes'
<1> USE DEF LibraryTypes, TypeOK, FadeTyped
<1>1. CASE Enumerate
  <2>1. serials' \in [1..PathMax -> Nat] /\ count' \in 0..PathMax
    BY <1>1, EnumerateSorts DEF Plugged
  <2>2. undisturbed' \in BOOLEAN
    BY <1>1 DEF Enumerate
  <2> QED BY <1>1, <2>1, <2>2 DEF Enumerate
<1>2. CASE Fade
  BY <1>2 DEF Fade
<1>3. CASE HidOpen
  <2>1. \A p \in BlinkPorts : PathAt(p) \in Paths /\ PathAt(p).blink
    BY DEF BlinkPorts, BlinkAt, PathAt, Paths
  <2> QED BY <1>3, <2>1 DEF HidOpen
<1>4. CASE HidOpenPath
  <2>1. \A p \in Ports : PathAt(p) = path => plugged[p] \in Blinks
    <3> SUFFICES ASSUME NEW p \in Ports, PathAt(p) = path
                 PROVE  plugged[p] \in Blinks
      OBVIOUS
    <3>1. path.blink
      BY <1>4 DEF HidOpenPath
    <3>2. PathAt(p).blink <=> BlinkAt(p)
      BY DEF PathAt
    <3> QED BY <3>1, <3>2 DEF BlinkAt
  <2>2. Blinks \subseteq Devices
    BY LibraryAssumption
  <2> QED BY <1>4, <2>1, <2>2 DEF HidOpenPath
<1>5. CASE Write
  <2>1. ReportOf(handle, fade) \in Report
    BY <1>5, ReportTyped DEF Write
  <2>2. written' \in Report \cup {None}
    BY <1>5, <2>1 DEF Write
  <2> QED BY <1>5, <2>2 DEF Write
<1>6. CASE Replug
  BY <1>6 DEF Replug
<1>7. CASE UNCHANGED vars
  BY <1>7 DEF vars
<1> QED BY <1>1, <1>2, <1>3, <1>4, <1>5, <1>6, <1>7 DEF Next

\* The cache holds serial numbers and no more of them than there is room for,
\* a path is that of a port, and a report goes to a blink(1) with every part of
\* it, the corrected colour included, in one byte.
THEOREM LibraryTyped == Spec => []TypeOK
<1>1. LibraryTypes => TypeOK
  BY DEF LibraryTypes
<1> QED BY <1>1, LibraryTypesInit, LibraryTypesStep, PTL DEF Spec
-----------------------------------------------------------------------------
\* Since the devices were listed, none has come or gone: the first serial in
\* the cache is the least, and the fade goes by a device that has it.
FirstInv ==
  undisturbed =>
    /\ Least(serials[1])
    /\ pc = "opening" => \E p \in BlinkPorts : path = PathAt(p) /\ SerialAt(p) = serials[1]
    /\ pc = "open" => Serial[handle] = serials[1]

LEMMA PathTellsPort ==
  ASSUME NEW p, NEW q, PathAt(p) = PathAt(q)
  PROVE  p = q
<1>1. PathAt(p).port = p /\ PathAt(q).port = q
  BY DEF PathAt
<1> QED BY <1>1

\* What Least and the fade say depends on the devices alone.
LEMMA FirstKept ==
  ASSUME FirstInv, plugged' = plugged, serials' = serials,
         undisturbed' = undisturbed,
         pc' = "opening" => pc = "opening" /\ path' = path,
         pc' = "open" => pc = "open" /\ handle' = handle
  PROVE  FirstInv'
  BY DEF FirstInv, Least, BlinkPorts, BlinkAt, SerialAt, PathAt

LEMMA FirstStep ==
  ASSUME LibraryTypes, FirstInv, [Next]_vars
  PROVE  FirstInv'
<1> USE DEF LibraryTypes, TypeOK
<1>1. CASE Enumerate
  <2>1. Least(serials'[1])
    BY <1>1, EnumerateSorts DEF Plugged
  <2>2. /\ pc' = pc /\ path' = path /\ plugged' = plugged
        /\ pc # "open" /\ (pc = "opening" => undisturbed' = undisturbed)
    BY <1>1 DEF Enumerate
  <2>3. Least(serials[1])'
    BY <2>1, <2>2 DEF Least, BlinkPorts, BlinkAt, SerialAt
  <2>4. ASSUME pc = "opening", undisturbed
        PROVE  \E p \in BlinkPorts : path = PathAt(p) /\ SerialAt(p) = serials'[1]
    <3>1. PICK p \in BlinkPorts : path = PathAt(p) /\ SerialAt(p) = serials[1]
      BY <2>4 DEF FirstInv
    <3>2. PICK q \in BlinkPorts : serials'[1] = SerialAt(q)
      BY <2>1 DEF Least
    <3>3. serials'[1] <= SerialAt(p) /\ serials[1] <= SerialAt(q)
      BY <2>1, <2>4 DEF Least, FirstInv
    <3>4. SerialAt(p) \in Nat /\ SerialAt(q) \in Nat
      BY SerialTyped DEF Plugged
    <3> QED BY <3>1, <3>2, <3>3, <3>4
  <2>5. pc' = "opening" /\ undisturbed' =>
          (\E p \in BlinkPorts : path = PathAt(p) /\ SerialAt(p) = serials[1])'
    BY <2>2, <2>4 DEF BlinkPorts, BlinkAt, SerialAt, PathAt
  <2> QED BY <2>2, <2>3, <2>5 DEF FirstInv
<1>2. CASE Fade
  BY <1>2, FirstKept DEF Fade
<1>3. CASE HidOpen
  <2>1. CASE pc' = "idle"
    BY <1>3, <2>1, FirstKept DEF HidOpen
  <2>2. CASE pc' = "opening"
    <3>1. PICK p \in BlinkPorts : SerialAt(p) = serials[1] /\ path' = PathAt(p)
      BY <1>3, <2>2 DEF HidOpen
    <3>2. plugged' = plugged /\ serials' = serials /\ undisturbed' = undisturbed
      BY <1>3 DEF HidOpen
    <3>3. undisturbed' => Least(serials[1])'
      BY <3>2 DEF FirstInv, Least, BlinkPorts, BlinkAt, SerialAt
    <3>4. (\E q \in BlinkPorts : path = PathAt(q) /\ SerialAt(q) = serials[1])'
      BY <3>1, <3>2 DEF BlinkPorts, BlinkAt, SerialAt, PathAt
    <3> QED BY <2>2, <3>3, <3>4 DEF FirstInv
  <2> QED BY <1>3, <2>1, <2>2 DEF HidOpen
<1>4. CASE HidOpenPath
  <2>1. CASE pc' = "idle"
    BY <1>4, <2>1, FirstKept DEF HidOpenPath
  <2>2. CASE pc' = "open"
    <3>1. PICK p \in Ports : PathAt(p) = path /\ handle' = plugged[p]
      BY <1>4, <2>2 DEF HidOpenPath
    <3>2. /\ plugged' = plugged /\ serials' = serials
          /\ undisturbed' = undisturbed /\ pc = "opening"
      BY <1>4 DEF HidOpenPath
    <3>3. undisturbed => Serial[handle'] = serials[1]
      <4> SUFFICES ASSUME undisturbed PROVE Serial[handle'] = serials[1]
        OBVIOUS
      <4>1. PICK q \in BlinkPorts : path = PathAt(q) /\ SerialAt(q) = serials[1]
        BY <3>2 DEF FirstInv
      <4>2. p = q
        BY <3>1, <4>1, PathTellsPort
      <4> QED BY <3>1, <4>1, <4>2 DEF SerialAt
    <3>4. undisturbed' => Least(serials[1])'
      BY <3>2 DEF FirstInv, Least, BlinkPorts, BlinkAt, SerialAt
    <3> QED BY <2>2, <3>2, <3>3, <3>4 DEF FirstInv
  <2> QED BY <1>4, <2>1, <2>2 DEF HidOpenPath
<1>5. CASE Write
  BY <1>5, FirstKept DEF Write
<1>6. CASE Replug
  BY <1>6 DEF Replug, FirstInv
<1>7. CASE UNCHANGED vars
  BY <1>7, FirstKept DEF vars
<1> QED BY <1>1, <1>2, <1>3, <1>4, <1>5, <1>6, <1>7 DEF Next

\* blink1_openById(0) opens the blink(1) with the least serial number, in
\* whatever order the devices were listed, and also if a notice has them
\* enumerated again inside the fade.
THEOREM FirstIsOpened == Spec => []OpenedIsFirst
<1>1. Init => FirstInv
  BY DEF Init, FirstInv
<1>2. FirstInv => OpenedIsFirst
  BY DEF FirstInv, OpenedIsFirst, Least
<1> QED BY <1>1, <1>2, LibraryTypesInit, LibraryTypesStep, FirstStep, PTL DEF Spec
=============================================================================
