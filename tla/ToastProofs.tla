---------------------------- MODULE ToastProofs ----------------------------
(***************************************************************************)
(* Theorems about ToastLayer for any number of toasts and any size of the  *)
(* stack: the rows keep the order of posting, and a toast goes only by its *)
(* own timer or when maxVisible newer ones have been posted.               *)
(***************************************************************************)
EXTENDS ToastLayer, SequenceTheorems, TLAPS

(* Between two rows lie at least as many serials as rows, and above the last
   one nothing was given out: a row with maxVisible rows after it has seen
   maxVisible newer serials. *)
Spread(ts, next) ==
    /\ \A i, j \in DOMAIN ts : i < j => ts[i].serial + (j - i) <= ts[j].serial
    /\ \A i \in DOMAIN ts : ts[i].serial + (Len(ts) - i) < next

ToastInv == ToastTypeOK /\ NoToastTaken /\ Spread(toasts, nextSerial)

(* The rows of the ListModel and their serials. *)
LEMMA RowsTyped ==
    ASSUME NEW ts \in Seq(Toast)
    PROVE  /\ Len(ts) \in Nat /\ DOMAIN ts = 1..Len(ts)
           /\ \A i \in DOMAIN ts : ts[i].serial \in Nat
<1>1. Len(ts) \in Nat /\ DOMAIN ts = 1..Len(ts)
  OBVIOUS
<1>2. \A i \in DOMAIN ts : ts[i] \in Toast
  OBVIOUS
<1>3. \A t \in Toast : t.serial \in Nat
  BY DEF Toast
<1> QED BY <1>1, <1>2, <1>3

(* Rows are spread, so they are in order and below the next serial. *)
LEMMA SpreadOrders ==
    ASSUME NEW ts \in Seq(Toast), NEW next \in Nat, Spread(ts, next)
    PROVE  /\ \A i, j \in DOMAIN ts : i < j => ts[i].serial < ts[j].serial
           /\ \A s \in SerialsOf(ts) : s < next
<1>1. /\ Len(ts) \in Nat /\ DOMAIN ts = 1..Len(ts)
      /\ \A i \in DOMAIN ts : ts[i].serial \in Nat
  BY RowsTyped
<1>2. ASSUME NEW i \in DOMAIN ts, NEW j \in DOMAIN ts, i < j
      PROVE  ts[i].serial < ts[j].serial
  <2>1. ts[i].serial + (j - i) <= ts[j].serial
    BY <1>2 DEF Spread
  <2> QED BY <1>1, <1>2, <2>1
<1>3. ASSUME NEW i \in DOMAIN ts PROVE ts[i].serial < next
  <2>1. ts[i].serial + (Len(ts) - i) < next
    BY DEF Spread
  <2> QED BY <1>1, <2>1
<1> QED BY <1>2, <1>3 DEF SerialsOf

(* What is left of the rows when one of them is removed. *)
LEMMA WithoutRowIs ==
    ASSUME NEW ts \in Seq(Toast), NEW at \in DOMAIN ts
    PROVE  /\ WithoutRow(ts, at) \in Seq(Toast)
           /\ Len(WithoutRow(ts, at)) = Len(ts) - 1
           /\ \A k \in 1..(Len(ts) - 1) :
                 WithoutRow(ts, at)[k] = IF k < at THEN ts[k] ELSE ts[k + 1]
<1> DEFINE a == SubSeq(ts, 1, at - 1)
           b == SubSeq(ts, at + 1, Len(ts))
<1>1. Len(ts) \in Nat /\ at \in 1..Len(ts)
  OBVIOUS
<1>2. /\ a \in Seq(Toast) /\ Len(a) = at - 1
      /\ \A k \in 1..(at - 1) : a[k] = ts[k]
  BY <1>1
<1>3. /\ b \in Seq(Toast) /\ Len(b) = Len(ts) - at
      /\ \A k \in 1..(Len(ts) - at) : b[k] = ts[at + k]
  <2> DEFINE m == at + 1
             n == Len(ts)
  <2>1. m \in Int /\ n \in Int /\ \A i \in m..n : ts[i] \in Toast
    BY <1>1
  <2>2. /\ b \in Seq(Toast) /\ Len(b) = (IF m <= n THEN n - m + 1 ELSE 0)
        /\ \A i \in 1..(n - m + 1) : b[i] = ts[m + i - 1]
    <3> HIDE DEF m, n
    <3> QED BY <2>1, SubSeqProperties DEF m, n
  <2>3. (IF m <= n THEN n - m + 1 ELSE 0) = Len(ts) - at /\ n - m + 1 = Len(ts) - at
    BY <1>1
  <2>4. \A k \in 1..(Len(ts) - at) : m + k - 1 = at + k
    BY <1>1
  <2> HIDE DEF b, m, n
  <2> QED BY <2>2, <2>3, <2>4
<1> HIDE DEF a, b
<1>4. /\ a \o b \in Seq(Toast) /\ Len(a \o b) = Len(ts) - 1
      /\ \A k \in 1..(Len(ts) - 1) :
            (a \o b)[k] = IF k <= Len(a) THEN a[k] ELSE b[k - Len(a)]
  <2>1. Len(a) + Len(b) = Len(ts) - 1
    BY <1>1, <1>2, <1>3
  <2>2. /\ a \o b \in Seq(Toast) /\ Len(a \o b) = Len(a) + Len(b)
        /\ \A k \in 1..(Len(a) + Len(b)) :
              (a \o b)[k] = IF k <= Len(a) THEN a[k] ELSE b[k - Len(a)]
    BY <1>2, <1>3, ConcatProperties
  <2> QED BY <2>1, <2>2
<1>5. ASSUME NEW k \in 1..(Len(ts) - 1)
      PROVE  (a \o b)[k] = IF k < at THEN ts[k] ELSE ts[k + 1]
  <2>1. CASE k < at
    BY <1>1, <1>2, <1>4, <2>1
  <2>2. CASE k >= at
    <3> DEFINE n == k - Len(a)
    <3>1. n \in 1..(Len(ts) - at) /\ at + n = k + 1 /\ ~(k <= Len(a)) /\ ~(k < at)
      <4>1. k \in Nat /\ k <= Len(ts) - 1 /\ Len(a) = at - 1 /\ at \in Nat /\ Len(ts) \in Nat
        BY <1>1, <1>2
      <4> QED BY <2>2, <4>1
    <3>2. (a \o b)[k] = b[n]
      BY <1>4, <3>1
    <3> HIDE DEF n
    <3>3. b[n] = ts[at + n]
      BY <1>3, <3>1
    <3> QED BY <3>1, <3>2, <3>3
  <2>3. k < at \/ k >= at
    BY <1>1
  <2> QED BY <2>1, <2>2, <2>3
<1>6. WithoutRow(ts, at) = a \o b
  BY DEF WithoutRow, a, b
<1> QED BY <1>4, <1>5, <1>6

(* dismiss removes the row of its own serial and no other, and keeps the rest
   in order. *)
LEMMA DismissIs ==
    ASSUME NEW ts \in Seq(Toast), NEW next \in Nat, Spread(ts, next),
           NEW s \in SerialsOf(ts)
    PROVE  /\ Dismiss(ts, s) \in Seq(Toast)
           /\ Len(Dismiss(ts, s)) = Len(ts) - 1
           /\ SerialsOf(Dismiss(ts, s)) = SerialsOf(ts) \ {s}
           /\ Spread(Dismiss(ts, s), next)
<1> DEFINE at == RowOf(ts, s)
           d == Dismiss(ts, s)
<1>1. at \in DOMAIN ts /\ ts[at].serial = s
  BY DEF RowOf, SerialsOf
<1>2. d = WithoutRow(ts, at)
  BY DEF Dismiss
<1>3. /\ Len(ts) \in Nat \ {0} /\ DOMAIN ts = 1..Len(ts) /\ at \in 1..Len(ts)
      /\ \A i \in DOMAIN ts : ts[i].serial \in Nat
  BY <1>1, RowsTyped
<1> HIDE DEF at, d
<1>4. /\ d \in Seq(Toast) /\ Len(d) = Len(ts) - 1 /\ DOMAIN d = 1..(Len(ts) - 1)
      /\ \A k \in 1..(Len(ts) - 1) : d[k] = IF k < at THEN ts[k] ELSE ts[k + 1]
  <2>1. /\ d \in Seq(Toast) /\ Len(d) = Len(ts) - 1
        /\ \A k \in 1..(Len(ts) - 1) : d[k] = IF k < at THEN ts[k] ELSE ts[k + 1]
    BY <1>1, <1>2, WithoutRowIs
  <2>2. DOMAIN d = 1..Len(d)
    BY <2>1
  <2> QED BY <2>1, <2>2
<1> DEFINE f(k) == IF k < at THEN k ELSE k + 1
<1>5. \A k \in DOMAIN d : f(k) \in DOMAIN ts /\ f(k) # at /\ d[k] = ts[f(k)]
  BY <1>3, <1>4
<1>6. ASSUME NEW i \in DOMAIN d, NEW j \in DOMAIN d, i < j
      PROVE  d[i].serial + (j - i) <= d[j].serial
  <2>1. f(i) \in 1..Len(ts) /\ f(j) \in 1..Len(ts) /\ f(i) < f(j) /\ j - i <= f(j) - f(i)
    BY <1>3, <1>4, <1>6
  <2>2. ts[f(i)].serial + (f(j) - f(i)) <= ts[f(j)].serial
    BY <1>3, <2>1 DEF Spread
  <2>3. d[i].serial = ts[f(i)].serial /\ d[j].serial = ts[f(j)].serial
        /\ ts[f(i)].serial \in Nat /\ ts[f(j)].serial \in Nat
    BY <1>3, <1>5
  <2> HIDE DEF f
  <2> QED BY <1>4, <2>1, <2>2, <2>3
<1>7. ASSUME NEW i \in DOMAIN d PROVE d[i].serial + (Len(d) - i) < next
  <2>1. f(i) \in 1..Len(ts) /\ Len(d) - i <= Len(ts) - f(i)
    BY <1>3, <1>4
  <2>2. ts[f(i)].serial + (Len(ts) - f(i)) < next
    BY <1>3, <2>1 DEF Spread
  <2>3. d[i].serial = ts[f(i)].serial /\ ts[f(i)].serial \in Nat
    BY <1>3, <1>5
  <2> HIDE DEF f
  <2> QED BY <1>3, <1>4, <2>1, <2>2, <2>3
<1>8. \A i \in DOMAIN ts : i # at => ts[i].serial # s
  <2> SUFFICES ASSUME NEW i \in DOMAIN ts, i # at, ts[i].serial = s PROVE FALSE
    OBVIOUS
  <2>1. i < at \/ at < i
    BY <1>3
  <2> QED BY <1>1, <1>3, <2>1, SpreadOrders
<1>9. SerialsOf(d) = SerialsOf(ts) \ {s}
  <2>1. ASSUME NEW k \in DOMAIN d PROVE d[k].serial \in SerialsOf(ts) \ {s}
    BY <1>5, <1>8 DEF SerialsOf
  <2>2. ASSUME NEW i \in DOMAIN ts, ts[i].serial # s
        PROVE  \E k \in DOMAIN d : d[k].serial = ts[i].serial
    <3>1. i # at
      BY <1>1, <2>2
    <3>2. CASE i < at
      <4>1. i \in DOMAIN d /\ d[i] = ts[i]
        BY <1>3, <1>4, <3>2
      <4> QED BY <4>1
    <3>3. CASE i > at
      <4>1. i - 1 \in DOMAIN d /\ ~(i - 1 < at) /\ (i - 1) + 1 = i
        BY <1>3, <1>4, <3>3
      <4>2. d[i - 1] = ts[i]
        BY <1>4, <4>1
      <4> QED BY <4>1, <4>2
    <3> QED BY <1>3, <3>1, <3>2, <3>3
  <2> QED BY <2>1, <2>2 DEF SerialsOf
<1> QED BY <1>4, <1>6, <1>7, <1>9 DEF Spread, d

(* What post appends goes below the rows, under the next serials. *)
LEMMA AppendedIs ==
    ASSUME NEW ts \in Seq(Toast), NEW next \in Nat, Spread(ts, next),
           NEW bodies \in Seq(Body)
    PROVE  LET all == ts \o [i \in DOMAIN bodies |->
                                [serial |-> next + i - 1, body |-> bodies[i]]]
           IN  /\ all \in Seq(Toast)
               /\ Spread(all, next + Len(bodies))
               /\ SerialsOf(all) = SerialsOf(ts) \cup next .. (next + Len(bodies) - 1)
<1> DEFINE new == [i \in DOMAIN bodies |-> [serial |-> next + i - 1, body |-> bodies[i]]]
           all == ts \o new
           L == Len(ts)
           M == Len(bodies)
<1>1. L \in Nat /\ DOMAIN ts = 1..L /\ \A i \in DOMAIN ts : ts[i].serial \in Nat
  BY RowsTyped
<1>2. M \in Nat /\ DOMAIN bodies = 1..M /\ \A i \in 1..M : bodies[i] \in Body
  OBVIOUS
<1>3. \A i \in 1..M : new[i] \in Toast /\ new[i].serial = next + i - 1
  BY <1>2 DEF Toast
<1>4. new \in Seq(Toast) /\ Len(new) = M
  <2>1. new = [i \in 1..M |-> [serial |-> next + i - 1, body |-> bodies[i]]]
    BY <1>2
  <2>2. new \in [1..M -> Toast]
    BY <1>3, <2>1
  <2> HIDE DEF new, M
  <2> QED BY <1>2, <2>2
<1> HIDE DEF new, L, M
<1>5. /\ all \in Seq(Toast) /\ Len(all) = L + M
      /\ \A k \in 1..L : all[k] = ts[k]
      /\ \A k \in 1..M : all[L + k] = new[k]
  <2>1. all \in Seq(Toast) /\ Len(all) = L + M
    BY <1>4 DEF L
  <2>2. \A k \in 1..(L + M) : all[k] = IF k <= L THEN ts[k] ELSE new[k - L]
    BY <1>4 DEF L
  <2>3. ASSUME NEW k \in 1..L PROVE all[k] = ts[k]
    <3>1. k \in 1..(L + M) /\ k <= L
      BY <1>1, <1>2
    <3> QED BY <2>2, <3>1
  <2>4. ASSUME NEW k \in 1..M PROVE all[L + k] = new[k]
    <3>1. L + k \in 1..(L + M) /\ ~(L + k <= L) /\ (L + k) - L = k
      BY <1>1, <1>2
    <3> QED BY <2>2, <3>1
  <2> QED BY <2>1, <2>3, <2>4
<1> HIDE DEF all
<1>6. DOMAIN all = 1..(L + M)
  BY <1>5
<1>7. \A k \in 1..(L + M) : k \in 1..L \/ (k - L \in 1..M /\ L + (k - L) = k)
  BY <1>1, <1>2
<1>8. \A k \in 1..(L + M) : k \in 1..L => all[k].serial = ts[k].serial
                             /\ ts[k].serial \in Nat /\ ts[k].serial + (L - k) < next
  BY <1>1, <1>5 DEF Spread, L
<1>9. \A k \in 1..(L + M) : k \notin 1..L => all[k].serial = next + (k - L) - 1
  <2> SUFFICES ASSUME NEW k \in 1..(L + M), k \notin 1..L
               PROVE  all[k].serial = next + (k - L) - 1
    OBVIOUS
  <2>1. PICK n \in 1..M : n = k - L /\ L + n = k
    BY <1>7
  <2> QED BY <1>3, <1>5, <2>1
<1>10. ASSUME NEW i \in DOMAIN all, NEW j \in DOMAIN all, i < j
       PROVE  all[i].serial + (j - i) <= all[j].serial
  <2>0. i \in 1..(L + M) /\ j \in 1..(L + M)
    BY <1>6
  <2>1. CASE j \in 1..L
    <3>1. i \in 1..L
      BY <1>1, <1>2, <1>10, <2>0, <2>1
    <3>2. ts[i].serial + (j - i) <= ts[j].serial
      BY <1>1, <1>10, <2>1, <3>1 DEF Spread
    <3> QED BY <1>8, <2>0, <2>1, <3>1, <3>2
  <2>2. CASE j \notin 1..L /\ i \in 1..L
    <3>1. /\ all[j].serial = next + (j - L) - 1
          /\ all[i].serial = ts[i].serial /\ ts[i].serial \in Nat
          /\ ts[i].serial + (L - i) < next
      BY <1>8, <1>9, <2>0, <2>2
    <3> QED BY <1>1, <1>2, <2>0, <3>1
  <2>3. CASE j \notin 1..L /\ i \notin 1..L
    <3>1. all[j].serial = next + (j - L) - 1 /\ all[i].serial = next + (i - L) - 1
      BY <1>9, <2>0, <2>3
    <3> QED BY <1>1, <1>2, <2>0, <3>1
  <2> QED BY <2>1, <2>2, <2>3
<1>11. ASSUME NEW i \in DOMAIN all PROVE all[i].serial + (Len(all) - i) < next + M
  <2>0. i \in 1..(L + M) /\ Len(all) = L + M
    BY <1>5, <1>6
  <2>1. CASE i \in 1..L
    <3>1. all[i].serial = ts[i].serial /\ ts[i].serial \in Nat /\ ts[i].serial + (L - i) < next
      BY <1>8, <2>0, <2>1
    <3> QED BY <1>1, <1>2, <2>0, <3>1
  <2>2. CASE i \notin 1..L
    <3>1. all[i].serial = next + (i - L) - 1
      BY <1>9, <2>0, <2>2
    <3> QED BY <1>1, <1>2, <2>0, <3>1
  <2> QED BY <2>1, <2>2
<1>12. SerialsOf(all) = SerialsOf(ts) \cup next .. (next + M - 1)
  <2>1. ASSUME NEW k \in DOMAIN all
        PROVE  all[k].serial \in SerialsOf(ts) \cup next .. (next + M - 1)
    <3>0. k \in 1..(L + M)
      BY <1>6
    <3>1. CASE k \in 1..L
      BY <1>1, <1>5, <3>1 DEF SerialsOf
    <3>2. CASE k \notin 1..L
      <4>1. all[k].serial = next + (k - L) - 1 /\ k - L \in 1..M
        BY <1>7, <1>9, <3>0, <3>2
      <4> QED BY <1>1, <1>2, <3>0, <4>1
    <3> QED BY <3>1, <3>2
  <2>2. ASSUME NEW k \in DOMAIN ts PROVE ts[k].serial \in SerialsOf(all)
    <3>1. k \in DOMAIN all /\ all[k] = ts[k]
      BY <1>1, <1>2, <1>5, <1>6
    <3> QED BY <3>1 DEF SerialsOf
  <2>3. ASSUME NEW s \in next .. (next + M - 1) PROVE s \in SerialsOf(all)
    <3>1. (s - next) + 1 \in 1..M /\ next + ((s - next) + 1) - 1 = s
      BY <1>2
    <3>2. PICK n \in 1..M : next + n - 1 = s
      BY <3>1
    <3>3. L + n \in DOMAIN all /\ all[L + n].serial = s
      <4>1. L + n \in 1..(L + M)
        BY <1>1, <1>2
      <4>2. all[L + n] = new[n] /\ new[n].serial = s
        BY <1>3, <1>5, <3>2
      <4> QED BY <1>6, <4>1, <4>2
    <3> QED BY <3>3 DEF SerialsOf
  <2>4. SerialsOf(all) = {all[k].serial : k \in DOMAIN all}
        /\ SerialsOf(ts) = {ts[k].serial : k \in DOMAIN ts}
    BY DEF SerialsOf
  <2> QED BY <2>1, <2>2, <2>3, <2>4
<1>13. Spread(all, next + M)
  BY <1>10, <1>11 DEF Spread
<1> QED BY <1>5, <1>12, <1>13 DEF all, new, M

(* The eviction keeps the newest maxVisible rows; a row it drops has at least
   maxVisible newer serials above it. *)
LEMMA NewestIs ==
    ASSUME NEW ts \in Seq(Toast), NEW next \in Nat, Spread(ts, next)
    PROVE  /\ Newest(ts) \in Seq(Toast) /\ Len(Newest(ts)) <= maxVisible
           /\ Spread(Newest(ts), next)
           /\ SerialsOf(Newest(ts)) \subseteq SerialsOf(ts)
           /\ \A s \in SerialsOf(ts) :
                 s \in SerialsOf(Newest(ts)) \/ s + maxVisible < next
<1> DEFINE L == Len(ts)
           new == Newest(ts)
<1>1. /\ L \in Nat /\ DOMAIN ts = 1..L /\ \A i \in DOMAIN ts : ts[i].serial \in Nat
      /\ maxVisible \in Nat \ {0}
  BY RowsTyped, ToastAssumption
<1>2. CASE L <= maxVisible
  <2>1. new = ts
    BY <1>1, <1>2 DEF Newest
  <2> QED BY <1>2, <2>1
<1>3. CASE L > maxVisible
  <2> DEFINE off == L - maxVisible
  <2>1. off \in Nat \ {0} /\ L = off + maxVisible
    BY <1>1, <1>3
  <2>2. new = SubSeq(ts, off + 1, L)
    BY <1>3 DEF Newest
  <2> HIDE DEF off
  <2>3. /\ new \in Seq(Toast) /\ Len(new) = maxVisible
        /\ \A k \in 1..maxVisible : new[k] = ts[off + k]
    <3>1. off + 1 \in 1..(L + 1) /\ L - (off + 1) + 1 = maxVisible
      BY <1>1, <2>1
    <3>2. \A k \in 1..maxVisible : (off + 1) + k - 1 = off + k /\ off + k \in 1..L
      BY <1>1, <2>1
    <3>3. \A k \in 1..maxVisible : ts[off + k] \in Toast
      BY <1>1, <3>2
    <3>4. new = [k \in 1..maxVisible |-> ts[off + k]]
      BY <1>1, <2>1, <2>2, <3>1, <3>2
    <3> HIDE DEF new
    <3> QED BY <1>1, <3>3, <3>4
  <2> HIDE DEF new, L
  <2>4. DOMAIN new = 1..maxVisible
    BY <2>3
  <2>5. \A k \in 1..maxVisible : off + k \in 1..L
    BY <1>1, <2>1
  <2>6. ASSUME NEW i \in DOMAIN new, NEW j \in DOMAIN new, i < j
        PROVE  new[i].serial + (j - i) <= new[j].serial
    <3>1. off + i \in DOMAIN ts /\ off + j \in DOMAIN ts
      BY <1>1, <2>4, <2>5
    <3>2. off + i < off + j /\ (off + j) - (off + i) = j - i
      BY <1>1, <2>1, <2>4, <2>6
    <3>3. ts[off + i].serial + ((off + j) - (off + i)) <= ts[off + j].serial
      BY <3>1, <3>2 DEF Spread
    <3> QED BY <2>3, <2>4, <3>2, <3>3
  <2>7. ASSUME NEW i \in DOMAIN new PROVE new[i].serial + (Len(new) - i) < next
    <3>1. off + i \in DOMAIN ts
      BY <1>1, <2>4, <2>5
    <3>2. L - (off + i) = Len(new) - i
      BY <1>1, <2>1, <2>3, <2>4
    <3>3. ts[off + i].serial + (L - (off + i)) < next
      BY <3>1 DEF Spread, L
    <3> QED BY <2>3, <2>4, <3>2, <3>3
  <2>8. Spread(new, next)
    BY <2>6, <2>7 DEF Spread
  <2>9. SerialsOf(new) \subseteq SerialsOf(ts)
    BY <1>1, <2>3, <2>4, <2>5 DEF SerialsOf
  <2>10. ASSUME NEW i \in DOMAIN ts
         PROVE  ts[i].serial \in SerialsOf(new) \/ ts[i].serial + maxVisible < next
    <3>1. CASE i <= off
      <4>1. L - i >= maxVisible
        BY <1>1, <2>1, <3>1
      <4>2. ts[i].serial + (L - i) < next /\ ts[i].serial \in Nat
        BY <1>1 DEF Spread, L
      <4> QED BY <1>1, <4>1, <4>2
    <3>2. CASE i > off
      <4>1. i - off \in 1..maxVisible /\ off + (i - off) = i
        BY <1>1, <2>1, <3>2
      <4>2. new[i - off] = ts[i]
        BY <2>3, <4>1
      <4> QED BY <2>4, <4>1, <4>2 DEF SerialsOf
    <3>3. i <= off \/ i > off
      BY <1>1, <2>1
    <3> QED BY <3>1, <3>2, <3>3
  <2>11. \A s \in SerialsOf(ts) : s \in SerialsOf(new) \/ s + maxVisible < next
    BY <2>10 DEF SerialsOf
  <2> QED BY <1>1, <2>3, <2>8, <2>9, <2>11 DEF new
<1> QED BY <1>1, <1>2, <1>3

(* An empty layer satisfies the invariant. *)
LEMMA ToastInitInv == ToastInit => ToastInv
<1> SUFFICES ASSUME ToastInit PROVE ToastInv
  OBVIOUS
<1>1. toasts = <<>> /\ nextSerial = 0 /\ hovered = {} /\ expired = {}
  BY DEF ToastInit
<1>2. OnScreen = {} /\ DOMAIN toasts = {} /\ toasts \in Seq(Toast) /\ Len(toasts) = 0
  BY <1>1 DEF OnScreen, SerialsOf
<1>3. ToastTypeOK
  BY <1>1, <1>2, ToastAssumption DEF ToastTypeOK
<1> QED BY <1>1, <1>2, <1>3 DEF ToastInv, NoToastTaken, Spread

(* Posting any number of messages at once keeps the invariant. *)
LEMMA PostInv ==
    ASSUME ToastInv, NEW bodies \in Seq(Body), Post(bodies)
    PROVE  ToastInv'
<1> DEFINE all == toasts \o [i \in DOMAIN bodies |->
                               [serial |-> nextSerial + i - 1, body |-> bodies[i]]]
           M == Len(bodies)
<1>0. /\ toasts \in Seq(Toast) /\ nextSerial \in Nat /\ M \in Nat
      /\ Spread(toasts, nextSerial) /\ nextSerial' = nextSerial + M
      /\ toasts' = Newest(all) /\ expired' = expired
      /\ hovered' = hovered \cap SerialsOf(toasts')
  BY DEF ToastInv, ToastTypeOK, Post
<1>1. /\ all \in Seq(Toast) /\ Spread(all, nextSerial + M)
      /\ SerialsOf(all) = SerialsOf(toasts) \cup nextSerial .. (nextSerial + M - 1)
  BY <1>0, AppendedIs
<1> HIDE DEF all, M
<1>2. /\ toasts' \in Seq(Toast) /\ Len(toasts') <= maxVisible
      /\ nextSerial' \in Nat
      /\ Spread(toasts', nextSerial')
      /\ \A s \in SerialsOf(all) : s \in SerialsOf(toasts') \/ s + maxVisible < nextSerial'
  BY <1>0, <1>1, NewestIs
<1>3. /\ \A i, j \in DOMAIN toasts' : i < j => toasts'[i].serial < toasts'[j].serial
      /\ \A s \in SerialsOf(toasts') : s < nextSerial'
  BY <1>2, SpreadOrders
<1>4. expired' \subseteq 0 .. nextSerial' - 1
  <2>1. expired \subseteq 0 .. nextSerial - 1
    BY DEF ToastInv, ToastTypeOK
  <2> QED BY <1>0, <2>1
<1>5. ToastTypeOK'
  <2>1. \A s, t \in hovered' : s = t
    BY <1>0 DEF ToastInv, ToastTypeOK
  <2> QED BY <1>0, <1>2, <1>3, <1>4, <2>1 DEF ToastTypeOK, OnScreen
<1>6. NoToastTaken'
  <2> SUFFICES ASSUME NEW s \in 0 .. nextSerial' - 1
               PROVE  s \in SerialsOf(toasts') \/ s \in expired' \/ s + maxVisible < nextSerial'
    BY DEF NoToastTaken, OnScreen
  <2>1. CASE s \in SerialsOf(all)
    BY <1>2, <2>1
  <2>2. CASE s \notin SerialsOf(all)
    <3>1. s \in 0 .. nextSerial - 1
      BY <1>0, <1>1, <2>2
    <3>2. s \in expired \/ s + maxVisible < nextSerial
      BY <1>1, <2>2, <3>1 DEF ToastInv, NoToastTaken, OnScreen
    <3> QED BY <1>0, <3>1, <3>2, ToastAssumption
  <2> QED BY <2>1, <2>2
<1> QED BY <1>2, <1>5, <1>6 DEF ToastInv

(* A timer takes its own toast and no other. *)
LEMMA ExpireInv ==
    ASSUME ToastInv, NEW s \in OnScreen, Expire(s)
    PROVE  ToastInv'
<1>0. /\ toasts \in Seq(Toast) /\ nextSerial \in Nat /\ nextSerial' = nextSerial
      /\ Spread(toasts, nextSerial) /\ s \in SerialsOf(toasts) /\ s < nextSerial
      /\ toasts' = Dismiss(toasts, s) /\ expired' = expired \cup {s}
      /\ hovered' = hovered \cap SerialsOf(toasts')
  BY DEF ToastInv, ToastTypeOK, Expire, OnScreen
<1>1. /\ toasts' \in Seq(Toast) /\ Len(toasts') = Len(toasts) - 1
      /\ SerialsOf(toasts') = SerialsOf(toasts) \ {s}
      /\ Spread(toasts', nextSerial')
  BY <1>0, DismissIs
<1>2. /\ \A i, j \in DOMAIN toasts' : i < j => toasts'[i].serial < toasts'[j].serial
      /\ \A t \in SerialsOf(toasts') : t < nextSerial'
  BY <1>0, <1>1, SpreadOrders
<1>3. Len(toasts') <= maxVisible
  <2>1. Len(toasts) \in Nat /\ Len(toasts) <= maxVisible
    BY <1>0 DEF ToastInv, ToastTypeOK
  <2> QED BY <1>1, <2>1, ToastAssumption
<1>4. s \in Nat
  <2>1. PICK i \in DOMAIN toasts : s = toasts[i].serial
    BY <1>0 DEF SerialsOf
  <2> QED BY <1>0, <2>1, RowsTyped
<1>5. expired' \subseteq 0 .. nextSerial' - 1
  BY <1>0, <1>4 DEF ToastInv, ToastTypeOK
<1>6. ToastTypeOK'
  <2>1. \A t, u \in hovered' : t = u
    BY <1>0 DEF ToastInv, ToastTypeOK
  <2> QED BY <1>0, <1>1, <1>2, <1>3, <1>5, <2>1 DEF ToastTypeOK, OnScreen
<1>7. NoToastTaken'
  BY <1>0, <1>1 DEF ToastInv, NoToastTaken, OnScreen
<1> QED BY <1>1, <1>6, <1>7 DEF ToastInv

(* Every step of the toast layer keeps the invariant. *)
LEMMA ToastStepInv == ToastInv /\ [ToastNext]_toastVars => ToastInv'
<1> SUFFICES ASSUME ToastInv, [ToastNext]_toastVars PROVE ToastInv'
  OBVIOUS
<1>1. CASE \E b \in Body : Post(<<b>>)
  <2>1. \A b \in Body : <<b>> \in Seq(Body)
    OBVIOUS
  <2> QED BY <1>1, <2>1, PostInv
<1>2. CASE \E s \in OnScreen : Expire(s)
  BY <1>2, ExpireInv
<1>3. CASE Hover \/ UNCHANGED toastVars
  <2>1. UNCHANGED <<toasts, nextSerial, expired>>
    BY <1>3 DEF Hover, toastVars
  <2>2. hovered' \subseteq OnScreen /\ \A s, t \in hovered' : s = t
    BY <1>3 DEF Hover, toastVars, ToastInv, ToastTypeOK
  <2>3. OnScreen' = OnScreen
    BY <2>1 DEF OnScreen
  <2>4. ToastTypeOK'
    BY <2>1, <2>2, <2>3 DEF ToastInv, ToastTypeOK
  <2> QED BY <2>1, <2>3, <2>4 DEF ToastInv, NoToastTaken
<1> QED BY <1>1, <1>2, <1>3 DEF ToastNext

(* The rows are spread and accounted for in every reachable state. *)
THEOREM ToastInductive == ToastSpec => []ToastInv
BY ToastInitInv, ToastStepInv, PTL DEF ToastSpec

(* At most maxVisible toasts, in the order of posting, and the pointer over at
   most one of them: for any size of the stack and any number of toasts. *)
THEOREM ToastTypeCorrect == ToastSpec => []ToastTypeOK
<1>1. ToastInv => ToastTypeOK
  BY DEF ToastInv
<1> QED BY <1>1, ToastInductive, PTL

(* A toast goes by its own timer or after maxVisible newer ones: removal by
   serial never takes another toast (ToastLayer.qml:15-32). *)
THEOREM NeverTaken == ToastSpec => []NoToastTaken
<1>1. ToastInv => NoToastTaken
  BY DEF ToastInv
<1> QED BY <1>1, ToastInductive, PTL
=============================================================================
