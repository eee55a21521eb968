-------------------------- MODULE ConfigEdits_proofs --------------------------
(***************************************************************************)
(* Proofs about ConfigEdits, for any actions, chords and gestures, any     *)
(* capacity of the channels and any number of gestures and disturbances.   *)
(*                                                                         *)
(* The argument.  The submitted edits are a ledger: those answered, those  *)
(* open and those left, in this order (EdBooks).  Handing over, answering  *)
(* and giving back move its boundaries; only a worker that is lost, and    *)
(* drained, lets an edit left be answered before an open one.  While the   *)
(* worker lives, the open edits are the completions under way, the edit in *)
(* hand and the channel, in this order (Pipe in EdThread), so the first    *)
(* completion answers the first open edit.  EdLanding and EdUnderway say   *)
(* which edits the file has by where they are.  EdSmooth follows a run     *)
(* without a fault.  What pump does to the queues is proved once, for all  *)
(* the steps that call it (PumpSound), and what an action leaves alone is  *)
(* kept apart from the queues (Whole, Worked).                             *)
(*                                                                         *)
(* That the run foresees the file needs a second invariant beside this     *)
(* one (EdAgreed, at the end): while nothing fails and nobody else writes, *)
(* the run's keymap and the file's are both what a first stretch of the    *)
(* submitted edits leaves behind, and every such stretch leaves a keymap   *)
(* in which no chord has two actions.                                      *)
(***************************************************************************)
EXTENDS ConfigEdits, SequenceTheorems, FiniteSetTheorems, WellFoundedInduction, TLAPS

-----------------------------------------------------------------------------
(* The ledger: sequences that are parts of a longer one.                   *)

\* q is what s holds behind its first k places.
Follows(q, s, k) == \A i \in 1..Len(q) : q[i] = s[k + i]

\* The books of a list of edits: the first m answers, then the open ones, then the
\* other answers, then those left.
Ledger(m, told, open, left, all) ==
  /\ m \in 0..Len(told) /\ Len(all) = Len(told) + Len(open) + Len(left)
  /\ \A i \in 1..m : told[i].n = all[i].n
  /\ Follows(open, all, m)
  /\ \A i \in (m + 1)..Len(told) : told[i].n = all[Len(open) + i].n
  /\ Follows(left, all, Len(told) + Len(open))

\* An answer the loop received.
EdToldOf == [n : 1..MaxGestures, result : EdResult]

\* The empty sequence is a sequence over every set.
LEMMA Nothing == \A S : <<>> \in Seq(S)
  OBVIOUS

\* The parts of a sequence, and what is put behind it.
LEMMA Cut ==
  ASSUME NEW S, NEW q \in Seq(S), NEW j \in 0..Len(q)
  PROVE  /\ SubSeq(q, 1, j) \in Seq(S) /\ Len(SubSeq(q, 1, j)) = j
         /\ \A i \in 1..j : SubSeq(q, 1, j)[i] = q[i]
         /\ SubSeq(q, j + 1, Len(q)) \in Seq(S) /\ Len(SubSeq(q, j + 1, Len(q))) = Len(q) - j
         /\ \A i \in 1..(Len(q) - j) : SubSeq(q, j + 1, Len(q))[i] = q[j + i]
<1>1. Len(q) \in Nat /\ j \in Nat /\ j <= Len(q) /\ \A i \in 1..Len(q) : q[i] \in S
  BY LenProperties
<1>2. /\ SubSeq(q, 1, j) \in Seq(S) /\ Len(SubSeq(q, 1, j)) = (IF 1 <= j THEN j - 1 + 1 ELSE 0)
      /\ \A i \in 1..(j - 1 + 1) : SubSeq(q, 1, j)[i] = q[1 + i - 1]
  <2>1. \A i \in 1..j : q[i] \in S
    BY <1>1
  <2>2. 1 \in Int /\ j \in Int
    BY <1>1
  <2> QED
    BY <2>1, <2>2, SubSeqProperties
<1>3. /\ SubSeq(q, j + 1, Len(q)) \in Seq(S)
      /\ Len(SubSeq(q, j + 1, Len(q))) = (IF j + 1 <= Len(q) THEN Len(q) - (j + 1) + 1 ELSE 0)
      /\ \A i \in 1..(Len(q) - (j + 1) + 1) : SubSeq(q, j + 1, Len(q))[i] = q[(j + 1) + i - 1]
  <2>1. \A i \in (j + 1)..Len(q) : q[i] \in S
    BY <1>1
  <2>2. j + 1 \in Int /\ Len(q) \in Int
    BY <1>1
  <2> QED
    BY <2>1, <2>2, SubSeqProperties
<1>4. /\ Len(SubSeq(q, 1, j)) = j /\ Len(SubSeq(q, j + 1, Len(q))) = Len(q) - j
  BY <1>1, <1>2, <1>3
<1>5. \A i \in 1..j : SubSeq(q, 1, j)[i] = q[i]
  <2>1. \A i \in 1..j : i \in 1..(j - 1 + 1) /\ 1 + i - 1 = i
    BY <1>1
  <2> QED
    BY <2>1, <1>2
<1>6. \A i \in 1..(Len(q) - j) : SubSeq(q, j + 1, Len(q))[i] = q[j + i]
  <2>1. \A i \in 1..(Len(q) - j) : i \in 1..(Len(q) - (j + 1) + 1) /\ (j + 1) + i - 1 = j + i
    BY <1>1
  <2> QED
    BY <2>1, <1>3
<1> QED
  BY <1>2, <1>3, <1>4, <1>5, <1>6

\* s is q and then r.
Joins(s, q, r) ==
  /\ Len(s) = Len(q) + Len(r)
  /\ \A i \in 1..Len(q) : s[i] = q[i]
  /\ \A i \in 1..Len(r) : s[Len(q) + i] = r[i]

\* What stands where in two sequences put one behind the other.
LEMMA Joined ==
  ASSUME NEW S, NEW q \in Seq(S), NEW r \in Seq(S)
  PROVE  q \o r \in Seq(S) /\ Joins(q \o r, q, r)
<1>1. Len(q) \in Nat /\ Len(r) \in Nat
  BY LenProperties
<1>2. /\ q \o r \in Seq(S) /\ Len(q \o r) = Len(q) + Len(r)
      /\ \A i \in 1..(Len(q) + Len(r)) :
           (q \o r)[i] = IF i <= Len(q) THEN q[i] ELSE r[i - Len(q)]
  BY ConcatProperties
<1>3. \A i \in 1..Len(q) : i \in 1..(Len(q) + Len(r)) /\ i <= Len(q)
  BY <1>1
<1>4. \A i \in 1..Len(r) : /\ Len(q) + i \in 1..(Len(q) + Len(r)) /\ ~(Len(q) + i <= Len(q))
                           /\ (Len(q) + i) - Len(q) = i
  BY <1>1
<1>5. \A i \in 1..Len(q) : (q \o r)[i] = q[i]
  BY <1>2, <1>3
<1>6. \A i \in 1..Len(r) : (q \o r)[Len(q) + i] = r[i]
  BY <1>2, <1>4
<1> QED
  BY <1>2, <1>5, <1>6 DEF Joins

\* What stands where behind an append.
LEMMA Put ==
  ASSUME NEW S, NEW q \in Seq(S), NEW e \in S
  PROVE  /\ Append(q, e) \in Seq(S) /\ Len(Append(q, e)) = Len(q) + 1
         /\ \A i \in 1..Len(q) : Append(q, e)[i] = q[i]
         /\ Append(q, e)[Len(q) + 1] = e
  BY AppendProperties

\* What stands where once the first element is taken.
LEMMA Taken ==
  ASSUME NEW S, NEW q \in Seq(S), q # <<>>
  PROVE  /\ Len(q) > 0 /\ Head(q) = q[1] /\ Head(q) \in S
         /\ Tail(q) \in Seq(S) /\ Len(Tail(q)) = Len(q) - 1
         /\ \A i \in 1..(Len(q) - 1) : Tail(q)[i] = q[i + 1]
<1>1. Len(q) \in Nat /\ Len(q) > 0
  BY EmptySeq, LenProperties
<1> QED
  BY <1>1, HeadTailProperties

\* What may happen to the books: an edit is submitted, some are handed over, the
\* oldest open one is answered, the oldest one left is given back.
LEMMA Submitted ==
  ASSUME NEW S, NEW told \in Seq(EdToldOf), NEW open \in Seq(S), NEW left \in Seq(S), NEW all \in Seq(S),
         NEW m, Ledger(m, told, open, left, all), NEW e \in S
  PROVE  Ledger(m, told, open, Append(left, e), Append(all, e))
<1>1. /\ Len(told) \in Nat /\ Len(open) \in Nat /\ Len(left) \in Nat /\ Len(all) \in Nat
      /\ m \in Nat /\ m <= Len(told)
  BY LenProperties DEF Ledger
<1>2. Len(all) = Len(told) + Len(open) + Len(left)
  BY DEF Ledger
<1>3. /\ Len(Append(left, e)) = Len(left) + 1 /\ Append(left, e)[Len(left) + 1] = e
      /\ \A i \in 1..Len(left) : Append(left, e)[i] = left[i]
  BY Put
<1>4. /\ Len(Append(all, e)) = Len(all) + 1 /\ Append(all, e)[Len(all) + 1] = e
      /\ \A i \in 1..Len(all) : Append(all, e)[i] = all[i]
  BY Put
<1>5. /\ m \in 0..Len(told)
      /\ Len(Append(all, e)) = Len(told) + Len(open) + Len(Append(left, e))
  BY <1>1, <1>2, <1>3, <1>4
<1>6. \A i \in 1..m : told[i].n = Append(all, e)[i].n
  <2>1. \A i \in 1..m : i \in 1..Len(all)
    BY <1>1, <1>2
  <2> QED
    BY <2>1, <1>4 DEF Ledger
<1>7. Follows(open, Append(all, e), m)
  <2>1. \A i \in 1..Len(open) : m + i \in 1..Len(all)
    BY <1>1, <1>2
  <2> QED
    BY <2>1, <1>4 DEF Ledger, Follows
<1>8. \A i \in (m + 1)..Len(told) : told[i].n = Append(all, e)[Len(open) + i].n
  <2>1. \A i \in (m + 1)..Len(told) : Len(open) + i \in 1..Len(all)
    BY <1>1, <1>2
  <2> QED
    BY <2>1, <1>4 DEF Ledger
<1>9. Follows(Append(left, e), Append(all, e), Len(told) + Len(open))
  <2>1. SUFFICES ASSUME NEW i \in 1..(Len(left) + 1)
                 PROVE  Append(left, e)[i] = Append(all, e)[Len(told) + Len(open) + i]
    BY <1>3 DEF Follows
  <2>2. CASE i = Len(left) + 1
    <3>1. Len(told) + Len(open) + i = Len(all) + 1
      BY <2>2, <1>1, <1>2
    <3> QED
      BY <3>1, <2>2, <1>3, <1>4
  <2>3. CASE i # Len(left) + 1
    <3>1. i \in 1..Len(left) /\ Len(told) + Len(open) + i \in 1..Len(all)
      BY <2>3, <1>1, <1>2
    <3>2. left[i] = all[Len(told) + Len(open) + i]
      BY <3>1 DEF Ledger, Follows
    <3> QED
      BY <3>1, <3>2, <1>3, <1>4
  <2> QED
    BY <2>2, <2>3
<1> QED
  BY <1>5, <1>6, <1>7, <1>8, <1>9 DEF Ledger

\* The pump moves the boundary between what is left and what is open.
LEMMA HandedOver ==
  ASSUME NEW S, NEW told \in Seq(EdToldOf), NEW open \in Seq(S), NEW left \in Seq(S), NEW all \in Seq(S),
         Ledger(Len(told), told, open, left, all), NEW j \in 0..Len(left)
  PROVE  Ledger(Len(told), told, open \o SubSeq(left, 1, j), SubSeq(left, j + 1, Len(left)), all)
<1> DEFINE moved == SubSeq(left, 1, j)
           rest == SubSeq(left, j + 1, Len(left))
<1>1. /\ Len(told) \in Nat /\ Len(open) \in Nat /\ Len(left) \in Nat /\ j \in Nat /\ j <= Len(left)
      /\ Len(all) = Len(told) + Len(open) + Len(left)
  BY LenProperties DEF Ledger
<1>2. /\ moved \in Seq(S) /\ Len(moved) = j /\ \A i \in 1..j : moved[i] = left[i]
      /\ rest \in Seq(S) /\ Len(rest) = Len(left) - j
      /\ \A i \in 1..(Len(left) - j) : rest[i] = left[j + i]
  BY Cut
<1>3. /\ Len(open \o moved) = Len(open) + j
      /\ \A i \in 1..Len(open) : (open \o moved)[i] = open[i]
      /\ \A i \in 1..j : (open \o moved)[Len(open) + i] = moved[i]
  BY <1>2, Joined DEF Joins
<1> HIDE DEF moved, rest
<1>4. /\ \A i \in 1..Len(open) : open[i] = all[Len(told) + i]
      /\ \A i \in 1..Len(left) : left[i] = all[Len(told) + Len(open) + i]
  BY DEF Ledger, Follows
<1>5. Follows(open \o moved, all, Len(told))
  <2>1. SUFFICES ASSUME NEW i \in 1..(Len(open) + j) PROVE (open \o moved)[i] = all[Len(told) + i]
    BY <1>3 DEF Follows
  <2>2. CASE i <= Len(open)
    <3>1. i \in 1..Len(open)
      BY <2>2, <1>1
    <3> QED
      BY <3>1, <1>3, <1>4
  <2>3. CASE ~(i <= Len(open))
    <3>1. PICK k \in 1..j : i = Len(open) + k
      <4>1. i - Len(open) \in 1..j /\ i = Len(open) + (i - Len(open))
        BY <2>3, <1>1
      <4> QED
        BY <4>1
    <3>2. k \in 1..Len(left) /\ Len(told) + Len(open) + k = Len(told) + i
      BY <3>1, <1>1
    <3> QED
      BY <3>1, <3>2, <1>2, <1>3, <1>4
  <2> QED
    BY <2>2, <2>3
<1>6. Follows(rest, all, Len(told) + Len(open \o moved))
  <2>1. SUFFICES ASSUME NEW i \in 1..(Len(left) - j)
                 PROVE  rest[i] = all[Len(told) + Len(open \o moved) + i]
    BY <1>2 DEF Follows
  <2>2. /\ j + i \in 1..Len(left)
        /\ Len(told) + Len(open) + (j + i) = Len(told) + Len(open \o moved) + i
    BY <1>1, <1>3
  <2> QED
    BY <2>2, <1>2, <1>4
<1>7. Len(all) = Len(told) + Len(open \o moved) + Len(rest)
  BY <1>1, <1>2, <1>3
<1>8. \A i \in (Len(told) + 1)..Len(told) : told[i].n = all[Len(open \o moved) + i].n
  BY <1>1
<1>9. Len(told) \in 0..Len(told) /\ \A i \in 1..Len(told) : told[i].n = all[i].n
  BY <1>1 DEF Ledger
<1> QED
  BY <1>5, <1>6, <1>7, <1>8, <1>9 DEF Ledger, moved, rest

\* An answer to the first open edit moves the boundary between answered and open.
LEMMA Answered ==
  ASSUME NEW S, NEW told \in Seq(EdToldOf), NEW open \in Seq(S), NEW left \in Seq(S), NEW all \in Seq(S),
         Ledger(Len(told), told, open, left, all), open # <<>>,
         NEW x \in EdToldOf, x.n = Head(open).n
  PROVE  Ledger(Len(Append(told, x)), Append(told, x), Tail(open), left, all)
<1> DEFINE new == Append(told, x)
<1>1. /\ Len(told) \in Nat /\ Len(open) \in Nat /\ Len(left) \in Nat
      /\ Len(all) = Len(told) + Len(open) + Len(left)
  BY LenProperties DEF Ledger
<1>2. /\ Len(new) = Len(told) + 1 /\ new[Len(told) + 1] = x
      /\ \A i \in 1..Len(told) : new[i] = told[i]
  BY Put
<1>3. /\ Len(open) > 0 /\ Head(open) = open[1] /\ Len(Tail(open)) = Len(open) - 1
      /\ \A i \in 1..(Len(open) - 1) : Tail(open)[i] = open[i + 1]
  BY Taken
<1> HIDE DEF new
<1>4. /\ \A i \in 1..Len(told) : told[i].n = all[i].n
      /\ \A i \in 1..Len(open) : open[i] = all[Len(told) + i]
      /\ \A i \in 1..Len(left) : left[i] = all[Len(told) + Len(open) + i]
  BY DEF Ledger, Follows
<1>5. \A i \in 1..Len(new) : new[i].n = all[i].n
  <2> SUFFICES ASSUME NEW i \in 1..(Len(told) + 1) PROVE new[i].n = all[i].n
    BY <1>2
  <2>1. CASE i = Len(told) + 1
    <3>1. 1 \in 1..Len(open)
      BY <1>1, <1>3
    <3> QED
      BY <3>1, <2>1, <1>2, <1>3, <1>4
  <2>2. CASE i # Len(told) + 1
    <3>1. i \in 1..Len(told)
      BY <2>2, <1>1
    <3> QED
      BY <3>1, <1>2, <1>4
  <2> QED
    BY <2>1, <2>2
<1>6. Follows(Tail(open), all, Len(new))
  <2> SUFFICES ASSUME NEW i \in 1..(Len(open) - 1) PROVE Tail(open)[i] = all[Len(new) + i]
    BY <1>3 DEF Follows
  <2>1. i + 1 \in 1..Len(open) /\ Len(told) + (i + 1) = Len(new) + i
    BY <1>1, <1>2
  <2> QED
    BY <2>1, <1>3, <1>4
<1>7. Len(new) + Len(Tail(open)) = Len(told) + Len(open)
  BY <1>1, <1>2, <1>3
<1>8. Follows(left, all, Len(new) + Len(Tail(open)))
  BY <1>4, <1>7 DEF Follows
<1>9. /\ Len(new) \in 0..Len(new) /\ Len(all) = Len(new) + Len(Tail(open)) + Len(left)
      /\ (Len(new) + 1)..Len(new) = {}
  BY <1>1, <1>2, <1>7
<1> QED
  BY <1>5, <1>6, <1>8, <1>9 DEF Ledger, new

\* The first edit left is given back as stopped: it overtakes the open ones, if any.
LEMMA GivenBack ==
  ASSUME NEW S, NEW told \in Seq(EdToldOf), NEW open \in Seq(S), NEW left \in Seq(S), NEW all \in Seq(S),
         NEW m, Ledger(m, told, open, left, all), left # <<>>,
         NEW x \in EdToldOf, x.n = Head(left).n
  PROVE  /\ Ledger(m, Append(told, x), open, Tail(left), all)
         /\ open = <<>> => Ledger(Len(Append(told, x)), Append(told, x), open, Tail(left), all)
<1> DEFINE new == Append(told, x)
<1>1. /\ Len(told) \in Nat /\ Len(open) \in Nat /\ Len(left) \in Nat /\ m \in Nat /\ m <= Len(told)
      /\ Len(all) = Len(told) + Len(open) + Len(left)
  BY LenProperties DEF Ledger
<1>2. /\ Len(new) = Len(told) + 1 /\ new[Len(told) + 1] = x
      /\ \A i \in 1..Len(told) : new[i] = told[i]
  BY Put
<1>3. /\ Len(left) > 0 /\ Head(left) = left[1] /\ Len(Tail(left)) = Len(left) - 1
      /\ \A i \in 1..(Len(left) - 1) : Tail(left)[i] = left[i + 1]
  BY Taken
<1> HIDE DEF new
<1>4. /\ \A i \in 1..m : told[i].n = all[i].n
      /\ \A i \in 1..Len(open) : open[i] = all[m + i]
      /\ \A i \in (m + 1)..Len(told) : told[i].n = all[Len(open) + i].n
      /\ \A i \in 1..Len(left) : left[i] = all[Len(told) + Len(open) + i]
  BY DEF Ledger, Follows
<1>5. \A i \in 1..m : new[i].n = all[i].n
  <2>1. \A i \in 1..m : i \in 1..Len(told)
    BY <1>1
  <2> QED
    BY <2>1, <1>2, <1>4
<1>6. \A i \in (m + 1)..Len(new) : new[i].n = all[Len(open) + i].n
  <2> SUFFICES ASSUME NEW i \in (m + 1)..(Len(told) + 1) PROVE new[i].n = all[Len(open) + i].n
    BY <1>2
  <2>1. CASE i = Len(told) + 1
    <3>1. 1 \in 1..Len(left) /\ Len(told) + Len(open) + 1 = Len(open) + i
      BY <2>1, <1>1, <1>3
    <3>2. left[1] = all[Len(open) + i]
      BY <3>1, <1>4
    <3> QED
      BY <3>2, <2>1, <1>2, <1>3
  <2>2. CASE i # Len(told) + 1
    <3>1. i \in (m + 1)..Len(told) /\ i \in 1..Len(told)
      BY <2>2, <1>1
    <3> QED
      BY <3>1, <1>2, <1>4
  <2> QED
    BY <2>1, <2>2
<1>7. Follows(Tail(left), all, Len(new) + Len(open))
  <2> SUFFICES ASSUME NEW i \in 1..(Len(left) - 1) PROVE Tail(left)[i] = all[Len(new) + Len(open) + i]
    BY <1>3 DEF Follows
  <2>1. i + 1 \in 1..Len(left) /\ Len(told) + Len(open) + (i + 1) = Len(new) + Len(open) + i
    BY <1>1, <1>2
  <2>2. Tail(left)[i] = left[i + 1] /\ left[i + 1] = all[Len(told) + Len(open) + (i + 1)]
    BY <2>1, <1>3, <1>4
  <2> QED
    BY <2>1, <2>2
<1>8. Len(all) = Len(new) + Len(open) + Len(Tail(left)) /\ m \in 0..Len(new)
  BY <1>1, <1>2, <1>3
<1>9. Follows(open, all, m)
  BY DEF Ledger
<1>10. Ledger(m, new, open, Tail(left), all)
  BY <1>5, <1>6, <1>7, <1>8, <1>9 DEF Ledger
<1>11. ASSUME open = <<>> PROVE Ledger(Len(new), new, open, Tail(left), all)
  <2>1. Len(open) = 0
    BY <1>11, EmptySeq
  <2>2. \A i \in 1..Len(new) : new[i].n = all[i].n
    <3> SUFFICES ASSUME NEW i \in 1..Len(new) PROVE new[i].n = all[i].n
      OBVIOUS
    <3>1. CASE i <= m
      <4>1. i \in 1..m
        BY <3>1, <1>1
      <4> QED
        BY <4>1, <1>5
    <3>2. CASE ~(i <= m)
      <4>1. i \in (m + 1)..Len(new) /\ Len(open) + i = i
        BY <3>2, <1>1, <1>2, <2>1
      <4> QED
        BY <4>1, <1>6
    <3> QED
      BY <3>1, <3>2
  <2>3. /\ Len(new) \in 0..Len(new) /\ (Len(new) + 1)..Len(new) = {} /\ 1..Len(open) = {}
    BY <1>1, <1>2, <2>1
  <2> QED
    BY <2>2, <2>3, <1>7, <1>8 DEF Ledger, Follows
<1> QED
  BY <1>10, <1>11 DEF new

\* The edits of a list, one by one.
Distinct(q) == \A i, j \in 1..Len(q) : q[i].n = q[j].n => i = j

\* Open edits, edits left and answered ones are different edits, and all there are.
Separate(told, open, left, all) ==
  /\ Distinct(told) /\ Distinct(open) /\ Distinct(left)
  /\ \A i \in 1..Len(open) : \A k \in 1..Len(told) : open[i].n # told[k].n
  /\ \A i \in 1..Len(left) : \A k \in 1..Len(told) : left[i].n # told[k].n
  /\ \A i \in 1..Len(left) : \A k \in 1..Len(open) : left[i].n # open[k].n
  /\ \A i \in 1..Len(told) : \E k \in 1..Len(all) : told[i].n = all[k].n
  /\ \A i \in 1..Len(open) : \E k \in 1..Len(all) : open[i].n = all[k].n
  /\ \A i \in 1..Len(left) : \E k \in 1..Len(all) : left[i].n = all[k].n
  /\ \A k \in 1..Len(all) : \/ \E i \in 1..Len(told) : told[i].n = all[k].n
                            \/ \E i \in 1..Len(open) : open[i].n = all[k].n
                            \/ \E i \in 1..Len(left) : left[i].n = all[k].n

\* Balanced books over different edits name each of them once.
LEMMA Apart ==
  ASSUME NEW S, NEW told \in Seq(EdToldOf), NEW open \in Seq(S), NEW left \in Seq(S), NEW all \in Seq(S),
         NEW m, Ledger(m, told, open, left, all), Distinct(all)
  PROVE  Separate(told, open, left, all)
<1> DEFINE a == Len(told)
           b == Len(open)
           c == Len(left)
           At(i) == IF i <= m THEN i ELSE b + i
<1>1. /\ a \in Nat /\ b \in Nat /\ c \in Nat /\ m \in Nat /\ m <= a /\ Len(all) = a + b + c
  BY LenProperties DEF Ledger
<1>2. \A i \in 1..a : At(i) \in 1..Len(all) /\ told[i].n = all[At(i)].n
  <2> SUFFICES ASSUME NEW i \in 1..a PROVE At(i) \in 1..Len(all) /\ told[i].n = all[At(i)].n
    OBVIOUS
  <2>1. CASE i <= m
    <3>1. i \in 1..m /\ i \in 1..Len(all)
      BY <2>1, <1>1
    <3> QED
      BY <3>1, <2>1 DEF Ledger
  <2>2. CASE ~(i <= m)
    <3>1. i \in (m + 1)..a /\ b + i \in 1..Len(all)
      BY <2>2, <1>1
    <3> QED
      BY <3>1, <2>2 DEF Ledger
  <2> QED
    BY <2>1, <2>2
<1>3. \A i \in 1..b : m + i \in 1..Len(all) /\ open[i] = all[m + i]
  BY <1>1 DEF Ledger, Follows
<1>4. \A i \in 1..c : a + b + i \in 1..Len(all) /\ left[i] = all[a + b + i]
  BY <1>1 DEF Ledger, Follows
<1>5. \A i, j \in 1..Len(all) : all[i].n = all[j].n => i = j
  BY DEF Distinct
<1>6. Distinct(told)
  <2>1. \A i, j \in 1..a : At(i) = At(j) => i = j
    BY <1>1
  <2> QED
    BY <2>1, <1>2, <1>5 DEF Distinct
<1>7. Distinct(open)
  <2> SUFFICES ASSUME NEW i \in 1..b, NEW j \in 1..b, open[i].n = open[j].n PROVE i = j
    BY DEF Distinct
  <2>1. m + i = m + j
    BY <1>3, <1>5
  <2> QED
    BY <2>1, <1>1
<1>8. Distinct(left)
  <2> SUFFICES ASSUME NEW i \in 1..c, NEW j \in 1..c, left[i].n = left[j].n PROVE i = j
    BY DEF Distinct
  <2>1. a + b + i = a + b + j
    BY <1>4, <1>5
  <2> QED
    BY <2>1, <1>1
<1>9. ASSUME NEW i \in 1..b, NEW k \in 1..a PROVE open[i].n # told[k].n
  <2>1. m + i # At(k)
    BY <1>1
  <2>2. open[i].n = all[m + i].n /\ told[k].n = all[At(k)].n
    BY <1>2, <1>3
  <2>3. m + i \in 1..Len(all) /\ At(k) \in 1..Len(all)
    BY <1>2, <1>3
  <2> QED
    BY <2>1, <2>2, <2>3, <1>5
<1>10. ASSUME NEW i \in 1..c, NEW k \in 1..a PROVE left[i].n # told[k].n
  <2>1. a + b + i # At(k)
    BY <1>1
  <2>2. left[i].n = all[a + b + i].n /\ told[k].n = all[At(k)].n
    BY <1>2, <1>4
  <2>3. a + b + i \in 1..Len(all) /\ At(k) \in 1..Len(all)
    BY <1>2, <1>4
  <2> QED
    BY <2>1, <2>2, <2>3, <1>5
<1>11. ASSUME NEW i \in 1..c, NEW k \in 1..b PROVE left[i].n # open[k].n
  <2>1. a + b + i # m + k
    BY <1>1
  <2>2. left[i].n = all[a + b + i].n /\ open[k].n = all[m + k].n
    BY <1>3, <1>4
  <2>3. a + b + i \in 1..Len(all) /\ m + k \in 1..Len(all)
    BY <1>3, <1>4
  <2> QED
    BY <2>1, <2>2, <2>3, <1>5
<1>12. ASSUME NEW k \in 1..Len(all)
       PROVE  \/ \E i \in 1..a : told[i].n = all[k].n
              \/ \E i \in 1..b : open[i].n = all[k].n
              \/ \E i \in 1..c : left[i].n = all[k].n
  <2>1. CASE k <= m
    <3>1. k \in 1..a /\ At(k) = k
      BY <2>1, <1>1
    <3> QED
      BY <3>1, <1>2
  <2>2. CASE ~(k <= m) /\ k <= m + b
    <3>1. k - m \in 1..b /\ m + (k - m) = k
      BY <2>2, <1>1
    <3> QED
      BY <3>1, <1>3
  <2>3. CASE ~(k <= m + b) /\ k <= a + b
    <3>1. k - b \in 1..a /\ At(k - b) = k
      BY <2>3, <1>1
    <3> QED
      BY <3>1, <1>2
  <2>4. CASE ~(k <= a + b)
    <3>1. k - (a + b) \in 1..c /\ a + b + (k - (a + b)) = k
      BY <2>4, <1>1
    <3> QED
      BY <3>1, <1>4
  <2> QED
    BY <2>1, <2>2, <2>3, <2>4, <1>1
<1>13. \A i \in 1..a : \E k \in 1..Len(all) : told[i].n = all[k].n
  <2> HIDE DEF At
  <2> QED
    BY <1>2
<1> QED
  BY <1>3, <1>4, <1>6, <1>7, <1>8, <1>9, <1>10, <1>11, <1>12, <1>13 DEF Separate

-----------------------------------------------------------------------------
(* The invariant. *)

\* Types: the stretches of the run, the flags and counters.
EdFlagTypes ==
  /\ edPhase \in EdRunningPhases \cup {"quitting", "handover", "wait", "gone"}
  /\ edWake \in BOOLEAN /\ edLate \in BOOLEAN
  /\ edRunning \in {"none", "up", "closed"}
  /\ edWorker \in {"none", "idle", "writing", "sending", "stuck", "ended"}
  /\ edMade \in 0..MaxGestures /\ edFaults \in Nat /\ edOutside \in Nat
  /\ edFaults + edOutside <= MaxDisturbances

\* Types: the lists of edits and of answers.
EdLists == [unconfirmed : Seq(EdEdit), unwritten : Seq(EdEdit)]
EdListTypes ==
  /\ edPending \in Seq(EdEdit) /\ edStaged \in Seq(EdEdit) /\ edHanded \in Seq(EdEdit)
  /\ edProjected \in Seq(EdEdit) /\ edChannel \in Seq(EdEdit) /\ edSubmitted \in Seq(EdEdit)
  /\ edReport \in EdLists /\ edAnswered \in Seq(EdAnswer) /\ edTold \in Seq(EdToldOf)
  /\ Len(edChannel) <= EditCapacity /\ Len(edAnswered) <= EditCapacity
  /\ Len(edProjected) <= Len(edSubmitted) /\ Len(edChannel) <= Len(edSubmitted)

\* Types: the configurations, what was refused and what has landed.
EdFileTypes ==
  /\ edLive \in EdConfig /\ edFile \in EdFileConfig
  /\ edRefused \subseteq 1..MaxGestures /\ edLanded \subseteq 1..MaxGestures

\* What the thread has in hand.
EdInHand ==
  /\ edWorker \in {"writing", "stuck"} => edCurrent \in EdEdit
  /\ edWorker = "sending" => edCurrent \in EdAnswer
  /\ edWorker \in {"none", "idle", "ended"} => edCurrent = NoEdit

\* What goes with each stretch of the run.
EdStages ==
  /\ edRunning = "none" <=> edWorker = "none"
  /\ edRunning = "none" => edHanded = <<>> /\ edChannel = <<>> /\ edAnswered = <<>>
  /\ edPhase = "wait" => edRunning = "closed"
  /\ edPhase \in {"handover", "wait", "gone"} => edPending = <<>>
  /\ edPhase # "gone" => edReport = NoReport
  /\ edPhase = "gone" => edHanded = <<>> /\ edStaged = <<>>

\* Each gesture is in one place: pending, refused or submitted.
In(n, q) == \E i \in 1..Len(q) : q[i].n = n
Placed(pending, submitted, refused, made) ==
  /\ \A n : In(n, pending) => n <= made /\ n \notin refused /\ ~In(n, submitted)
  /\ \A n : In(n, submitted) => n <= made /\ n \notin refused
  /\ \A n \in refused : n <= made
  /\ \A n \in 1..made : n \in refused \/ In(n, pending) \/ In(n, submitted)
EdCounted ==
  /\ Distinct(edSubmitted) /\ Distinct(edPending)
  /\ Placed(edPending, edSubmitted, edRefused, edMade)
  /\ Len(edSubmitted) + Len(edPending) <= edMade

\* Each submitted edit is in one place, and only a worker that is lost, and drained,
\* is overtaken.
EdOpen == IF edPhase = "gone" THEN edReport.unconfirmed ELSE edHanded
EdLeft == IF edPhase = "gone" THEN edReport.unwritten ELSE edStaged
Books(told, open, left, all, worker, answered) ==
  \E m \in 0..Len(told) : /\ Ledger(m, told, open, left, all)
                          /\ m = Len(told) \/ (worker = "ended" /\ answered = <<>>)
EdBooks == Books(edTold, EdOpen, EdLeft, edSubmitted, edWorker, edAnswered)

\* The open edits are the ones answered, the one in hand and the ones in the channel.
InHand(worker, current) == IF worker = "sending" THEN current.e ELSE current
Pipe(worker, current, answered, channel, open) ==
  LET busy == IF worker \in {"writing", "sending", "stuck"} THEN 1 ELSE 0 IN
    /\ Len(answered) <= Len(open)
    /\ \A i \in 1..Len(answered) : open[i] = answered[i].e
    /\ worker # "ended" =>
         /\ Len(open) = Len(answered) + busy + Len(channel)
         /\ Follows(channel, open, Len(answered) + busy)
         /\ busy = 1 => open[Len(answered) + 1] = InHand(worker, current)
Outlives(worker, current, channel, open) ==
  /\ \A i \in 1..Len(channel) : \E k \in 1..Len(open) : channel[i].n = open[k].n
  /\ worker = "writing" => \E k \in 1..Len(open) : current.n = open[k].n
EdThread ==
  /\ edPhase # "gone" => Pipe(edWorker, edCurrent, edAnswered, edChannel, edHanded)
  /\ edPhase = "gone" /\ edWorker # "ended" => Outlives(edWorker, edCurrent, edChannel, EdOpen)

\* An answer is true of the file.
Right(n, result, landed) ==
  /\ result = "wrote" => n \in landed
  /\ result \in {"current", "claimed", "stopped"} => n \notin landed
EdLanding ==
  /\ \A n \in edLanded : \E k \in 1..Len(edSubmitted) : edSubmitted[k].n = n
  /\ \A i \in 1..Len(edTold) : Right(edTold[i].n, edTold[i].result, edLanded)
  /\ \A i \in 1..Len(EdLeft) : EdLeft[i].n \notin edLanded
EdUnderway ==
  /\ \A i \in 1..Len(edAnswered) : Right(edAnswered[i].e.n, edAnswered[i].result, edLanded)
  /\ edWorker = "sending" => Right(edCurrent.e.n, edCurrent.result, edLanded)
  /\ edWorker = "writing" => edCurrent.n \notin edLanded
  /\ edWorker # "ended" => \A i \in 1..Len(edChannel) : edChannel[i].n \notin edLanded

\* Without a fault the worker lives until everything is handed over and answered.
EdSmooth ==
  edFaults = 0 =>
    /\ edPhase \notin {"wait", "gone"} => edRunning # "closed" /\ edWorker # "ended"
    /\ edPhase = "wait" /\ ~edLate => edStaged = <<>>
    /\ edPhase # "gone" /\ edWorker = "ended" => Len(edHanded) = Len(edAnswered)
    /\ edPhase = "gone" /\ ~edLate => edReport = NoReport

\* The inductive invariant.
EditsInv ==
  /\ EdFlagTypes /\ EdListTypes /\ EdFileTypes /\ EdInHand /\ EdStages /\ EdCounted
  /\ EdBooks /\ EdThread /\ EdLanding /\ (edPhase # "gone" => EdUnderway) /\ EdSmooth

-----------------------------------------------------------------------------
(* What the invariant says of the report. *)

\* Different edits have as many numbers.
LEMMA Counting ==
  ASSUME NEW S, NEW q \in Seq(S), Distinct(q)
  PROVE  Cardinality({q[i].n : i \in 1..Len(q)}) = Len(q)
<1> DEFINE names == {q[i].n : i \in 1..Len(q)}
           f == [i \in 1..Len(q) |-> q[i].n]
<1>1. Len(q) \in Nat
  BY LenProperties
<1>2. IsFiniteSet(1..Len(q)) /\ Cardinality(1..Len(q)) = Len(q)
  <2>1. 1 \in Int /\ Len(q) \in Int
    BY <1>1
  <2>2. /\ IsFiniteSet(1..Len(q))
        /\ Cardinality(1..Len(q)) = IF 1 > Len(q) THEN 0 ELSE Len(q) - 1 + 1
    BY <2>1, FS_Interval
  <2> QED
    BY <2>2, <1>1
<1>3. f \in Injection(1..Len(q), names)
  <2>1. f \in [1..Len(q) -> names]
    OBVIOUS
  <2>2. \A i, j \in 1..Len(q) : f[i] = f[j] => i = j
    BY DEF Distinct
  <2> QED
    BY <2>1, <2>2 DEF Injection, IsInjective
<1>4. f \in Surjection(1..Len(q), names)
  BY DEF Surjection
<1>5. ExistsBijection(1..Len(q), names)
  BY <1>3, <1>4 DEF ExistsBijection, Bijection
<1> HIDE DEF f, names
<1>6. Cardinality(names) = Cardinality(1..Len(q))
  BY <1>2, <1>5, FS_Bijection
<1> QED
  BY <1>2, <1>6 DEF names

\* The numbers of a list of edits, in its order.
LEMMA Numbers ==
  ASSUME NEW S, NEW q \in Seq(S), \A i \in 1..Len(q) : q[i].n \in Nat
  PROVE  /\ EdNumbers(q) \in Seq(Nat) /\ Len(EdNumbers(q)) = Len(q)
         /\ \A i \in 1..Len(q) : EdNumbers(q)[i] = q[i].n
<1> DEFINE f == [i \in 1..Len(q) |-> q[i].n]
<1>1. Len(q) \in Nat /\ DOMAIN q = 1..Len(q)
  BY LenProperties
<1>2. EdNumbers(q) = f
  BY <1>1 DEF EdNumbers
<1>3. f \in [1..Len(q) -> Nat]
  OBVIOUS
<1>4. f \in Seq(Nat)
  BY <1>1, <1>3, SeqDef
<1>5. DOMAIN f = 1..Len(f) /\ Len(f) \in Nat /\ DOMAIN f = 1..Len(q)
  BY <1>4, LenProperties
<1>6. Len(f) = Len(q)
  BY <1>1, <1>5
<1> QED
  BY <1>2, <1>4, <1>6

\* The numbers of a list whose first answers are all there are: a prefix.
LEMMA InFront ==
  ASSUME NEW S, NEW told \in Seq(EdToldOf), NEW all \in Seq(S), Len(told) <= Len(all),
         \A i \in 1..Len(all) : all[i].n \in Nat,
         \A i \in 1..Len(told) : told[i].n = all[i].n
  PROVE  IsPrefix(EdNumbers(told), EdNumbers(all))
<1> DEFINE s == EdNumbers(told)
           t == EdNumbers(all)
<1>1. Len(told) \in Nat /\ Len(all) \in Nat
  BY LenProperties
<1>2. \A i \in 1..Len(told) : told[i].n \in Nat
  <2>1. \A i \in 1..Len(told) : i \in 1..Len(all)
    BY <1>1
  <2> QED
    BY <2>1
<1>3. s \in Seq(Nat) /\ Len(s) = Len(told) /\ \A i \in 1..Len(told) : s[i] = told[i].n
  BY <1>2, Numbers
<1>4. t \in Seq(Nat) /\ Len(t) = Len(all) /\ \A i \in 1..Len(all) : t[i] = all[i].n
  BY Numbers
<1> HIDE DEF s, t
<1>5. Len(s) \in 0..Len(s) /\ Len(s) \in 0..Len(t)
  BY <1>1, <1>3, <1>4
<1>6. /\ SubSeq(s, 1, Len(s)) \in Seq(Nat) /\ Len(SubSeq(s, 1, Len(s))) = Len(s)
      /\ \A i \in 1..Len(s) : SubSeq(s, 1, Len(s))[i] = s[i]
  BY <1>3, <1>5, Cut
<1>7. /\ SubSeq(t, 1, Len(s)) \in Seq(Nat) /\ Len(SubSeq(t, 1, Len(s))) = Len(s)
      /\ \A i \in 1..Len(s) : SubSeq(t, 1, Len(s))[i] = t[i]
  BY <1>4, <1>5, Cut
<1>8. \A i \in 1..Len(s) : s[i] = t[i]
  <2>1. \A i \in 1..Len(s) : i \in 1..Len(told) /\ i \in 1..Len(all)
    BY <1>1, <1>3
  <2> QED
    BY <2>1, <1>3, <1>4
<1>9. SubSeq(s, 1, Len(s)) = SubSeq(t, 1, Len(s))
  <2>1. Len(SubSeq(s, 1, Len(s))) = Len(SubSeq(t, 1, Len(s)))
    BY <1>6, <1>7
  <2>2. \A i \in 1..Len(SubSeq(s, 1, Len(s))) : SubSeq(s, 1, Len(s))[i] = SubSeq(t, 1, Len(s))[i]
    BY <1>6, <1>7, <1>8
  <2> QED
    BY <2>1, <2>2, <1>6, <1>7, SeqEqual
<1>10. Len(s) <= Len(t)
  BY <1>3, <1>4
<1> QED
  BY <1>9, <1>10 DEF IsPrefix, s, t

\* The books name the answers in the order of the edits.
LEMMA InTurn ==
  ASSUME NEW S, NEW told \in Seq(EdToldOf), NEW open \in Seq(S), NEW left \in Seq(S), NEW all \in Seq(S),
         NEW m, Ledger(m, told, open, left, all), Distinct(all),
         NEW i \in 1..Len(told), NEW j \in 1..Len(told),
         NEW k \in 1..Len(all), NEW l \in 1..Len(all),
         i < j, told[i].n = all[k].n, told[j].n = all[l].n
  PROVE  k < l
<1> DEFINE At(x) == IF x <= m THEN x ELSE Len(open) + x
<1>1. /\ Len(told) \in Nat /\ Len(open) \in Nat /\ Len(left) \in Nat /\ m \in Nat /\ m <= Len(told)
      /\ Len(all) = Len(told) + Len(open) + Len(left)
  BY LenProperties DEF Ledger
<1>2. ASSUME NEW x \in 1..Len(told) PROVE At(x) \in 1..Len(all) /\ told[x].n = all[At(x)].n
  <2>1. CASE x <= m
    <3>1. x \in 1..m /\ x \in 1..Len(all)
      BY <2>1, <1>1
    <3> QED
      BY <3>1, <2>1 DEF Ledger
  <2>2. CASE ~(x <= m)
    <3>1. x \in (m + 1)..Len(told) /\ Len(open) + x \in 1..Len(all)
      BY <2>2, <1>1
    <3> QED
      BY <3>1, <2>2 DEF Ledger
  <2> QED
    BY <2>1, <2>2
<1>3. At(i) < At(j)
  BY <1>1
<1>4. At(i) \in 1..Len(all) /\ told[i].n = all[At(i)].n
  BY <1>2
<1>5. At(j) \in 1..Len(all) /\ told[j].n = all[At(j)].n
  BY <1>2
<1> HIDE DEF At
<1>6. k = At(i) /\ l = At(j)
  BY <1>4, <1>5 DEF Distinct
<1> QED
  BY <1>3, <1>6

\* What is open and what is left, of one run.
LEMMA Lists ==
  ASSUME EdListTypes
  PROVE  /\ EdOpen \in Seq(EdEdit) /\ EdLeft \in Seq(EdEdit) /\ edTold \in Seq(EdToldOf)
         /\ edSubmitted \in Seq(EdEdit)
  BY DEF EdListTypes, EdLists, EdOpen, EdLeft

\* The numbers of a list of edits, as a set.
LEMMA Names ==
  ASSUME NEW S, NEW q \in Seq(S)
  PROVE  EdNamed(q) = {q[i].n : i \in 1..Len(q)}
<1>1. DOMAIN q = 1..Len(q)
  BY LenProperties
<1> QED
  BY <1>1 DEF EdNamed

\* No edits, no numbers.
LEMMA NoNames == EdNamed(<<>>) = {}
<1>1. <<>> \in Seq({}) /\ Len(<<>>) = 0
  BY EmptySeq
<1>2. EdNamed(<<>>) = {<<>>[i].n : i \in 1..0}
  BY <1>1, Names
<1>3. 1..0 = {}
  OBVIOUS
<1> QED
  BY <1>2, <1>3

\* The edits that are open and those that are left, before teardown and after it.
LEMMA Places ==
  ASSUME EdListTypes, EdStages
  PROVE  /\ EdNamed(edHanded) \cup EdNamed(edReport.unconfirmed) = EdNamed(EdOpen)
         /\ EdNamed(edStaged) \cup EdNamed(edReport.unwritten) = EdNamed(EdLeft)
<1>1. CASE edPhase = "gone"
  <2>1. edHanded = <<>> /\ edStaged = <<>> /\ EdOpen = edReport.unconfirmed /\ EdLeft = edReport.unwritten
    BY <1>1 DEF EdStages, EdOpen, EdLeft
  <2> QED
    BY <2>1, NoNames
<1>2. CASE edPhase # "gone"
  <2>1. EdOpen = edHanded /\ EdLeft = edStaged
    BY <1>2 DEF EdOpen, EdLeft
  <2>2. edReport.unconfirmed = <<>> /\ edReport.unwritten = <<>>
    BY <1>2 DEF EdStages, NoReport
  <2> QED
    BY <2>1, <2>2, NoNames
<1> QED
  BY <1>1, <1>2

\* The invariant implies what the report is claimed to say.
LEMMA InvTruthful == EditsInv => EditsReportTruthful
<1> SUFFICES ASSUME EditsInv PROVE EditsReportTruthful
  OBVIOUS
<1>I. /\ EdListTypes /\ EdFlagTypes /\ EdStages /\ EdCounted /\ EdBooks /\ EdLanding /\ EdSmooth
  BY DEF EditsInv
<1> DEFINE T == EdTolds(EdResult)
           O == EdNamed(edHanded) \cup EdNamed(edReport.unconfirmed)
           L == EdNamed(edStaged) \cup EdNamed(edReport.unwritten)
<1>L. /\ EdOpen \in Seq(EdEdit) /\ EdLeft \in Seq(EdEdit) /\ edTold \in Seq(EdToldOf)
      /\ edSubmitted \in Seq(EdEdit)
  BY <1>I, Lists
<1>N. /\ Len(edTold) \in Nat /\ Len(EdOpen) \in Nat /\ Len(EdLeft) \in Nat /\ Len(edSubmitted) \in Nat
      /\ DOMAIN edTold = 1..Len(edTold) /\ \A i \in 1..Len(edTold) : edTold[i] \in EdToldOf
      /\ DOMAIN edSubmitted = 1..Len(edSubmitted)
  BY <1>L, LenProperties
<1>R. \A i \in 1..Len(edTold) : edTold[i].result \in EdResult
  BY <1>N DEF EdToldOf
<1>T. \A results : EdTolds(results) =
        {edTold[i].n : i \in {j \in 1..Len(edTold) : edTold[j].result \in results}}
  BY <1>N DEF EdTolds
<1>1. T = {edTold[i].n : i \in 1..Len(edTold)}
  <2>1. {j \in 1..Len(edTold) : edTold[j].result \in EdResult} = 1..Len(edTold)
    BY <1>R
  <2> QED
    BY <2>1, <1>T
<1>2. O = {EdOpen[i].n : i \in 1..Len(EdOpen)}
  BY <1>I, <1>L, Places, Names
<1>3. L = {EdLeft[i].n : i \in 1..Len(EdLeft)}
  BY <1>I, <1>L, Places, Names
<1>4. EdNamed(edSubmitted) = {edSubmitted[i].n : i \in 1..Len(edSubmitted)}
  BY <1>L, Names
<1>5. PICK m \in 0..Len(edTold) :
        /\ Ledger(m, edTold, EdOpen, EdLeft, edSubmitted)
        /\ m = Len(edTold) \/ (edWorker = "ended" /\ edAnswered = <<>>)
  BY <1>I DEF EdBooks, Books
<1>D. Distinct(edSubmitted)
  BY <1>I DEF EdCounted
<1>S. Separate(edTold, EdOpen, EdLeft, edSubmitted)
  BY <1>L, <1>5, <1>D, Apart
<1>6. /\ Distinct(edTold) /\ Distinct(EdOpen) /\ Distinct(EdLeft)
      /\ \A i \in 1..Len(edTold) : \E k \in 1..Len(edSubmitted) : edTold[i].n = edSubmitted[k].n
      /\ \A i \in 1..Len(EdOpen) : \E k \in 1..Len(edSubmitted) : EdOpen[i].n = edSubmitted[k].n
      /\ \A i \in 1..Len(EdLeft) : \E k \in 1..Len(edSubmitted) : EdLeft[i].n = edSubmitted[k].n
      /\ \A k \in 1..Len(edSubmitted) :
           \/ \E i \in 1..Len(edTold) : edTold[i].n = edSubmitted[k].n
           \/ \E i \in 1..Len(EdOpen) : EdOpen[i].n = edSubmitted[k].n
           \/ \E i \in 1..Len(EdLeft) : EdLeft[i].n = edSubmitted[k].n
  BY <1>S DEF Separate
<1>M. Len(edSubmitted) = Len(edTold) + Len(EdOpen) + Len(EdLeft)
  BY <1>5 DEF Ledger
<1> HIDE DEF T, O, L
<1>7. T \cup O \cup L = EdNamed(edSubmitted)
  <2>1. T \subseteq EdNamed(edSubmitted) /\ O \subseteq EdNamed(edSubmitted)
    BY ONLY <1>1, <1>2, <1>4, <1>6
  <2>2. L \subseteq EdNamed(edSubmitted)
    BY ONLY <1>3, <1>4, <1>6
  <2>3. EdNamed(edSubmitted) \subseteq T \cup O \cup L
    BY ONLY <1>1, <1>2, <1>3, <1>4, <1>6, SMTT(30)
  <2> QED
    BY <2>1, <2>2, <2>3
<1>8. Cardinality(T) + Cardinality(O) + Cardinality(L) = Len(edSubmitted)
  <2>1. Cardinality(T) = Len(edTold)
    BY <1>1, <1>6, <1>L, Counting
  <2>2. Cardinality(O) = Len(EdOpen)
    BY <1>2, <1>6, <1>L, Counting
  <2>3. Cardinality(L) = Len(EdLeft)
    BY <1>3, <1>6, <1>L, Counting
  <2> QED
    BY <2>1, <2>2, <2>3, <1>M
<1>9. EdInOrder
  <2>1. ASSUME NEW i \in DOMAIN edTold, NEW j \in DOMAIN edTold,
               NEW k \in DOMAIN edSubmitted, NEW l \in DOMAIN edSubmitted,
               i < j, edTold[i].n = edSubmitted[k].n, edTold[j].n = edSubmitted[l].n
        PROVE  k < l
    <3>1. /\ i \in 1..Len(edTold) /\ j \in 1..Len(edTold)
          /\ k \in 1..Len(edSubmitted) /\ l \in 1..Len(edSubmitted)
      BY <1>N
    <3> QED
      BY <3>1, <2>1, <1>L, <1>5, <1>D, InTurn
  <2>2. ASSUME edWorker # "ended" PROVE IsPrefix(EdNumbers(edTold), EdNumbers(edSubmitted))
    <3>1. m = Len(edTold)
      BY <2>2, <1>5
    <3>2. \A i \in 1..Len(edTold) : edTold[i].n = edSubmitted[i].n
      BY <3>1, <1>5 DEF Ledger
    <3>3. Len(edTold) <= Len(edSubmitted)
      BY <1>M, <1>N
    <3>4. \A i \in 1..Len(edSubmitted) : edSubmitted[i].n \in Nat
      <4>1. \A i \in 1..Len(edSubmitted) : edSubmitted[i] \in EdEdit
        BY <1>L, ElementOfSeq
      <4> QED
        BY <4>1, EditsAssumption DEF EdEdit
    <3> QED
      BY <3>2, <3>3, <3>4, <1>L, InFront
  <2> QED
    BY <2>1, <2>2 DEF EdInOrder
<1>10. EdTolds({"wrote"}) \subseteq edLanded
  BY <1>T, <1>I DEF EdLanding, Right
<1>11. edLanded \cap EdTolds({"current", "claimed", "stopped"}) = {}
  BY <1>T, <1>I DEF EdLanding, Right
<1>12. edLanded \cap L = {}
  BY <1>3, <1>I DEF EdLanding
<1>13. edLanded \cap edRefused = {}
  <2>1. \A n \in edLanded : In(n, edSubmitted)
    BY <1>I DEF EdLanding, In
  <2> QED
    BY <2>1, <1>I DEF EdCounted, Placed
<1>14. ASSUME edPhase = "gone", ~edLate, edFaults = 0
       PROVE  edReport = NoReport /\ edMade = Cardinality(T \cup edRefused)
  <2>1. edReport = NoReport
    BY <1>14, <1>I DEF EdSmooth
  <2>2. EdOpen = <<>> /\ EdLeft = <<>> /\ edPending = <<>>
    BY <2>1, <1>14, <1>I DEF EdOpen, EdLeft, NoReport, EdStages
  <2>3. Len(<<>>) = 0
    BY EmptySeq
  <2>4. O = {} /\ L = {}
    BY <1>2, <1>3, <2>2, <2>3
  <2>5. edMade \in Nat /\ edMade \in Int /\ 1 \in Int
    BY <1>I, EditsAssumption DEF EdFlagTypes
  <2>6. \A n \in 1..edMade : n \in edRefused \/ n \in EdNamed(edSubmitted)
    <3>1. \A n : ~In(n, edPending)
      BY <2>2, <2>3 DEF In
    <3>2. \A n \in 1..edMade : n \in edRefused \/ In(n, edPending) \/ In(n, edSubmitted)
      BY <1>I DEF EdCounted, Placed
    <3>3. \A n : In(n, edSubmitted) => n \in EdNamed(edSubmitted)
      BY <1>4 DEF In
    <3> QED
      BY <3>1, <3>2, <3>3
  <2>7. T \cup edRefused \subseteq 1..edMade
    <3>1. \A i \in 1..Len(edTold) : edTold[i].n \in Nat \ {0}
      BY <1>N, EditsAssumption DEF EdToldOf
    <3>2. \A n \in edRefused : n \in Nat \ {0} /\ n <= edMade
      BY <1>I, EditsAssumption DEF EditsInv, EdFileTypes, EdCounted, Placed
    <3>3. \A i \in 1..Len(edTold) : edTold[i].n <= edMade
      <4>1. \A i \in 1..Len(edTold) : In(edTold[i].n, edSubmitted)
        BY <1>6 DEF In
      <4> QED
        BY <4>1, <1>I DEF EdCounted, Placed
    <3> QED
      BY <3>1, <3>2, <3>3, <1>1, <2>5
  <2>8. T \cup edRefused = 1..edMade
    BY <2>4, <2>6, <2>7, <1>7
  <2>9. Cardinality(1..edMade) = IF 1 > edMade THEN 0 ELSE edMade - 1 + 1
    BY <2>5, FS_Interval
  <2> QED
    BY <2>1, <2>5, <2>8, <2>9
<1> QED
  BY <1>7, <1>8, <1>9, <1>10, <1>11, <1>12, <1>13, <1>14 DEF EditsReportTruthful, T, O, L

-----------------------------------------------------------------------------
(* The pump. *)

\* What pump works on, see EdQueues.
EdQ == [running : {"none", "up", "closed"},
        worker : {"none", "idle", "writing", "sending", "stuck", "ended"}, faults : Nat,
        staged : Seq(EdEdit), handed : Seq(EdEdit), channel : Seq(EdEdit)]

\* The first j staged edits are handed over.
Moved(p, q, j) ==
  LET moved == SubSeq(p.staged, 1, j) IN
  /\ q.staged = SubSeq(p.staged, j + 1, Len(p.staged))
  /\ q.handed = p.handed \o moved /\ q.channel = p.channel \o moved
  /\ Len(q.channel) <= EditCapacity
  /\ q.running = p.running /\ q.worker = p.worker /\ q.faults = p.faults

\* EdTransferred hands over a first part of what is staged, as far as there is room.
LEMMA Transfer ==
  ASSUME NEW p \in EdQ, Len(p.channel) <= EditCapacity
  PROVE  /\ EdTransferred(p) \in EdQ
         /\ \E j \in 0..Len(p.staged) : Moved(p, EdTransferred(p), j)
<1> DEFINE room == EditCapacity - Len(p.channel)
           k == IF Len(p.staged) < room THEN Len(p.staged) ELSE room
           moved == SubSeq(p.staged, 1, k)
           rest == SubSeq(p.staged, k + 1, Len(p.staged))
<1>1. /\ p.staged \in Seq(EdEdit) /\ p.handed \in Seq(EdEdit) /\ p.channel \in Seq(EdEdit)
      /\ Len(p.staged) \in Nat /\ Len(p.channel) \in Nat /\ EditCapacity \in Nat
  <2>1. p.staged \in Seq(EdEdit) /\ p.handed \in Seq(EdEdit) /\ p.channel \in Seq(EdEdit)
    BY DEF EdQ
  <2> QED
    BY <2>1, LenProperties, EditsAssumption
<1>2. k \in 0..Len(p.staged) /\ k <= room /\ room \in Nat
  <2>1. \A a, b, c \in Nat : b <= c => /\ c - b \in Nat /\ (IF a < c - b THEN a ELSE c - b) \in 0..a
                                       /\ (IF a < c - b THEN a ELSE c - b) <= c - b
    OBVIOUS
  <2> QED
    BY <2>1, <1>1
<1> HIDE DEF k
<1>3. /\ moved \in Seq(EdEdit) /\ Len(moved) = k /\ rest \in Seq(EdEdit)
  BY <1>1, <1>2, Cut
<1> HIDE DEF moved, rest
<1>4. /\ p.handed \o moved \in Seq(EdEdit) /\ p.channel \o moved \in Seq(EdEdit)
      /\ Len(p.channel \o moved) = Len(p.channel) + k
  BY <1>1, <1>3, Joined, ZenonT(40) DEF Joins
<1>5. EdTransferred(p) = [p EXCEPT !.channel = @ \o moved, !.handed = @ \o moved, !.staged = rest]
  BY DEF EdTransferred, moved, rest, k
<1>6. Len(p.channel) + k <= EditCapacity
  BY <1>1, <1>2
<1>7. /\ EdTransferred(p).staged = rest /\ EdTransferred(p).handed = p.handed \o moved
      /\ EdTransferred(p).channel = p.channel \o moved
      /\ EdTransferred(p).running = p.running /\ EdTransferred(p).worker = p.worker
      /\ EdTransferred(p).faults = p.faults
  BY <1>5 DEF EdQ
<1>8. EdTransferred(p) \in EdQ
  BY <1>3, <1>4, <1>5 DEF EdQ
<1>9. Moved(p, EdTransferred(p), k)
  BY <1>4, <1>6, <1>7 DEF Moved, moved, rest
<1> QED
  BY <1>2, <1>8, <1>9

\* What a pump may come to.
Pumped(p, q) ==
  \/ q = p /\ (p.staged = <<>> \/ p.running = "closed")
  \/ q = [p EXCEPT !.faults = @ + 1] /\ p.running = "none" /\ q.faults + edOutside <= MaxDisturbances
  \/ q = [p EXCEPT !.running = "closed"] /\ p.running = "up" /\ p.worker = "ended"
  \/ \E j \in 0..Len(p.staged) :
       \/ p.running = "up" /\ p.worker # "ended" /\ Moved(p, q, j)
       \/ p.running = "none" /\ Moved([p EXCEPT !.running = "up", !.worker = "idle"], q, j)

\* Each outcome of pump is one of Pumped.
LEMMA Pumping ==
  ASSUME EdFlagTypes, EdListTypes, NEW staged \in Seq(EdEdit), NEW q \in EdPumped(staged)
  PROVE  EdQueues(staged) \in EdQ /\ q \in EdQ /\ Pumped(EdQueues(staged), q)
<1> DEFINE p == EdQueues(staged)
           up == [p EXCEPT !.running = "up", !.worker = "idle"]
<1>1. p \in EdQ
  <2>1. /\ edRunning \in {"none", "up", "closed"}
        /\ edWorker \in {"none", "idle", "writing", "sending", "stuck", "ended"} /\ edFaults \in Nat
    BY DEF EdFlagTypes
  <2>2. edHanded \in Seq(EdEdit) /\ edChannel \in Seq(EdEdit)
    BY DEF EdListTypes
  <2> QED
    BY <2>1, <2>2 DEF EdQueues, EdQ
<1>2. /\ p.staged = staged /\ p.running = edRunning /\ p.worker = edWorker
      /\ Len(p.channel) <= EditCapacity
  BY DEF EdQueues, EdListTypes
<1>3. up \in EdQ /\ Len(up.channel) <= EditCapacity /\ up.staged = staged
  BY <1>1, <1>2 DEF EdQ
<1>4. CASE staged = <<>> \/ edRunning = "closed"
  <2>1. q = p
    BY <1>4 DEF EdPumped
  <2> QED
    BY <2>1, <1>1, <1>2, <1>4 DEF Pumped
<1>5. CASE ~(staged = <<>> \/ edRunning = "closed") /\ edRunning = "none"
  <2>1. \/ q = EdTransferred(up)
        \/ q = [p EXCEPT !.faults = @ + 1] /\ q.faults + edOutside <= MaxDisturbances
    BY <1>5 DEF EdPumped
  <2>2. CASE q = EdTransferred(up)
    <3>1. q \in EdQ /\ \E j \in 0..Len(staged) : Moved(up, q, j)
      BY <2>2, <1>3, Transfer
    <3> QED
      BY <3>1, <1>1, <1>2, <1>5 DEF Pumped
  <2>3. CASE q = [p EXCEPT !.faults = @ + 1] /\ q.faults + edOutside <= MaxDisturbances
    <3>1. q \in EdQ
      <4>1. p.faults + 1 \in Nat
        BY <1>1 DEF EdQ
      <4> QED
        BY <4>1, <2>3, <1>1 DEF EdQ
    <3> QED
      BY <3>1, <2>3, <1>1, <1>2, <1>5 DEF Pumped
  <2> QED
    BY <2>1, <2>2, <2>3
<1>6. CASE ~(staged = <<>> \/ edRunning = "closed") /\ edRunning # "none"
  <2>1. edRunning = "up"
    BY <1>6 DEF EdFlagTypes
  <2>2. CASE edWorker = "ended"
    <3>1. q = [p EXCEPT !.running = "closed"]
      BY <1>6, <2>2 DEF EdPumped
    <3>2. q \in EdQ
      BY <3>1, <1>1 DEF EdQ
    <3> QED
      BY <3>1, <3>2, <2>1, <2>2, <1>1, <1>2 DEF Pumped
  <2>3. CASE edWorker # "ended"
    <3>1. q = EdTransferred(p)
      BY <1>6, <2>3 DEF EdPumped
    <3>2. q \in EdQ /\ \E j \in 0..Len(staged) : Moved(p, q, j)
      BY <3>1, <1>1, <1>2, Transfer
    <3> QED
      BY <3>2, <2>1, <2>3, <1>1, <1>2 DEF Pumped
  <2> QED
    BY <2>2, <2>3
<1> QED
  BY <1>4, <1>5, <1>6

\* The queues are in order, for the answers and the edits given.
QBooks(q, told, answered, all) == Books(told, q.handed, q.staged, all, q.worker, answered)
QPipe(q, answered) == Pipe(q.worker, edCurrent, answered, q.channel, q.handed)
QClean(q) ==
  /\ \A i \in 1..Len(q.staged) : q.staged[i].n \notin edLanded
  /\ q.worker # "ended" => \A i \in 1..Len(q.channel) : q.channel[i].n \notin edLanded
QStages(q, answered) ==
  /\ q.running = "none" <=> q.worker = "none"
  /\ q.running = "none" => q.handed = <<>> /\ q.channel = <<>> /\ answered = <<>>
  /\ q.worker = edWorker \/ (q.worker = "idle" /\ edWorker = "none")
QLives(q, answered) ==
  q.faults = 0 => /\ edFaults = 0
                  /\ edPhase # "wait" => q.running # "closed" /\ q.worker # "ended"
                  /\ q.worker = "ended" => Len(q.handed) = Len(answered)
Ordered(q, told, answered, all) ==
  /\ q \in EdQ /\ Len(q.channel) <= EditCapacity /\ q.faults + edOutside <= MaxDisturbances
  /\ Len(q.channel) <= Len(all)
  /\ QBooks(q, told, answered, all) /\ QPipe(q, answered) /\ QClean(q) /\ QStages(q, answered)
Sound(q, told, answered, all) == Ordered(q, told, answered, all) /\ QLives(q, answered)

\* To hand edits over keeps the books, the pipe and what is not written yet.
LEMMA MovedSound ==
  ASSUME NEW p \in EdQ, NEW q \in EdQ, NEW j \in 0..Len(p.staged), Moved(p, q, j), p.worker # "ended",
         NEW told \in Seq(EdToldOf), NEW answered \in Seq(EdAnswer), NEW all \in Seq(EdEdit),
         QBooks(p, told, answered, all), QPipe(p, answered), QClean(p)
  PROVE  QBooks(q, told, answered, all) /\ QPipe(q, answered) /\ QClean(q)
<1> DEFINE moved == SubSeq(p.staged, 1, j)
           rest == SubSeq(p.staged, j + 1, Len(p.staged))
           busy == IF p.worker \in {"writing", "sending", "stuck"} THEN 1 ELSE 0
<1>1. p.staged \in Seq(EdEdit) /\ p.handed \in Seq(EdEdit) /\ p.channel \in Seq(EdEdit)
  BY DEF EdQ
<1>2. /\ Len(p.staged) \in Nat /\ Len(p.handed) \in Nat /\ Len(p.channel) \in Nat
      /\ Len(answered) \in Nat /\ Len(told) \in Nat /\ j \in Nat /\ j <= Len(p.staged) /\ busy \in 0..1
  BY <1>1, LenProperties
<1>3. /\ moved \in Seq(EdEdit) /\ Len(moved) = j /\ \A i \in 1..j : moved[i] = p.staged[i]
      /\ rest \in Seq(EdEdit) /\ Len(rest) = Len(p.staged) - j
      /\ \A i \in 1..(Len(p.staged) - j) : rest[i] = p.staged[j + i]
  BY <1>1, Cut
<1>4. /\ q.staged = rest /\ q.handed = p.handed \o moved /\ q.channel = p.channel \o moved
      /\ q.worker = p.worker
  BY DEF Moved
<1>5. PICK m \in 0..Len(told) : /\ Ledger(m, told, p.handed, p.staged, all)
                                /\ m = Len(told) \/ (p.worker = "ended" /\ answered = <<>>)
  BY DEF QBooks, Books
<1>6. QBooks(q, told, answered, all)
  <2>1. m = Len(told)
    BY <1>5
  <2>2. Ledger(Len(told), told, p.handed, p.staged, all)
    BY <1>5, <2>1
  <2>3. Ledger(Len(told), told, p.handed \o moved, rest, all)
    BY <1>1, <2>2, HandedOver
  <2>4. Len(told) \in 0..Len(told)
    BY <1>2
  <2> QED
    BY <2>3, <2>4, <1>4 DEF QBooks, Books
<1> HIDE DEF moved, rest
<1>7. /\ Len(p.handed \o moved) = Len(p.handed) + j
      /\ \A i \in 1..Len(p.handed) : (p.handed \o moved)[i] = p.handed[i]
      /\ \A i \in 1..j : (p.handed \o moved)[Len(p.handed) + i] = moved[i]
  <2>1. moved \in Seq(EdEdit) /\ Len(moved) = j /\ p.handed \in Seq(EdEdit)
    BY <1>1, <1>3
  <2>2. /\ Len(p.handed \o moved) = Len(p.handed) + Len(moved)
        /\ \A i \in 1..Len(p.handed) : (p.handed \o moved)[i] = p.handed[i]
        /\ \A i \in 1..Len(moved) : (p.handed \o moved)[Len(p.handed) + i] = moved[i]
    <3>1. Joins(p.handed \o moved, p.handed, moved)
      BY <2>1, Joined
    <3> QED
      BY <3>1 DEF Joins
  <2> QED
    BY ONLY <2>1, <2>2
<1>8. /\ Len(p.channel \o moved) = Len(p.channel) + j
      /\ \A i \in 1..Len(p.channel) : (p.channel \o moved)[i] = p.channel[i]
      /\ \A i \in 1..j : (p.channel \o moved)[Len(p.channel) + i] = moved[i]
  <2>1. moved \in Seq(EdEdit) /\ Len(moved) = j /\ p.channel \in Seq(EdEdit)
    BY <1>1, <1>3
  <2>2. /\ Len(p.channel \o moved) = Len(p.channel) + Len(moved)
        /\ \A i \in 1..Len(p.channel) : (p.channel \o moved)[i] = p.channel[i]
        /\ \A i \in 1..Len(moved) : (p.channel \o moved)[Len(p.channel) + i] = moved[i]
    <3>1. Joins(p.channel \o moved, p.channel, moved)
      BY <2>1, Joined
    <3> QED
      BY <3>1 DEF Joins
  <2> QED
    BY ONLY <2>1, <2>2
<1>9. /\ Len(answered) <= Len(p.handed)
      /\ \A i \in 1..Len(answered) : p.handed[i] = answered[i].e
      /\ Len(p.handed) = Len(answered) + busy + Len(p.channel)
      /\ Follows(p.channel, p.handed, Len(answered) + busy)
      /\ busy = 1 => p.handed[Len(answered) + 1] = InHand(p.worker, edCurrent)
  BY DEF QPipe, Pipe
<1> HIDE DEF busy
<1> DEFINE a == Len(answered)
           h == Len(p.handed)
           c == Len(p.channel)
<1>A. /\ a \in Nat /\ h \in Nat /\ c \in Nat /\ j \in Nat /\ busy \in 0..1 /\ a <= h
      /\ h = a + busy + c
  BY <1>2, <1>9
<1>B. Len(q.handed) = h + j /\ Len(q.channel) = c + j
  BY <1>4, <1>7, <1>8
<1> HIDE DEF a, h, c
<1>10. QPipe(q, answered)
  <2>1. Len(answered) <= Len(q.handed)
    <3>1. a <= h + j
      BY <1>A
    <3> QED
      BY <3>1, <1>B DEF a
  <2>2. \A i \in 1..Len(answered) : q.handed[i] = answered[i].e
    <3>1. \A i \in 1..Len(answered) : i \in 1..Len(p.handed)
      BY <1>2, <1>9
    <3> QED
      BY <3>1, <1>4, <1>7, <1>9
  <2>3. Len(q.handed) = Len(answered) + busy + Len(q.channel)
    <3>1. h + j = a + busy + (c + j)
      BY <1>A
    <3> QED
      BY <3>1, <1>B DEF a
  <2>4. Follows(q.channel, q.handed, Len(answered) + busy)
    <3> SUFFICES ASSUME NEW i \in 1..(Len(p.channel) + j)
                 PROVE  (p.channel \o moved)[i] = (p.handed \o moved)[Len(answered) + busy + i]
      BY <1>4, <1>8 DEF Follows
    <3>1. CASE i <= Len(p.channel)
      <4>1. i \in 1..Len(p.channel) /\ Len(answered) + busy + i \in 1..Len(p.handed)
        BY <3>1, <1>2, <1>9
      <4>2. p.channel[i] = p.handed[Len(answered) + busy + i]
        BY <4>1, <1>9 DEF Follows
      <4> QED
        BY <4>1, <4>2, <1>7, <1>8
    <3>2. CASE ~(i <= Len(p.channel))
      <4>1. PICK t \in 1..j : i = Len(p.channel) + t
        <5>1. i - Len(p.channel) \in 1..j /\ i = Len(p.channel) + (i - Len(p.channel))
          BY <3>2, <1>2
        <5> QED
          BY <5>1
      <4>2. Len(answered) + busy + i = Len(p.handed) + t
        <5>1. t \in Nat /\ i = c + t
          BY <4>1 DEF c
        <5>2. a + busy + i = h + t
          BY <5>1, <1>A
        <5> QED
          BY <5>2 DEF a, h
      <4> QED
        BY <4>1, <4>2, <1>7, <1>8
    <3> QED
      BY <3>1, <3>2
  <2>5. busy = 1 => q.handed[Len(answered) + 1] = InHand(q.worker, edCurrent)
    <3>1. busy = 1 => Len(answered) + 1 \in 1..Len(p.handed)
      <4>1. busy = 1 => a + 1 \in 1..h
        BY <1>A
      <4> QED
        BY <4>1 DEF a, h
    <3> QED
      BY <3>1, <1>4, <1>7, <1>9
  <2> QED
    BY <2>1, <2>2, <2>3, <2>4, <2>5, <1>4 DEF QPipe, Pipe, busy
<1>11. QClean(q)
  <2>1. \A i \in 1..Len(rest) : rest[i].n \notin edLanded
    <3>1. \A i \in 1..(Len(p.staged) - j) : j + i \in 1..Len(p.staged)
      BY <1>2
    <3> QED
      BY <3>1, <1>3 DEF QClean
  <2>2. ASSUME NEW i \in 1..(Len(p.channel) + j) PROVE (p.channel \o moved)[i].n \notin edLanded
    <3>1. CASE i <= Len(p.channel)
      <4>1. i \in 1..Len(p.channel)
        BY <3>1, <1>2
      <4> QED
        BY <4>1, <1>8 DEF QClean
    <3>2. CASE ~(i <= Len(p.channel))
      <4>1. PICK t \in 1..j : i = Len(p.channel) + t
        <5>1. i - Len(p.channel) \in 1..j /\ i = Len(p.channel) + (i - Len(p.channel))
          BY <3>2, <1>2
        <5> QED
          BY <5>1
      <4>2. t \in 1..Len(p.staged)
        BY <1>2
      <4> QED
        BY <4>1, <4>2, <1>3, <1>8 DEF QClean
    <3> QED
      BY <3>1, <3>2
  <2> QED
    BY <2>1, <2>2, <1>4, <1>8 DEF QClean
<1> QED
  BY <1>6, <1>10, <1>11

\* The channel holds no more than was submitted.
LEMMA ChannelFits ==
  ASSUME NEW q \in EdQ, NEW told \in Seq(EdToldOf), NEW answered \in Seq(EdAnswer), NEW all \in Seq(EdEdit),
         QBooks(q, told, answered, all), QPipe(q, answered), q.worker # "ended"
  PROVE  Len(q.channel) <= Len(all)
<1> DEFINE a == Len(answered)
           h == Len(q.handed)
           c == Len(q.channel)
           t == Len(told)
           s == Len(q.staged)
<1>1. q.staged \in Seq(EdEdit) /\ q.handed \in Seq(EdEdit) /\ q.channel \in Seq(EdEdit)
  BY DEF EdQ
<1>2. a \in Nat /\ h \in Nat /\ c \in Nat /\ t \in Nat /\ s \in Nat
  BY <1>1, LenProperties
<1>3. Len(all) = t + h + s
  BY DEF QBooks, Books, Ledger
<1>4. h = a + 0 + c \/ h = a + 1 + c
  BY DEF QPipe, Pipe
<1> HIDE DEF a, h, c, t, s
<1>5. c <= t + h + s
  BY <1>2, <1>4
<1> QED
  BY <1>3, <1>5 DEF c

\* The queues as they are are in order.
LEMMA QueuesSound ==
  ASSUME EditsInv, edPhase # "gone", NEW staged \in Seq(EdEdit), NEW all \in Seq(EdEdit),
         Len(edSubmitted) <= Len(all),
         Books(edTold, edHanded, staged, all, edWorker, edAnswered),
         \A i \in 1..Len(staged) : staged[i].n \notin edLanded
  PROVE  /\ EdQueues(staged) \in EdQ /\ Sound(EdQueues(staged), edTold, edAnswered, all)
         /\ EdQueues(staged).staged = staged
<1> DEFINE p == EdQueues(staged)
<1>1. /\ EdFlagTypes /\ EdListTypes /\ EdStages /\ EdThread /\ EdUnderway /\ EdSmooth
  BY DEF EditsInv
<1>2. p \in EdQ
  <2>1. /\ edRunning \in {"none", "up", "closed"}
        /\ edWorker \in {"none", "idle", "writing", "sending", "stuck", "ended"} /\ edFaults \in Nat
    BY <1>1 DEF EdFlagTypes
  <2>2. edHanded \in Seq(EdEdit) /\ edChannel \in Seq(EdEdit)
    BY <1>1 DEF EdListTypes
  <2> QED
    BY <2>1, <2>2 DEF EdQueues, EdQ
<1>3. /\ p.staged = staged /\ p.running = edRunning /\ p.worker = edWorker /\ p.faults = edFaults
      /\ p.handed = edHanded /\ p.channel = edChannel
  BY DEF EdQueues
<1> HIDE DEF p
<1>F. Len(p.channel) <= Len(all)
  <2>1. edChannel \in Seq(EdEdit) /\ edSubmitted \in Seq(EdEdit) /\ Len(edChannel) <= Len(edSubmitted)
    BY <1>1 DEF EdListTypes
  <2>2. Len(edChannel) \in Nat /\ Len(edSubmitted) \in Nat /\ Len(all) \in Nat
    BY <2>1, LenProperties
  <2> QED
    BY <2>1, <2>2, <1>3
<1>4. Len(p.channel) <= EditCapacity /\ p.faults + edOutside <= MaxDisturbances
  BY <1>1, <1>3 DEF EdListTypes, EdFlagTypes
<1>5. QBooks(p, edTold, edAnswered, all)
  BY <1>3 DEF QBooks
<1>6. QPipe(p, edAnswered)
  BY <1>1, <1>3 DEF EdThread, QPipe
<1>7. QClean(p)
  BY <1>1, <1>3 DEF EdUnderway, QClean
<1>8. QStages(p, edAnswered)
  BY <1>1, <1>3 DEF EdStages, QStages
<1>9. QLives(p, edAnswered)
  BY <1>1, <1>3 DEF EdSmooth, QLives
<1> QED
  BY <1>2, <1>3, <1>4, <1>5, <1>6, <1>7, <1>8, <1>9, <1>F DEF Sound, Ordered, p

\* pump keeps what the invariant says of the queues.
LEMMA PumpSound ==
  ASSUME EditsInv, edPhase \notin {"wait", "gone"}, NEW staged \in Seq(EdEdit), NEW all \in Seq(EdEdit),
         Len(edSubmitted) <= Len(all),
         Books(edTold, edHanded, staged, all, edWorker, edAnswered),
         \A i \in 1..Len(staged) : staged[i].n \notin edLanded, NEW q \in EdPumped(staged)
  PROVE  /\ Sound(q, edTold, edAnswered, all)
         /\ q.faults = 0 /\ q.staged # <<>> => q.running # "none"
<1> DEFINE p == EdQueues(staged)
           up == [p EXCEPT !.running = "up", !.worker = "idle"]
<1>1. EdFlagTypes /\ EdListTypes /\ EdInHand
  BY DEF EditsInv
<1>2. p \in EdQ /\ Sound(p, edTold, edAnswered, all) /\ p.staged = staged
  BY QueuesSound
<1>3. q \in EdQ /\ Pumped(p, q)
  BY <1>1, Pumping
<1>4. edTold \in Seq(EdToldOf) /\ edAnswered \in Seq(EdAnswer)
  BY <1>1 DEF EdListTypes
<1>W. p.worker = edWorker
  BY DEF EdQueues
<1> HIDE DEF p
<1>S. /\ Len(p.channel) <= EditCapacity /\ Len(p.channel) <= Len(all) /\ p.faults + edOutside <= MaxDisturbances
      /\ QBooks(p, edTold, edAnswered, all) /\ QPipe(p, edAnswered) /\ QClean(p)
      /\ QStages(p, edAnswered) /\ QLives(p, edAnswered)
  BY <1>2 DEF Sound, Ordered
<1>5. CASE q = p /\ (p.staged = <<>> \/ p.running = "closed")
  BY <1>2, <1>5
<1>6. CASE /\ q = [p EXCEPT !.faults = @ + 1] /\ p.running = "none"
           /\ q.faults + edOutside <= MaxDisturbances
  <2>1. /\ q.staged = p.staged /\ q.handed = p.handed /\ q.channel = p.channel /\ q.worker = p.worker
        /\ q.running = p.running /\ q.faults = p.faults + 1 /\ p.faults \in Nat
    BY <1>2, <1>6 DEF EdQ
  <2>2. q.faults # 0
    BY <2>1
  <2>3. QBooks(q, edTold, edAnswered, all) /\ QPipe(q, edAnswered) /\ QClean(q) /\ QStages(q, edAnswered)
    BY <2>1, <1>S DEF QBooks, QPipe, QClean, QStages
  <2> QED
    BY <2>1, <2>2, <2>3, <1>S, <1>3, <1>6 DEF Sound, Ordered, QLives
<1>7. CASE q = [p EXCEPT !.running = "closed"] /\ p.running = "up" /\ p.worker = "ended"
  <2>1. /\ q.staged = p.staged /\ q.handed = p.handed /\ q.channel = p.channel /\ q.worker = p.worker
        /\ q.running = "closed" /\ q.faults = p.faults
    BY <1>2, <1>7 DEF EdQ
  <2>2. q.faults # 0
    BY <2>1, <1>7, <1>S DEF QLives
  <2>3. QBooks(q, edTold, edAnswered, all) /\ QPipe(q, edAnswered) /\ QClean(q)
    BY <2>1, <1>S DEF QBooks, QPipe, QClean
  <2>4. QStages(q, edAnswered)
    BY <2>1, <1>7, <1>S DEF QStages
  <2> QED
    BY <2>1, <2>2, <2>3, <2>4, <1>S, <1>3 DEF Sound, Ordered, QLives
<1>8. CASE \E j \in 0..Len(p.staged) : p.running = "up" /\ p.worker # "ended" /\ Moved(p, q, j)
  <2>1. PICK j \in 0..Len(p.staged) : Moved(p, q, j)
    BY <1>8
  <2>2. p.running = "up" /\ p.worker # "ended"
    BY <1>8
  <2>3. QBooks(q, edTold, edAnswered, all) /\ QPipe(q, edAnswered) /\ QClean(q)
    BY <2>1, <2>2, <1>2, <1>3, <1>4, <1>S, MovedSound
  <2>4. /\ q.worker = p.worker /\ q.running = "up" /\ q.faults = p.faults
        /\ Len(q.channel) <= EditCapacity
    BY <2>1, <2>2 DEF Moved
  <2>5. QStages(q, edAnswered) /\ QLives(q, edAnswered)
    BY <2>2, <2>4, <1>S DEF QStages, QLives
  <2>6. Len(q.channel) <= Len(all)
    BY <2>2, <2>3, <2>4, <1>3, <1>4, ChannelFits
  <2> QED
    BY <2>3, <2>4, <2>5, <2>6, <1>S, <1>3 DEF Sound, Ordered
<1>9. CASE \E j \in 0..Len(p.staged) : p.running = "none" /\ Moved(up, q, j)
  <2>1. PICK j \in 0..Len(p.staged) : Moved(up, q, j)
    BY <1>9
  <2>2. /\ p.running = "none" /\ p.worker = "none" /\ edWorker = "none"
        /\ p.handed = <<>> /\ p.channel = <<>> /\ edAnswered = <<>>
    BY <1>9, <1>S, <1>W DEF QStages
  <2>3. /\ up \in EdQ /\ up.staged = p.staged /\ up.handed = <<>> /\ up.channel = <<>>
        /\ up.worker = "idle" /\ up.running = "up" /\ up.faults = p.faults
    BY <1>2, <2>2 DEF EdQ
  <2>4. Len(<<>>) = 0
    BY EmptySeq
  <2> HIDE DEF up
  <2>5. QBooks(up, edTold, edAnswered, all)
    BY <2>2, <2>3, <1>S DEF QBooks, Books
  <2>6. QPipe(up, edAnswered)
    BY <2>2, <2>3, <2>4 DEF QPipe, Pipe, Follows
  <2>7. QClean(up)
    BY <2>2, <2>3, <2>4, <1>S DEF QClean
  <2>8. QBooks(q, edTold, edAnswered, all) /\ QPipe(q, edAnswered) /\ QClean(q)
    <3>1. j \in 0..Len(up.staged)
      BY <2>3
    <3> QED
      BY <3>1, <2>1, <2>3, <2>5, <2>6, <2>7, <1>3, <1>4, MovedSound
  <2>9. /\ q.worker = "idle" /\ q.running = "up" /\ q.faults = p.faults
        /\ Len(q.channel) <= EditCapacity
    BY <2>1, <2>3 DEF Moved
  <2>10. QStages(q, edAnswered) /\ QLives(q, edAnswered)
    BY <2>2, <2>9, <1>S DEF QStages, QLives
  <2>11. Len(q.channel) <= Len(all)
    BY <2>8, <2>9, <1>3, <1>4, ChannelFits
  <2> QED
    BY <2>11, <2>8, <2>9, <2>10, <1>S, <1>3 DEF Sound, Ordered
<1> QED
  BY <1>3, <1>5, <1>6, <1>7, <1>8, <1>9 DEF Pumped

\* The oldest open edit is answered.
LEMMA AnswerSound ==
  ASSUME NEW q, NEW told \in Seq(EdToldOf), NEW answered \in Seq(EdAnswer), NEW all \in Seq(EdEdit),
         Sound(q, told, answered, all), answered # <<>>,
         NEW r, r = [q EXCEPT !.handed = Tail(@)],
         NEW x, x = [n |-> Head(answered).e.n, result |-> Head(answered).result]
  PROVE  x \in EdToldOf /\ Sound(r, Append(told, x), Tail(answered), all)
<1> DEFINE a == Len(answered)
           h == Len(q.handed)
           c == Len(q.channel)
           busy == IF q.worker \in {"writing", "sending", "stuck"} THEN 1 ELSE 0
<1>1. /\ q \in EdQ /\ Len(q.channel) <= EditCapacity /\ q.faults + edOutside <= MaxDisturbances
      /\ Len(q.channel) <= Len(all)
      /\ QBooks(q, told, answered, all) /\ QPipe(q, answered) /\ QClean(q) /\ QStages(q, answered)
      /\ QLives(q, answered)
  BY DEF Sound, Ordered
<1>2. q.staged \in Seq(EdEdit) /\ q.handed \in Seq(EdEdit) /\ q.channel \in Seq(EdEdit)
  BY <1>1 DEF EdQ
<1>3. /\ a > 0 /\ Head(answered) = answered[1] /\ Head(answered) \in EdAnswer
      /\ Tail(answered) \in Seq(EdAnswer) /\ Len(Tail(answered)) = a - 1
      /\ \A i \in 1..(a - 1) : Tail(answered)[i] = answered[i + 1]
  BY Taken
<1>4. a \in Nat /\ h \in Nat /\ c \in Nat /\ busy \in 0..1
  BY <1>2, LenProperties
<1>5. /\ a <= h /\ \A i \in 1..a : q.handed[i] = answered[i].e
      /\ q.worker # "ended" => /\ h = a + busy + c /\ Follows(q.channel, q.handed, a + busy)
                               /\ busy = 1 => q.handed[a + 1] = InHand(q.worker, edCurrent)
  BY <1>1 DEF QPipe, Pipe
<1>6. h > 0 /\ q.handed # <<>>
  <2>1. h > 0
    BY <1>3, <1>4, <1>5
  <2> QED
    BY <2>1, EmptySeq
<1>7. /\ Head(q.handed) = q.handed[1] /\ Tail(q.handed) \in Seq(EdEdit) /\ Len(Tail(q.handed)) = h - 1
      /\ \A i \in 1..(h - 1) : Tail(q.handed)[i] = q.handed[i + 1]
  BY <1>2, <1>6, Taken
<1>8. /\ r \in EdQ /\ r.staged = q.staged /\ r.handed = Tail(q.handed) /\ r.channel = q.channel
      /\ r.worker = q.worker /\ r.running = q.running /\ r.faults = q.faults
  BY <1>1, <1>7 DEF EdQ
<1>9. x \in EdToldOf
  BY <1>3 DEF EdAnswer, EdEdit, EdToldOf
<1>10. QBooks(r, Append(told, x), Tail(answered), all)
  <2>1. PICK m \in 0..Len(told) : /\ Ledger(m, told, q.handed, q.staged, all)
                                  /\ m = Len(told) \/ (q.worker = "ended" /\ answered = <<>>)
    BY <1>1 DEF QBooks, Books
  <2>2. Ledger(Len(told), told, q.handed, q.staged, all)
    BY <2>1
  <2>3. x.n = Head(q.handed).n
    <3>1. 1 \in 1..a
      BY <1>3, <1>4
    <3> QED
      BY <3>1, <1>3, <1>5, <1>7
  <2>4. Ledger(Len(Append(told, x)), Append(told, x), Tail(q.handed), q.staged, all)
    BY <2>2, <2>3, <1>2, <1>6, <1>9, Answered
  <2>5. Len(Append(told, x)) \in 0..Len(Append(told, x))
    BY <1>9, LenProperties, Put
  <2> QED
    BY <2>4, <2>5, <1>8 DEF QBooks, Books
<1> HIDE DEF a, h, c, busy
<1>11. QPipe(r, Tail(answered))
  <2>1. a - 1 <= h - 1
    BY <1>4, <1>5
  <2>2. \A i \in 1..(a - 1) : Tail(q.handed)[i] = Tail(answered)[i].e
    <3> SUFFICES ASSUME NEW i \in 1..(a - 1) PROVE Tail(q.handed)[i] = Tail(answered)[i].e
      OBVIOUS
    <3>1. i + 1 \in 1..a /\ i \in 1..(h - 1)
      BY <1>4, <1>5
    <3> QED
      BY <3>1, <1>3, <1>5, <1>7
  <2>3. ASSUME q.worker # "ended"
        PROVE  /\ h - 1 = (a - 1) + busy + c /\ Follows(q.channel, Tail(q.handed), (a - 1) + busy)
               /\ busy = 1 => Tail(q.handed)[(a - 1) + 1] = InHand(q.worker, edCurrent)
    <3>1. h = a + busy + c /\ Follows(q.channel, q.handed, a + busy)
      BY <2>3, <1>5
    <3>2. h - 1 = (a - 1) + busy + c
      BY ONLY <3>1, <1>4, SMTT(30)
    <3>3. ASSUME NEW i \in 1..c PROVE q.channel[i] = Tail(q.handed)[(a - 1) + busy + i]
      <4>1. (a - 1) + busy + i \in 1..(h - 1) /\ ((a - 1) + busy + i) + 1 = a + busy + i
        <5>1. h = a + busy + c /\ a > 0 /\ i \in Nat /\ i > 0 /\ i <= c
          BY <3>1, <1>3, <1>4
        <5>2. (a - 1) + busy + i > 0 /\ (a - 1) + busy + i <= h - 1
          BY ONLY <5>1, <1>4
        <5> QED
          BY ONLY <5>1, <5>2, <1>4
      <4>2. q.channel[i] = q.handed[a + busy + i]
        BY <3>1 DEF Follows, c
      <4> QED
        BY <4>1, <4>2, <1>7
    <3>4. ASSUME busy = 1 PROVE Tail(q.handed)[(a - 1) + 1] = InHand(q.worker, edCurrent)
      <4>1. (a - 1) + 1 \in 1..(h - 1) /\ ((a - 1) + 1) + 1 = a + 1
        <5>1. h = a + 1 + c /\ a > 0
          BY <3>1, <3>4, <1>3 DEF a
        <5> QED
          BY ONLY <5>1, <1>4
      <4>2. q.handed[a + 1] = InHand(q.worker, edCurrent)
        BY <3>4, <2>3, <1>5
      <4> QED
        BY <4>1, <4>2, <1>7
    <3> QED
      BY <3>2, <3>3, <3>4 DEF Follows, c
  <2> QED
    BY <2>1, <2>2, <2>3, <1>3, <1>7, <1>8 DEF QPipe, Pipe, a, h, c, busy
<1>12. QClean(r)
  BY <1>1, <1>8 DEF QClean
<1>13. QStages(r, Tail(answered))
  BY <1>1, <1>8 DEF QStages
<1>14. QLives(r, Tail(answered))
  <2>1. q.worker = "ended" /\ q.faults = 0 => h - 1 = a - 1
    BY <1>1 DEF QLives, h, a
  <2> QED
    BY <2>1, <1>1, <1>3, <1>7, <1>8 DEF QLives
<1> QED
  BY <1>1, <1>8, <1>9, <1>10, <1>11, <1>12, <1>13, <1>14 DEF Sound, Ordered

\* Without a worker the oldest edit left is given back.
Returned(r, x, told, answered, all) ==
  x \in EdToldOf /\ x.n \notin edLanded /\ Sound(r, Append(told, x), answered, all)
\* To give the first staged edit back keeps it, once no completion can arrive.
LEMMA GiveBackSound ==
  ASSUME NEW q, NEW told \in Seq(EdToldOf), NEW answered \in Seq(EdAnswer), NEW all \in Seq(EdEdit),
         Sound(q, told, answered, all), q.staged # <<>>, edPhase # "wait",
         q.running = "none" \/ (q.worker = "ended" /\ answered = <<>>),
         q.faults = 0 => q.running # "none",
         NEW r, r = [q EXCEPT !.staged = Tail(@), !.running = IF @ = "none" THEN @ ELSE "closed"],
         NEW x, x = [n |-> Head(q.staged).n, result |-> "stopped"]
  PROVE  Returned(r, x, told, answered, all)
<1>1. /\ q \in EdQ /\ Len(q.channel) <= EditCapacity /\ q.faults + edOutside <= MaxDisturbances
      /\ Len(q.channel) <= Len(all)
      /\ QBooks(q, told, answered, all) /\ QPipe(q, answered) /\ QClean(q) /\ QStages(q, answered)
      /\ QLives(q, answered)
  BY DEF Sound, Ordered
<1>2. q.staged \in Seq(EdEdit) /\ q.handed \in Seq(EdEdit) /\ q.channel \in Seq(EdEdit)
  BY <1>1 DEF EdQ
<1>3. /\ Len(q.staged) > 0 /\ Head(q.staged) = q.staged[1] /\ Head(q.staged) \in EdEdit
      /\ Tail(q.staged) \in Seq(EdEdit) /\ Len(Tail(q.staged)) = Len(q.staged) - 1
      /\ \A i \in 1..(Len(q.staged) - 1) : Tail(q.staged)[i] = q.staged[i + 1]
  BY <1>2, Taken
<1>4. Len(q.staged) \in Nat
  BY <1>2, LenProperties
<1>5. /\ r \in EdQ /\ r.staged = Tail(q.staged) /\ r.handed = q.handed /\ r.channel = q.channel
      /\ r.worker = q.worker /\ r.faults = q.faults
      /\ r.running = IF q.running = "none" THEN "none" ELSE "closed"
  BY <1>1, <1>3 DEF EdQ
<1>6. x \in EdToldOf
  BY <1>3 DEF EdEdit, EdToldOf, EdResult
<1>7. x.n \notin edLanded
  <2>1. 1 \in 1..Len(q.staged)
    BY <1>3, <1>4
  <2> QED
    BY <2>1, <1>1, <1>3 DEF QClean
<1>8. QBooks(r, Append(told, x), answered, all)
  <2>1. PICK m \in 0..Len(told) : /\ Ledger(m, told, q.handed, q.staged, all)
                                  /\ m = Len(told) \/ (q.worker = "ended" /\ answered = <<>>)
    BY <1>1 DEF QBooks, Books
  <2>2. /\ Ledger(m, Append(told, x), q.handed, Tail(q.staged), all)
        /\ q.handed = <<>> => Ledger(Len(Append(told, x)), Append(told, x), q.handed, Tail(q.staged), all)
    <3>1. x.n = Head(q.staged).n
      OBVIOUS
    <3>2. Ledger(m, told, q.handed, q.staged, all)
      BY <2>1
    <3> QED
      BY <3>1, <3>2, <1>2, <1>6, GivenBack
  <2>3. Len(Append(told, x)) = Len(told) + 1 /\ Len(told) \in Nat
    BY <1>6, LenProperties, Put
  <2>4. CASE q.worker = "ended" /\ answered = <<>>
    <3>1. m \in 0..Len(Append(told, x))
      BY <2>3
    <3> QED
      BY <3>1, <2>2, <2>4, <1>5 DEF QBooks, Books
  <2>5. CASE q.running = "none"
    <3>1. q.handed = <<>>
      BY <2>5, <1>1 DEF QStages
    <3>2. Len(Append(told, x)) \in 0..Len(Append(told, x))
      BY <2>3
    <3> QED
      BY <3>1, <3>2, <2>2, <1>5 DEF QBooks, Books
  <2> QED
    BY <2>4, <2>5
<1>9. QPipe(r, answered)
  BY <1>1, <1>5 DEF QPipe
<1>10. QClean(r)
  <2>1. \A i \in 1..(Len(q.staged) - 1) : i + 1 \in 1..Len(q.staged)
    BY <1>4
  <2> QED
    BY <2>1, <1>1, <1>3, <1>5 DEF QClean
<1>11. QStages(r, answered)
  BY <1>1, <1>5 DEF QStages
<1>12. q.faults # 0
  BY <1>1 DEF QLives
<1>13. QLives(r, answered)
  BY <1>12, <1>5 DEF QLives
<1> QED
  BY <1>1, <1>5, <1>6, <1>7, <1>8, <1>9, <1>10, <1>11, <1>13 DEF Sound, Ordered, Returned

-----------------------------------------------------------------------------
(* The steps. *)

\* The run, until teardown has reported.
EdPhases == EdRunningPhases \cup {"quitting", "handover", "wait"}

\* The queues of a run that has not ended.
EdQueuesOK ==
  /\ edStaged \in Seq(EdEdit) /\ edHanded \in Seq(EdEdit) /\ edChannel \in Seq(EdEdit)
  /\ Len(edChannel) <= EditCapacity /\ Len(edChannel) <= Len(edSubmitted)
  /\ edRunning \in {"none", "up", "closed"}
  /\ edWorker \in {"none", "idle", "writing", "sending", "stuck", "ended"}
  /\ edFaults \in Nat /\ edFaults + edOutside <= MaxDisturbances
  /\ edRunning = "none" <=> edWorker = "none"
  /\ edRunning = "none" => edHanded = <<>> /\ edChannel = <<>> /\ edAnswered = <<>>
  /\ EdInHand /\ EdBooks /\ EdThread /\ EdLanding /\ EdUnderway

\* The loop takes queues that are in order.
LEMMA Adopt ==
  ASSUME EditsInv, NEW q, NEW told, NEW answered, NEW all,
         Ordered(q, told, answered, all), EdTakeQueues(q),
         edTold' = told, edAnswered' = answered, edSubmitted' = all,
         UNCHANGED <<edCurrent, edLanded, edOutside>>, edPhase # "gone", edPhase' # "gone",
         \A i \in 1..Len(told) : Right(told[i].n, told[i].result, edLanded),
         \A i \in 1..Len(answered) : Right(answered[i].e.n, answered[i].result, edLanded),
         \A n \in edLanded : \E k \in 1..Len(all) : all[k].n = n
  PROVE  EdQueuesOK'
<1>1. EdInHand /\ EdUnderway
  BY DEF EditsInv
<1>2. /\ q \in EdQ /\ Len(q.channel) <= EditCapacity /\ q.faults + edOutside <= MaxDisturbances
      /\ Len(q.channel) <= Len(all)
      /\ QBooks(q, told, answered, all) /\ QPipe(q, answered) /\ QClean(q) /\ QStages(q, answered)
  BY DEF Ordered
<1>3. /\ edRunning' = q.running /\ edWorker' = q.worker /\ edFaults' = q.faults
      /\ edStaged' = q.staged /\ edHanded' = q.handed /\ edChannel' = q.channel
  BY DEF EdTakeQueues
<1>4. /\ edStaged' \in Seq(EdEdit) /\ edHanded' \in Seq(EdEdit) /\ edChannel' \in Seq(EdEdit)
      /\ edRunning' \in {"none", "up", "closed"}
      /\ edWorker' \in {"none", "idle", "writing", "sending", "stuck", "ended"} /\ edFaults' \in Nat
  BY <1>2, <1>3 DEF EdQ
<1>5. /\ Len(edChannel') <= EditCapacity /\ Len(edChannel') <= Len(edSubmitted')
      /\ edFaults' + edOutside' <= MaxDisturbances
  BY <1>2, <1>3
<1>6. /\ edRunning' = "none" <=> edWorker' = "none"
      /\ edRunning' = "none" => edHanded' = <<>> /\ edChannel' = <<>> /\ edAnswered' = <<>>
  BY <1>2, <1>3 DEF QStages
<1>7. EdInHand'
  BY <1>1, <1>2, <1>3 DEF EdInHand, QStages
<1>8. EdOpen' = q.handed /\ EdLeft' = q.staged
  BY <1>3 DEF EdOpen, EdLeft
<1>9. EdBooks'
  BY <1>2, <1>3, <1>8 DEF EdBooks, QBooks
<1>10. EdThread'
  BY <1>2, <1>3 DEF EdThread, QPipe
<1>11. EdLanding'
  BY <1>2, <1>8 DEF EdLanding, QClean
<1>12. EdUnderway'
  <2>1. \/ edWorker' = edWorker
        \/ edWorker' = "idle"
    BY <1>2, <1>3 DEF QStages
  <2>2. edWorker' # "ended" => \A i \in 1..Len(edChannel') : edChannel'[i].n \notin edLanded'
    BY <1>2, <1>3 DEF QClean
  <2> QED
    BY <1>1, <2>1, <2>2 DEF EdUnderway
<1> QED
  BY <1>4, <1>5, <1>6, <1>7, <1>9, <1>10, <1>11, <1>12 DEF EdQueuesOK

\* The queues are as they were.
LEMMA Kept ==
  ASSUME EditsInv, edPhase # "gone", edPhase' # "gone",
         UNCHANGED <<edRunning, edStaged, edHanded, edChannel, edThreadVars, edFaults, edSubmitted, edTold,
                     edLanded>>, edFaults + edOutside' <= MaxDisturbances
  PROVE  EdQueuesOK'
<1>1. /\ EdFlagTypes /\ EdListTypes /\ EdInHand /\ EdStages /\ EdBooks /\ EdThread /\ EdLanding /\ EdUnderway
  BY DEF EditsInv
<1>2. /\ UNCHANGED <<edAnswered, edWorker, edCurrent>> /\ EdOpen' = EdOpen /\ EdLeft' = EdLeft
  BY DEF edThreadVars, EdOpen, EdLeft
<1>3. EdInHand' /\ EdBooks' /\ EdLanding'
  BY <1>1, <1>2 DEF EdInHand, EdBooks, EdLanding
<1>4. EdThread' /\ EdUnderway'
  BY <1>1, <1>2 DEF EdThread, EdUnderway
<1>5. /\ edStaged' \in Seq(EdEdit) /\ edHanded' \in Seq(EdEdit) /\ edChannel' \in Seq(EdEdit)
      /\ Len(edChannel') <= EditCapacity /\ Len(edChannel') <= Len(edSubmitted')
  BY <1>1 DEF EdListTypes
<1>6. /\ edRunning' \in {"none", "up", "closed"}
      /\ edWorker' \in {"none", "idle", "writing", "sending", "stuck", "ended"}
      /\ edFaults' \in Nat /\ edFaults' + edOutside' <= MaxDisturbances
  BY <1>1, <1>2 DEF EdFlagTypes
<1>7. /\ edRunning' = "none" <=> edWorker' = "none"
      /\ edRunning' = "none" => edHanded' = <<>> /\ edChannel' = <<>> /\ edAnswered' = <<>>
  BY <1>1, <1>2 DEF EdStages
<1> QED
  BY <1>3, <1>4, <1>5, <1>6, <1>7 DEF EdQueuesOK

\* Keymaps and files keep their types.
LEMMA FoldedType ==
  ASSUME NEW keys \in [Actions -> SUBSET Chords], NEW e \in EdEdit
  PROVE  Folded(keys, e) \in [Actions -> SUBSET Chords]
<1>1. CASE IsShortcut(e)
  <2>1. e.g \in EdRequest /\ e.g.kind = "shortcut"
    BY <1>1 DEF IsShortcut, EdEdit
  <2>2. e.g.action \in Actions /\ e.g.to \in SUBSET Chords
    BY <2>1 DEF EdRequest
  <2> QED
    BY <2>2, <1>1 DEF Folded
<1>2. CASE ~IsShortcut(e)
  BY <1>2 DEF Folded
<1> QED
  BY <1>1, <1>2

\* Installing an edit yields a configuration.
LEMMA InstalledType ==
  ASSUME NEW live \in EdConfig, NEW e \in EdEdit, NEW result
  PROVE  Installed(live, e, result) \in EdConfig
<1>1. Folded(live.keys, e) \in [Actions -> SUBSET Chords]
  BY FoldedType DEF EdConfig
<1> QED
  BY <1>1 DEF Installed, EdConfig

\* The file keeps its type when an edit is written.
LEMMA PutType ==
  ASSUME NEW file \in EdFileConfig, NEW e \in EdEdit
  PROVE  EdPut(file, e) \in EdFileConfig
<1>1. Folded(file.keys, e) \in [Actions -> SUBSET Chords]
  BY FoldedType DEF EdFileConfig
<1>2. e.n \in 0..MaxGestures
  BY EditsAssumption DEF EdEdit
<1>3. IsShortcut(e) => file.authored \cup {e.g.action} \in SUBSET Actions
  <2>1. IsShortcut(e) => e.g \in EdRequest /\ e.g.kind = "shortcut"
    BY DEF IsShortcut, EdEdit
  <2> QED
    BY <2>1 DEF EdRequest, EdFileConfig
<1> QED
  BY <1>1, <1>2, <1>3 DEF EdPut, EdFileConfig

\* What a reading of the file offers an action is among what the file offers it.
LEMMA ResolvedType ==
  ASSUME NEW file, file.keys \in [Actions -> SUBSET Chords]
  PROVE  /\ Resolved(file) \in [Actions -> SUBSET Chords]
         /\ \A a \in Actions : Resolved(file)[a] \subseteq file.keys[a]
BY DEF Resolved

\* s has the elements of q, and e.
Added(s, q, e) ==
  /\ s \in Seq(EdEdit) /\ Len(s) = Len(q) + 1 /\ Distinct(s)
  /\ \A i \in 1..Len(s) : s[i] = e \/ \E k \in 1..Len(q) : s[i] = q[k]
  /\ \E i \in 1..Len(s) : s[i] = e
  /\ \A k \in 1..Len(q) : \E i \in 1..Len(s) : s[i] = q[k]

\* An edit put behind those pending or submitted.
LEMMA Behind ==
  ASSUME NEW q \in Seq(EdEdit), NEW e \in EdEdit, Distinct(q), \A i \in 1..Len(q) : q[i].n # e.n
  PROVE  Added(Append(q, e), q, e)
<1>1. Len(q) \in Nat
  BY LenProperties
<1>2. /\ Append(q, e) \in Seq(EdEdit) /\ Len(Append(q, e)) = Len(q) + 1
      /\ \A i \in 1..Len(q) : Append(q, e)[i] = q[i]
      /\ Append(q, e)[Len(q) + 1] = e
  BY Put
<1>3. \A i \in 1..(Len(q) + 1) : i \in 1..Len(q) \/ i = Len(q) + 1
  BY <1>1
<1>4. \A i \in 1..Len(q) : i \in 1..(Len(q) + 1)
  BY <1>1
<1>5. Len(q) + 1 \in 1..(Len(q) + 1)
  BY <1>1
<1>6. \A i \in 1..(Len(q) + 1) : Append(q, e)[i] = e \/ \E k \in 1..Len(q) : Append(q, e)[i] = q[k]
  BY <1>2, <1>3
<1>7. Distinct(Append(q, e))
  BY <1>2, <1>3 DEF Distinct
<1> QED
  BY <1>2, <1>4, <1>5, <1>6, <1>7 DEF Added

\* An edit put before those pending.
LEMMA Before ==
  ASSUME NEW q \in Seq(EdEdit), NEW e \in EdEdit, Distinct(q), \A i \in 1..Len(q) : q[i].n # e.n
  PROVE  Added(<<e>> \o q, q, e)
<1> DEFINE s == <<e>> \o q
<1>1. Len(q) \in Nat /\ <<e>> \in Seq(EdEdit) /\ Len(<<e>>) = 1 /\ <<e>>[1] = e
  BY LenProperties
<1>2. s \in Seq(EdEdit) /\ Joins(s, <<e>>, q)
  BY <1>1, Joined
<1> HIDE DEF s
<1>3. /\ Len(s) = 1 + Len(q) /\ s[1] = e /\ \A i \in 1..Len(q) : s[1 + i] = q[i]
  <2>1. 1 \in 1..Len(<<e>>)
    BY <1>1
  <2> QED
    BY <2>1, <1>1, <1>2 DEF Joins
<1>4. Len(s) = Len(q) + 1
  BY <1>1, <1>3
<1>5. \A i \in 1..Len(s) : i = 1 \/ \E k \in 1..Len(q) : i = 1 + k
  <2> SUFFICES ASSUME NEW i \in 1..(Len(q) + 1), i # 1 PROVE \E k \in 1..Len(q) : i = 1 + k
    BY <1>4
  <2>1. i - 1 \in 1..Len(q) /\ i = 1 + (i - 1)
    BY <1>1
  <2> QED
    BY <2>1
<1>6. \A k \in 1..Len(q) : 1 + k \in 1..Len(s)
  BY <1>1, <1>4
<1>7. 1 \in 1..Len(s)
  BY <1>1, <1>4
<1>8. Distinct(s)
  <2>1. ASSUME NEW i \in 1..Len(s), NEW j \in 1..Len(s), s[i].n = s[j].n PROVE i = j
    <3>1. CASE i = 1 /\ j = 1
      BY <3>1
    <3>2. CASE i # 1 /\ j = 1
      BY <3>2, <2>1, <1>3, <1>5
    <3>3. CASE i = 1 /\ j # 1
      BY <3>3, <2>1, <1>3, <1>5
    <3>4. CASE i # 1 /\ j # 1
      <4>1. PICK k \in 1..Len(q) : i = 1 + k
        BY <3>4, <1>5
      <4>2. PICK l \in 1..Len(q) : j = 1 + l
        BY <3>4, <1>5
      <4>3. q[k].n = q[l].n
        BY <4>1, <4>2, <2>1, <1>3
      <4> QED
        BY <4>1, <4>2, <4>3 DEF Distinct
    <3> QED
      BY <3>1, <3>2, <3>3, <3>4
  <2> QED
    BY <2>1 DEF Distinct
<1>9. \A i \in 1..Len(s) : s[i] = e \/ \E k \in 1..Len(q) : s[i] = q[k]
  BY <1>3, <1>5
<1>10. \A k \in 1..Len(q) : \E i \in 1..Len(s) : s[i] = q[k]
  BY <1>3, <1>6
<1> QED
  BY <1>2, <1>3, <1>4, <1>7, <1>8, <1>9, <1>10 DEF Added, s

\* The first of the pending edits is taken from them.
LEMMA Foremost ==
  ASSUME NEW q \in Seq(EdEdit), q # <<>>, Distinct(q)
  PROVE  /\ Head(q) \in EdEdit /\ Tail(q) \in Seq(EdEdit) /\ Distinct(Tail(q))
         /\ \A k \in 1..Len(Tail(q)) : Tail(q)[k].n # Head(q).n
         /\ Added(q, Tail(q), Head(q))
<1>1. /\ Len(q) > 0 /\ Head(q) = q[1] /\ Head(q) \in EdEdit
      /\ Tail(q) \in Seq(EdEdit) /\ Len(Tail(q)) = Len(q) - 1
      /\ \A i \in 1..(Len(q) - 1) : Tail(q)[i] = q[i + 1]
  BY Taken
<1>2. Len(q) \in Nat /\ Len(q) = Len(Tail(q)) + 1 /\ 1 \in 1..Len(q)
  BY <1>1, LenProperties
<1>3. \A i \in 1..(Len(q) - 1) : i + 1 \in 1..Len(q) /\ i + 1 # 1
  BY <1>2
<1>4. \A i, j \in 1..(Len(q) - 1) : i + 1 = j + 1 => i = j
  BY <1>2
<1>5. Distinct(Tail(q))
  BY <1>1, <1>3, <1>4 DEF Distinct
<1>6. \A k \in 1..Len(Tail(q)) : Tail(q)[k].n # Head(q).n
  BY <1>1, <1>2, <1>3 DEF Distinct
<1>7. \A i \in 1..Len(q) : i = 1 \/ \E k \in 1..(Len(q) - 1) : i = k + 1
  <2> SUFFICES ASSUME NEW i \in 1..Len(q), i # 1 PROVE \E k \in 1..(Len(q) - 1) : i = k + 1
    OBVIOUS
  <2>1. i - 1 \in 1..(Len(q) - 1) /\ i = (i - 1) + 1
    BY <1>2
  <2> QED
    BY <2>1
<1>8. \A i \in 1..Len(q) : q[i] = Head(q) \/ \E k \in 1..Len(Tail(q)) : q[i] = Tail(q)[k]
  BY <1>1, <1>7
<1>9. \A k \in 1..Len(Tail(q)) : \E i \in 1..Len(q) : q[i] = Tail(q)[k]
  BY <1>1, <1>3
<1>10. \E i \in 1..Len(q) : q[i] = Head(q)
  BY <1>1, <1>2
<1>11. Added(q, Tail(q), Head(q))
  BY <1>2, <1>8, <1>9, <1>10 DEF Added
<1>12. Head(q) \in EdEdit /\ Tail(q) \in Seq(EdEdit)
  BY <1>1
<1> QED
  BY ONLY <1>5, <1>6, <1>11, <1>12

\* The numbers of a list with one more edit.
LEMMA AddedIn ==
  ASSUME NEW s, NEW q, NEW e, Added(s, q, e), NEW n
  PROVE  In(n, s) <=> n = e.n \/ In(n, q)
<1>1. ASSUME NEW i \in 1..Len(s), s[i].n = n PROVE n = e.n \/ In(n, q)
  BY <1>1 DEF Added, In
<1>2. ASSUME n = e.n \/ In(n, q) PROVE In(n, s)
  BY <1>2 DEF Added, In
<1>3. ASSUME In(n, s) PROVE n = e.n \/ In(n, q)
  BY <1>1, <1>3 DEF In
<1> QED
  BY <1>2, <1>3

\* A gesture is made: it is pending.
LEMMA MadePlaced ==
  ASSUME NEW p, NEW s, NEW r, NEW made \in Nat, Placed(p, s, r, made),
         \A n : In(n, p) => n \in Nat, \A n : In(n, s) => n \in Nat, \A n \in r : n \in Nat,
         NEW p2, \A n : In(n, p2) <=> n = made + 1 \/ In(n, p)
  PROVE  Placed(p2, s, r, made + 1)
<1>1. \A n \in Nat : n <= made => n <= made + 1 /\ n # made + 1
  OBVIOUS
<1>2. \A n \in 1..(made + 1) : n = made + 1 \/ n \in 1..made
  OBVIOUS
<1>3. \A n : In(n, s) => n <= made + 1 /\ n \notin r /\ n # made + 1
  BY <1>1 DEF Placed
<1>4. \A n \in r : n <= made + 1 /\ n # made + 1
  BY <1>1 DEF Placed
<1>5. \A n : In(n, p) => n <= made + 1 /\ n \notin r /\ ~In(n, s)
  BY <1>1 DEF Placed
<1>6. made + 1 <= made + 1
  OBVIOUS
<1>7. \A n \in 1..(made + 1) : n \in r \/ In(n, p2) \/ In(n, s)
  BY <1>2 DEF Placed
<1>8. \A n : In(n, p2) => n <= made + 1 /\ n \notin r /\ ~In(n, s)
  BY <1>3, <1>4, <1>5, <1>6
<1> QED
  BY <1>3, <1>4, <1>7, <1>8 DEF Placed

\* A pending gesture is refused.
LEMMA RefusedPlaced ==
  ASSUME NEW p, NEW s, NEW r, NEW made, Placed(p, s, r, made),
         NEW p2, NEW m, \A n : In(n, p) <=> n = m \/ In(n, p2), ~In(m, p2)
  PROVE  Placed(p2, s, r \cup {m}, made)
<1>1. In(m, p)
  OBVIOUS
<1>2. m <= made /\ ~In(m, s)
  BY <1>1 DEF Placed
<1> QED
  BY <1>1, <1>2 DEF Placed

\* A pending gesture is submitted.
LEMMA SubmittedPlaced ==
  ASSUME NEW p, NEW s, NEW r, NEW made, Placed(p, s, r, made),
         NEW p2, NEW m, \A n : In(n, p) <=> n = m \/ In(n, p2), ~In(m, p2),
         NEW s2, \A n : In(n, s2) <=> n = m \/ In(n, s)
  PROVE  Placed(p2, s2, r, made)
<1>1. In(m, p)
  OBVIOUS
<1>2. m <= made /\ m \notin r
  BY <1>1 DEF Placed
<1> QED
  BY <1>1, <1>2 DEF Placed

\* The numbers of edits are numbers of gestures.
LEMMA InNat ==
  ASSUME NEW q \in Seq(EdEdit), NEW n, In(n, q)
  PROVE  n \in 1..MaxGestures /\ n \in Nat
<1>1. PICK i \in 1..Len(q) : q[i].n = n
  BY DEF In
<1>2. q[i] \in EdEdit
  BY ElementOfSeq
<1> QED
  BY <1>1, <1>2, EditsAssumption DEF EdEdit

\* A gesture is made, refused or submitted.
LEMMA CountedMade ==
  ASSUME EdListTypes, EdFlagTypes, EdFileTypes, EdCounted, NEW e \in EdEdit,
         Added(edPending', edPending, e),
         e.n = edMade + 1, edMade' = edMade + 1, UNCHANGED <<edSubmitted, edRefused>>
  PROVE  EdCounted'
<1>1. edMade \in Nat
  BY EditsAssumption DEF EdFlagTypes
<1>2. edPending \in Seq(EdEdit) /\ edSubmitted \in Seq(EdEdit)
  BY DEF EdListTypes
<1>3. Len(edPending) \in Nat /\ Len(edSubmitted) \in Nat
  BY <1>2, LenProperties
<1>4. \A n : In(n, edPending') <=> n = edMade + 1 \/ In(n, edPending)
  BY AddedIn
<1>5. /\ \A n : In(n, edPending) => n \in Nat
      /\ \A n : In(n, edSubmitted) => n \in Nat
  BY <1>2, InNat
<1>6. \A n \in edRefused : n \in Nat
  BY EditsAssumption DEF EdFileTypes
<1>7. Placed(edPending, edSubmitted, edRefused, edMade)
  BY DEF EdCounted
<1>8. Placed(edPending', edSubmitted, edRefused, edMade + 1)
  BY <1>1, <1>4, <1>5, <1>6, <1>7, MadePlaced
<1>9. Distinct(edPending') /\ Len(edPending') = Len(edPending) + 1
  BY DEF Added
<1>10. Len(edSubmitted) + Len(edPending') <= edMade'
  <2>1. Len(edSubmitted) + Len(edPending) <= edMade
    BY DEF EdCounted
  <2> QED
    BY <2>1, <1>1, <1>3, <1>9
<1> QED
  BY <1>8, <1>9, <1>10 DEF EdCounted

\* A refusal keeps every gesture in one place.
LEMMA CountedRefused ==
  ASSUME EdListTypes, EdFlagTypes, EdCounted, NEW e, edPending' \in Seq(EdEdit), ~In(e.n, edPending'),
         Added(edPending, edPending', e), Distinct(edPending'),
         edRefused' = edRefused \cup {e.n}, UNCHANGED <<edSubmitted, edMade>>
  PROVE  EdCounted'
<1>1. edMade \in Nat
  BY EditsAssumption DEF EdFlagTypes
<1>2. edPending' \in Seq(EdEdit) /\ edSubmitted \in Seq(EdEdit)
  BY DEF EdListTypes
<1>3. Len(edPending') \in Nat /\ Len(edSubmitted) \in Nat
  BY <1>2, LenProperties
<1>4. \A n : In(n, edPending) <=> n = e.n \/ In(n, edPending')
  BY AddedIn
<1>5. Placed(edPending, edSubmitted, edRefused, edMade)
  BY DEF EdCounted
<1>6. Placed(edPending', edSubmitted, edRefused \cup {e.n}, edMade)
  BY <1>4, <1>5, RefusedPlaced
<1>7. Len(edSubmitted) + Len(edPending') <= edMade
  <2>1. Len(edSubmitted) + Len(edPending) <= edMade /\ Len(edPending) = Len(edPending') + 1
    BY DEF EdCounted, Added
  <2> QED
    BY <2>1, <1>1, <1>3
<1> QED
  BY <1>6, <1>7 DEF EdCounted

\* A submission keeps every gesture in one place.
LEMMA CountedSubmitted ==
  ASSUME EdListTypes, EdFlagTypes, EdCounted, NEW e, edPending' \in Seq(EdEdit), ~In(e.n, edPending'),
         Added(edPending, edPending', e), Distinct(edPending'), Added(edSubmitted', edSubmitted, e),
         UNCHANGED <<edRefused, edMade>>
  PROVE  EdCounted'
<1>1. edMade \in Nat
  BY EditsAssumption DEF EdFlagTypes
<1>2. edPending' \in Seq(EdEdit) /\ edSubmitted \in Seq(EdEdit)
  BY DEF EdListTypes
<1>3. Len(edPending') \in Nat /\ Len(edSubmitted) \in Nat
  BY <1>2, LenProperties
<1>4. \A n : In(n, edPending) <=> n = e.n \/ In(n, edPending')
  BY AddedIn
<1>5. \A n : In(n, edSubmitted') <=> n = e.n \/ In(n, edSubmitted)
  BY AddedIn
<1>6. Placed(edPending, edSubmitted, edRefused, edMade)
  BY DEF EdCounted
<1>7. Placed(edPending', edSubmitted', edRefused, edMade)
  BY <1>4, <1>5, <1>6, SubmittedPlaced
<1>8. Len(edSubmitted') + Len(edPending') <= edMade
  <2>1. /\ Len(edSubmitted) + Len(edPending) <= edMade /\ Len(edPending) = Len(edPending') + 1
        /\ Len(edSubmitted') = Len(edSubmitted) + 1
    BY DEF EdCounted, Added
  <2> QED
    BY <2>1, <1>1, <1>3
<1>9. Distinct(edSubmitted')
  BY DEF Added
<1> QED
  BY <1>7, <1>8, <1>9 DEF EdCounted

\* The rest of the state of a run that has not ended.
EdRest ==
  /\ edPhase \in EdPhases /\ edWake \in BOOLEAN /\ edLate \in BOOLEAN
  /\ edMade \in 0..MaxGestures /\ edOutside \in Nat
  /\ edPending \in Seq(EdEdit) /\ edProjected \in Seq(EdEdit) /\ edSubmitted \in Seq(EdEdit)
  /\ edAnswered \in Seq(EdAnswer) /\ edTold \in Seq(EdToldOf) /\ Len(edAnswered) <= EditCapacity
  /\ Len(edProjected) <= Len(edSubmitted)
  /\ EdFileTypes /\ EdCounted /\ EdSmooth /\ edReport = NoReport
  /\ edPhase = "wait" => edRunning = "closed"
  /\ edPhase \in {"handover", "wait"} => edPending = <<>>

\* The parts that speak of the queues and the others are the invariant.
LEMMA Whole ==
  ASSUME EdQueuesOK', EdRest'
  PROVE  EditsInv'
<1>1. /\ edPhase' \in EdPhases /\ edWake' \in BOOLEAN /\ edLate' \in BOOLEAN
      /\ edMade' \in 0..MaxGestures /\ edOutside' \in Nat
      /\ edPending' \in Seq(EdEdit) /\ edProjected' \in Seq(EdEdit) /\ edSubmitted' \in Seq(EdEdit)
      /\ edAnswered' \in Seq(EdAnswer) /\ edTold' \in Seq(EdToldOf)
      /\ Len(edAnswered') <= EditCapacity /\ Len(edProjected') <= Len(edSubmitted')
      /\ EdFileTypes' /\ EdCounted' /\ EdSmooth' /\ edReport' = NoReport
      /\ edPhase' = "wait" => edRunning' = "closed"
      /\ edPhase' \in {"handover", "wait"} => edPending' = <<>>
  BY DEF EdRest
<1>2. edPhase' # "gone" /\ edPhase' \in EdRunningPhases \cup {"quitting", "handover", "wait", "gone"}
  BY <1>1 DEF EdPhases, EdRunningPhases
<1>3. EdFlagTypes'
  BY <1>1, <1>2 DEF EdQueuesOK, EdFlagTypes
<1>4. EdListTypes'
  <2>1. edReport' \in EdLists
    <3>1. <<>> \in Seq(EdEdit)
      BY Nothing
    <3> QED
      BY <3>1, <1>1 DEF NoReport, EdLists
  <2> QED
    BY <2>1, <1>1 DEF EdQueuesOK, EdListTypes
<1>5. EdStages'
  BY <1>1, <1>2 DEF EdQueuesOK, EdStages
<1>6. EdInHand' /\ EdBooks' /\ EdThread' /\ EdLanding' /\ EdUnderway'
  BY DEF EdQueuesOK
<1> QED
  BY <1>1, <1>3, <1>4, <1>5, <1>6 DEF EditsInv

\* The books of an empty run.
LEMMA EmptyBooks ==
  /\ Ledger(0, <<>>, <<>>, <<>>, <<>>) /\ Distinct(<<>>) /\ Len(<<>>) = 0
  /\ \A n : ~In(n, <<>>)
<1>1. Len(<<>>) = 0
  BY EmptySeq
<1> QED
  BY <1>1 DEF Ledger, Follows, Distinct, In

\* The invariant holds before the first gesture.
LEMMA InitInv == EditsInit => EditsInv
<1> SUFFICES ASSUME EditsInit PROVE EditsInv
  OBVIOUS
<1>1. /\ edPhase = "poll" /\ edWake = FALSE /\ edPending = <<>> /\ edMade = 0
      /\ edLive = [keys |-> Resolved(StartFile), slot |-> 0]
      /\ edFile = [keys |-> StartFile.keys, authored |-> StartFile.authored, slot |-> 0]
      /\ edRunning = "none" /\ edStaged = <<>> /\ edHanded = <<>> /\ edProjected = <<>>
      /\ edChannel = <<>> /\ edAnswered = <<>> /\ edWorker = "none" /\ edCurrent = NoEdit
      /\ edLate = FALSE /\ edReport = NoReport /\ edFaults = 0 /\ edOutside = 0
      /\ edSubmitted = <<>> /\ edTold = <<>> /\ edRefused = {} /\ edLanded = {}
  BY DEF EditsInit
<1>2. /\ Ledger(0, <<>>, <<>>, <<>>, <<>>) /\ Distinct(<<>>) /\ Len(<<>>) = 0
      /\ \A n : ~In(n, <<>>)
  BY EmptyBooks
<1>3. EdFlagTypes
  <2>1. 0 \in 0..MaxGestures /\ 0 + 0 <= MaxDisturbances
    BY EditsAssumption
  <2> QED
    BY <2>1, <1>1 DEF EdFlagTypes, EdRunningPhases
<1>4. EdListTypes
  <2>1. \A S : <<>> \in Seq(S)
    BY Nothing
  <2>2. edReport \in EdLists
    BY <1>1, <2>1 DEF NoReport, EdLists
  <2> QED
    BY <2>1, <2>2, <1>1, <1>2, EditsAssumption DEF EdListTypes
<1>5. EdFileTypes
  <2>1. StartFile.keys \in [Actions -> SUBSET Chords] /\ StartFile.authored \in SUBSET Actions
    BY EditsAssumption
  <2>2. Resolved(StartFile) \in [Actions -> SUBSET Chords] /\ 0 \in 0..MaxGestures
    BY <2>1, ResolvedType, EditsAssumption
  <2>3. edLive \in EdConfig
    BY <2>2, <1>1 DEF EdConfig
  <2>4. edFile \in EdFileConfig
    BY <2>1, <2>2, <1>1 DEF EdFileConfig
  <2>5. edRefused = {} /\ edLanded = {}
    BY <1>1
  <2> QED
    BY <2>3, <2>4, <2>5 DEF EdFileTypes
<1>6. EdInHand /\ EdStages
  BY <1>1 DEF EdInHand, EdStages
<1>7. EdCounted
  <2>1. Placed(edPending, edSubmitted, edRefused, edMade)
    <3>1. 1..0 = {}
      OBVIOUS
    <3> QED
      BY <3>1, <1>1, <1>2 DEF Placed
  <2> QED
    BY <2>1, <1>1, <1>2 DEF EdCounted
<1>8. EdOpen = <<>> /\ EdLeft = <<>>
  BY <1>1 DEF EdOpen, EdLeft
<1>9. EdBooks
  <2>1. 0 \in 0..0
    OBVIOUS
  <2> QED
    BY <2>1, <1>1, <1>2, <1>8 DEF EdBooks, Books
<1>10. EdThread
  BY <1>1, <1>2 DEF EdThread, Pipe, Follows
<1>11. EdLanding /\ EdUnderway
  BY <1>1, <1>2, <1>8 DEF EdLanding, EdUnderway
<1>12. EdSmooth
  BY <1>1 DEF EdSmooth
<1> QED
  BY <1>3, <1>4, <1>5, <1>6, <1>7, <1>9, <1>10, <1>11, <1>12 DEF EditsInv

\* A step of the loop that leaves the queues alone.
LEMMA Walks ==
  ASSUME EditsInv, EdWoken \/ EdPass \/ EdQuit \/ EdRequestsDone
  PROVE  EditsInv'
<1>1. /\ EdFlagTypes /\ EdListTypes /\ EdFileTypes /\ EdStages /\ EdCounted /\ EdSmooth
  BY DEF EditsInv
<1>2. /\ UNCHANGED <<edPending, edMade, edLive, edQueueVars, edThreadVars, edBoundVars, edHistoryVars,
                     edFile, edLate, edReport>>
      /\ edPhase \in {"poll", "dispatch", "requests", "quitting"}
      /\ edPhase' \in {"dispatch", "requests", "quitting", "answers", "handover"}
      /\ edPhase' = "handover" => edPending = <<>>
      /\ edWake' \in BOOLEAN
  BY <1>1 DEF EdWoken, EdPass, EdQuit, EdRequestsDone, EdFlagTypes
<1>3. UNCHANGED <<edRunning, edStaged, edHanded, edProjected, edChannel, edThreadVars, edFaults,
                  edOutside, edSubmitted, edTold, edRefused, edLanded>>
  BY <1>2 DEF edQueueVars, edBoundVars, edHistoryVars
<1>4. EdQueuesOK'
  <2>1. edFaults + edOutside' <= MaxDisturbances
    BY <1>1, <1>3 DEF EdFlagTypes
  <2>2. edPhase # "gone" /\ edPhase' # "gone"
    BY <1>2
  <2> QED
    BY <2>1, <2>2, <1>3, Kept
<1>5. EdRest'
  <2>1. /\ edPhase' \in EdPhases /\ edWake' \in BOOLEAN /\ edLate' \in BOOLEAN
        /\ edMade' \in 0..MaxGestures /\ edOutside' \in Nat
    BY <1>1, <1>2, <1>3 DEF EdFlagTypes, EdPhases, EdRunningPhases
  <2>2. edAnswered' = edAnswered /\ edWorker' = edWorker
    BY <1>3 DEF edThreadVars
  <2>3. /\ edPending' \in Seq(EdEdit) /\ edProjected' \in Seq(EdEdit) /\ edSubmitted' \in Seq(EdEdit)
        /\ edAnswered' \in Seq(EdAnswer) /\ edTold' \in Seq(EdToldOf)
        /\ Len(edAnswered') <= EditCapacity /\ Len(edProjected') <= Len(edSubmitted')
    BY <1>1, <1>2, <1>3, <2>2 DEF EdListTypes
  <2>4. EdFileTypes' /\ EdCounted'
    BY <1>1, <1>2, <1>3 DEF EdFileTypes, EdCounted
  <2>5. EdSmooth'
    BY <1>1, <1>2, <1>3, <2>2 DEF EdSmooth
  <2>6. edReport' = NoReport /\ edPhase' # "wait" /\ (edPhase' = "handover" => edPending' = <<>>)
    BY <1>1, <1>2 DEF EdStages
  <2> QED
    BY <2>1, <2>3, <2>4, <2>5, <2>6 DEF EdRest
<1> QED
  BY <1>4, <1>5, Whole

\* The deadline of teardown keeps it.
LEMMA Deadline ==
  ASSUME EditsInv, EdDeadline
  PROVE  EditsInv'
<1>1. /\ EdFlagTypes /\ EdListTypes /\ EdFileTypes /\ EdInHand /\ EdStages /\ EdCounted
      /\ EdBooks /\ EdThread /\ EdLanding /\ (edPhase # "gone" => EdUnderway) /\ EdSmooth
  BY DEF EditsInv
<1>2. /\ edLate' = TRUE
      /\ UNCHANGED <<edPhase, edWake, edPending, edMade, edLive, edRunning, edStaged, edHanded,
                     edProjected, edChannel, edAnswered, edWorker, edCurrent, edFaults, edOutside,
                     edSubmitted, edTold, edRefused, edLanded, edFile, edReport>>
  BY DEF EdDeadline, edLoopVars, edQueueVars, edThreadVars, edBoundVars, edHistoryVars
<1>3. EdFlagTypes' /\ EdListTypes' /\ EdFileTypes'
  BY <1>1, <1>2 DEF EdFlagTypes, EdListTypes, EdFileTypes
<1>4. EdInHand' /\ EdStages' /\ EdCounted'
  BY <1>1, <1>2 DEF EdInHand, EdStages, EdCounted
<1>5. EdOpen' = EdOpen /\ EdLeft' = EdLeft
  BY <1>2 DEF EdOpen, EdLeft
<1>6. EdBooks' /\ EdThread' /\ EdLanding'
  BY <1>1, <1>2, <1>5 DEF EdBooks, EdThread, EdLanding
<1>7. (edPhase # "gone" => EdUnderway)'
  BY <1>1, <1>2 DEF EdUnderway
<1>8. EdSmooth'
  BY <1>1, <1>2 DEF EdSmooth
<1> QED
  BY <1>3, <1>4, <1>6, <1>7, <1>8 DEF EditsInv

\* A change of the file by another program keeps it: it writes no edit of the run.
LEMMA OutsideEdit ==
  ASSUME EditsInv, EdOutsideEdit
  PROVE  EditsInv'
<1>1. /\ EdFlagTypes /\ EdListTypes /\ EdFileTypes /\ EdInHand /\ EdStages /\ EdCounted
      /\ EdBooks /\ EdThread /\ EdLanding /\ (edPhase # "gone" => EdUnderway) /\ EdSmooth
  BY DEF EditsInv
<1>2. /\ edFaults + edOutside < MaxDisturbances /\ edOutside' = edOutside + 1
      /\ UNCHANGED <<edPhase, edWake, edPending, edMade, edLive, edRunning, edStaged, edHanded,
                     edProjected, edChannel, edAnswered, edWorker, edCurrent, edFaults,
                     edSubmitted, edTold, edRefused, edLanded, edLate, edReport>>
  BY DEF EdOutsideEdit, edLoopVars, edQueueVars, edThreadVars, edHistoryVars
<1>3. edFile' \in EdFileConfig
  <2>1. PICK a \in Actions, c \in Chords :
          edFile' = [edFile EXCEPT !.keys[a] = @ \cup {c}, !.authored = @ \cup {a}]
    BY DEF EdOutsideEdit
  <2>2. /\ edFile \in EdFileConfig /\ edFile.keys \in [Actions -> SUBSET Chords]
        /\ edFile.authored \in SUBSET Actions
    BY <1>1 DEF EdFileTypes, EdFileConfig
  <2>3. /\ [edFile.keys EXCEPT ![a] = @ \cup {c}] \in [Actions -> SUBSET Chords]
        /\ edFile.authored \cup {a} \in SUBSET Actions
    BY <2>2
  <2>4. edFile' = [edFile EXCEPT !.keys = [edFile.keys EXCEPT ![a] = @ \cup {c}],
                                 !.authored = edFile.authored \cup {a}]
    BY <2>1, <2>2 DEF EdFileConfig
  <2> QED
    BY <2>2, <2>3, <2>4 DEF EdFileConfig
<1>4. EdFlagTypes'
  <2>1. edOutside' \in Nat /\ edFaults + edOutside' <= MaxDisturbances
    BY <1>1, <1>2, EditsAssumption DEF EdFlagTypes
  <2> QED
    BY <2>1, <1>1, <1>2 DEF EdFlagTypes
<1>5. EdListTypes' /\ EdFileTypes'
  BY <1>1, <1>2, <1>3 DEF EdListTypes, EdFileTypes
<1>6. EdInHand' /\ EdStages' /\ EdCounted'
  BY <1>1, <1>2 DEF EdInHand, EdStages, EdCounted
<1>7. EdOpen' = EdOpen /\ EdLeft' = EdLeft
  BY <1>2 DEF EdOpen, EdLeft
<1>8. EdBooks' /\ EdThread' /\ EdLanding'
  BY <1>1, <1>2, <1>7 DEF EdBooks, EdThread, EdLanding
<1>9. (edPhase # "gone" => EdUnderway)' /\ EdSmooth'
  BY <1>1, <1>2 DEF EdUnderway, EdSmooth
<1> QED
  BY <1>4, <1>5, <1>6, <1>8, <1>9 DEF EditsInv

\* A gesture keeps it.
LEMMA Gesture ==
  ASSUME EditsInv, NEW g \in Gestures, EdGesture(g)
  PROVE  EditsInv'
<1> DEFINE e == [n |-> edMade + 1, g |-> g]
<1>1. /\ EdFlagTypes /\ EdListTypes /\ EdFileTypes /\ EdStages /\ EdCounted /\ EdSmooth
  BY DEF EditsInv
<1>2. /\ edPhase \in {"poll", "dispatch"} /\ edMade < MaxGestures
      /\ edPhase' = "dispatch" /\ edMade' = edMade + 1
      /\ \/ edPending' = Append(edPending, e) /\ edLive' = edLive
         \/ edPending' = <<e>> \o edPending /\ edLive' = [edLive EXCEPT !.slot = e.n]
      /\ UNCHANGED <<edWake, edQueueVars, edThreadVars, edBoundVars, edHistoryVars,
                     edFile, edLate, edReport>>
  BY DEF EdGesture
<1>3. edMade \in Nat /\ edMade + 1 \in 1..MaxGestures
  BY <1>1, <1>2, EditsAssumption DEF EdFlagTypes
<1>4. e \in EdEdit /\ e.n = edMade + 1
  BY <1>3, EditsAssumption DEF EdEdit
<1> HIDE DEF e
<1>5. Added(edPending', edPending, e)
  <2>1. edPending \in Seq(EdEdit) /\ Distinct(edPending)
    BY <1>1 DEF EdListTypes, EdCounted
  <2>2. \A i \in 1..Len(edPending) : edPending[i].n # e.n
    <3>1. \A n : In(n, edPending) => n <= edMade /\ n \in Nat
      BY <2>1, <1>1, InNat DEF EdCounted, Placed
    <3>2. ~In(edMade + 1, edPending)
      BY <3>1, <1>3
    <3> QED
      BY <3>2, <1>4 DEF In
  <2>3. Added(Append(edPending, e), edPending, e) /\ Added(<<e>> \o edPending, edPending, e)
    BY <2>1, <2>2, <1>4, Behind, Before
  <2> QED
    BY <2>3, <1>2
<1>6. UNCHANGED <<edRunning, edStaged, edHanded, edProjected, edChannel, edThreadVars, edFaults,
                  edOutside, edSubmitted, edTold, edRefused, edLanded>>
  BY <1>2 DEF edQueueVars, edBoundVars, edHistoryVars
<1>7. EdQueuesOK'
  <2>1. edFaults + edOutside' <= MaxDisturbances
    BY <1>1, <1>6 DEF EdFlagTypes
  <2>2. edPhase # "gone" /\ edPhase' # "gone"
    BY <1>2
  <2> QED
    BY <2>1, <2>2, <1>6, Kept
<1>8. EdRest'
  <2>1. /\ edPhase' \in EdPhases /\ edWake' \in BOOLEAN /\ edLate' \in BOOLEAN
        /\ edMade' \in 0..MaxGestures /\ edOutside' \in Nat
    BY <1>1, <1>2, <1>3, <1>6, EditsAssumption DEF EdFlagTypes, EdPhases, EdRunningPhases
  <2>2. edAnswered' = edAnswered /\ edWorker' = edWorker
    BY <1>6 DEF edThreadVars
  <2>3. /\ edPending' \in Seq(EdEdit) /\ edProjected' \in Seq(EdEdit) /\ edSubmitted' \in Seq(EdEdit)
        /\ edAnswered' \in Seq(EdAnswer) /\ edTold' \in Seq(EdToldOf)
        /\ Len(edAnswered') <= EditCapacity /\ Len(edProjected') <= Len(edSubmitted')
    BY <1>1, <1>5, <1>6, <2>2 DEF EdListTypes, Added
  <2>4. EdFileTypes'
    <3>1. edLive \in EdConfig /\ e.n \in 0..MaxGestures
      BY <1>1, <1>3, <1>4 DEF EdFileTypes
    <3>2. [edLive EXCEPT !.slot = e.n] \in EdConfig
      BY <3>1 DEF EdConfig
    <3>3. edLive' \in EdConfig
      BY <3>1, <3>2, <1>2
    <3> QED
      BY <3>3, <1>1, <1>2, <1>6 DEF EdFileTypes
  <2>5. EdCounted'
    BY <1>1, <1>2, <1>4, <1>5, <1>6, CountedMade
  <2>6. EdSmooth'
    BY <1>1, <1>2, <1>6, <2>2 DEF EdSmooth
  <2>7. edReport' = NoReport /\ edPhase' # "wait" /\ edPhase' # "handover"
    BY <1>1, <1>2 DEF EdStages
  <2> QED
    BY <2>1, <2>3, <2>4, <2>5, <2>6, <2>7 DEF EdRest
<1> QED
  BY <1>7, <1>8, Whole

\* The refusal of a gesture keeps it.
LEMMA Refusing ==
  ASSUME EditsInv, EdRequestStep, UNCHANGED <<edWake, edQueueVars, edWorker, edFaults, edSubmitted>>,
         edRefused' = edRefused \cup {Head(edPending).n}
  PROVE  EditsInv'
<1> DEFINE e == Head(edPending)
<1>1. /\ EdFlagTypes /\ EdListTypes /\ EdFileTypes /\ EdStages /\ EdCounted /\ EdSmooth
  BY DEF EditsInv
<1>2. /\ edPhase \in {"requests", "quitting"} /\ edPending # <<>> /\ edPending' = Tail(edPending)
      /\ UNCHANGED <<edPhase, edMade, edLive, edAnswered, edCurrent, edOutside, edTold, edLanded,
                     edFile, edLate, edReport>>
  BY DEF EdRequestStep
<1>3. /\ e \in EdEdit /\ edPending' \in Seq(EdEdit) /\ Distinct(edPending')
      /\ ~In(e.n, edPending') /\ Added(edPending, edPending', e)
  <2>1. edPending \in Seq(EdEdit) /\ Distinct(edPending)
    BY <1>1 DEF EdListTypes, EdCounted
  <2> QED
    BY <2>1, <1>2, Foremost DEF In
<1> HIDE DEF e
<1>4. UNCHANGED <<edRunning, edStaged, edHanded, edProjected, edChannel, edThreadVars, edFaults,
                  edOutside, edSubmitted, edTold, edLanded>>
  BY <1>2 DEF edQueueVars, edThreadVars
<1>5. EdQueuesOK'
  <2>1. edFaults + edOutside' <= MaxDisturbances
    BY <1>1, <1>4 DEF EdFlagTypes
  <2>2. edPhase # "gone" /\ edPhase' # "gone"
    BY <1>2
  <2> QED
    BY <2>1, <2>2, <1>4, Kept
<1>6. EdRest'
  <2>1. /\ edPhase' \in EdPhases /\ edWake' \in BOOLEAN /\ edLate' \in BOOLEAN
        /\ edMade' \in 0..MaxGestures /\ edOutside' \in Nat
    BY <1>1, <1>2, <1>4 DEF EdFlagTypes, EdPhases, EdRunningPhases
  <2>2. edAnswered' = edAnswered /\ edWorker' = edWorker
    BY <1>4 DEF edThreadVars
  <2>3. /\ edPending' \in Seq(EdEdit) /\ edProjected' \in Seq(EdEdit) /\ edSubmitted' \in Seq(EdEdit)
        /\ edAnswered' \in Seq(EdAnswer) /\ edTold' \in Seq(EdToldOf)
        /\ Len(edAnswered') <= EditCapacity /\ Len(edProjected') <= Len(edSubmitted')
    BY <1>1, <1>3, <1>4, <2>2 DEF EdListTypes
  <2>4. EdFileTypes'
    <3>1. e.n \in 1..MaxGestures
      BY <1>3 DEF EdEdit
    <3>2. edRefused' \subseteq 1..MaxGestures
      BY <3>1, <1>1 DEF EdFileTypes, e
    <3> QED
      BY <3>2, <1>1, <1>2, <1>4 DEF EdFileTypes
  <2>5. EdCounted'
    <3>1. edRefused' = edRefused \cup {e.n}
      BY DEF e
    <3> QED
      BY <3>1, <1>1, <1>2, <1>3, <1>4, CountedRefused
  <2>6. EdSmooth'
    BY <1>1, <1>2, <1>4, <2>2 DEF EdSmooth
  <2>7. edReport' = NoReport /\ edPhase' # "wait" /\ edPhase' # "handover"
    BY <1>1, <1>2 DEF EdStages
  <2> QED
    BY <2>1, <2>3, <2>4, <2>5, <2>6, <2>7 DEF EdRest
<1> QED
  BY <1>5, <1>6, Whole

\* An edit is staged: the books of the edits submitted so far and of this one.
LEMMA Staging ==
  ASSUME EditsInv, edPhase # "gone", NEW e \in EdEdit, ~In(e.n, edSubmitted)
  PROVE  /\ Append(edStaged, e) \in Seq(EdEdit) /\ Append(edSubmitted, e) \in Seq(EdEdit)
         /\ Len(Append(edSubmitted, e)) = Len(edSubmitted) + 1
         /\ Len(edSubmitted) <= Len(Append(edSubmitted, e))
         /\ Books(edTold, edHanded, Append(edStaged, e), Append(edSubmitted, e), edWorker, edAnswered)
         /\ \A i \in 1..Len(Append(edStaged, e)) : Append(edStaged, e)[i].n \notin edLanded
<1>1. EdListTypes /\ EdBooks /\ EdLanding
  BY DEF EditsInv
<1>2. EdOpen = edHanded /\ EdLeft = edStaged
  BY DEF EdOpen, EdLeft
<1>3. /\ edTold \in Seq(EdToldOf) /\ edHanded \in Seq(EdEdit) /\ edStaged \in Seq(EdEdit)
      /\ edSubmitted \in Seq(EdEdit)
  BY <1>1 DEF EdListTypes
<1>4. PICK m \in 0..Len(edTold) :
        /\ Ledger(m, edTold, edHanded, edStaged, edSubmitted)
        /\ m = Len(edTold) \/ (edWorker = "ended" /\ edAnswered = <<>>)
  BY <1>1, <1>2 DEF EdBooks, Books
<1>5. Ledger(m, edTold, edHanded, Append(edStaged, e), Append(edSubmitted, e))
  BY <1>3, <1>4, Submitted
<1>6. Books(edTold, edHanded, Append(edStaged, e), Append(edSubmitted, e), edWorker, edAnswered)
  BY <1>4, <1>5 DEF Books
<1>7. Append(edStaged, e) \in Seq(EdEdit) /\ Append(edSubmitted, e) \in Seq(EdEdit)
  BY <1>3, Put
<1>8. Len(edSubmitted) \in Nat /\ Len(edStaged) \in Nat
  BY <1>3, LenProperties
<1>9. Len(Append(edSubmitted, e)) = Len(edSubmitted) + 1
  BY <1>3, Put
<1>10. \A i \in 1..Len(Append(edStaged, e)) : Append(edStaged, e)[i].n \notin edLanded
  <2>1. e.n \notin edLanded
    BY <1>1 DEF EdLanding, In
  <2>2. /\ Len(Append(edStaged, e)) = Len(edStaged) + 1 /\ Append(edStaged, e)[Len(edStaged) + 1] = e
        /\ \A i \in 1..Len(edStaged) : Append(edStaged, e)[i] = edStaged[i]
    BY <1>3, Put
  <2>3. \A i \in 1..(Len(edStaged) + 1) : i \in 1..Len(edStaged) \/ i = Len(edStaged) + 1
    BY <1>8
  <2>4. \A i \in 1..Len(edStaged) : edStaged[i].n \notin edLanded
    BY <1>1, <1>2 DEF EdLanding
  <2> QED
    BY <2>1, <2>2, <2>3, <2>4
<1>11. Len(edSubmitted) <= Len(Append(edSubmitted, e))
  BY <1>8, <1>9
<1> QED
  BY <1>6, <1>7, <1>9, <1>10, <1>11

\* The submission of a gesture keeps it.
LEMMA Submitting ==
  ASSUME EditsInv, EdRequestStep, edRefused' = edRefused,
         edSubmitted' = Append(edSubmitted, Head(edPending)),
         edProjected' = (IF IsShortcut(Head(edPending)) THEN Append(edProjected, Head(edPending))
                         ELSE edProjected),
         NEW q \in EdPumped(Append(edStaged, Head(edPending))), EdTakeQueues(q), edWake' \in BOOLEAN
  PROVE  EditsInv'
<1> DEFINE e == Head(edPending)
<1>1. /\ EdFlagTypes /\ EdListTypes /\ EdFileTypes /\ EdStages /\ EdCounted /\ EdSmooth
      /\ EdLanding /\ EdUnderway
  BY DEF EditsInv, EdRequestStep
<1>2. /\ edPhase \in {"requests", "quitting"} /\ edPending # <<>> /\ edPending' = Tail(edPending)
      /\ UNCHANGED <<edPhase, edMade, edLive, edAnswered, edCurrent, edOutside, edTold, edLanded,
                     edFile, edLate, edReport>>
  BY DEF EdRequestStep
<1>3. /\ e \in EdEdit /\ edPending' \in Seq(EdEdit) /\ Distinct(edPending')
      /\ ~In(e.n, edPending') /\ Added(edPending, edPending', e)
  <2>1. edPending \in Seq(EdEdit) /\ Distinct(edPending)
    BY <1>1 DEF EdListTypes, EdCounted
  <2> QED
    BY <2>1, <1>2, Foremost DEF In
<1> HIDE DEF e
<1>4. ~In(e.n, edSubmitted)
  <2>1. In(e.n, edPending)
    BY <1>3, AddedIn
  <2> QED
    BY <2>1, <1>1 DEF EdCounted, Placed
<1>P. edPhase # "gone" /\ edPhase' # "gone" /\ edPhase \notin {"wait", "gone"}
  BY <1>2
<1>5. /\ Append(edStaged, e) \in Seq(EdEdit) /\ Append(edSubmitted, e) \in Seq(EdEdit)
      /\ Len(Append(edSubmitted, e)) = Len(edSubmitted) + 1
      /\ Len(edSubmitted) <= Len(Append(edSubmitted, e))
      /\ Books(edTold, edHanded, Append(edStaged, e), Append(edSubmitted, e), edWorker, edAnswered)
      /\ \A i \in 1..Len(Append(edStaged, e)) : Append(edStaged, e)[i].n \notin edLanded
  BY <1>3, <1>4, <1>P, Staging
<1>6. Sound(q, edTold, edAnswered, Append(edSubmitted, e))
  <2>1. q \in EdPumped(Append(edStaged, e))
    BY DEF e
  <2> QED
    BY <2>1, <1>5, <1>P, PumpSound
<1>7. edSubmitted' = Append(edSubmitted, e)
  BY DEF e
<1>8. EdQueuesOK'
  <2> DEFINE all == Append(edSubmitted, e)
  <2>1. Ordered(q, edTold, edAnswered, all)
    BY <1>6 DEF Sound
  <2>2. /\ \A i \in 1..Len(edTold) : Right(edTold[i].n, edTold[i].result, edLanded)
        /\ \A i \in 1..Len(edAnswered) : Right(edAnswered[i].e.n, edAnswered[i].result, edLanded)
    BY <1>1 DEF EdLanding, EdUnderway
  <2>3. \A n \in edLanded : \E k \in 1..Len(all) : all[k].n = n
    <3>1. edSubmitted \in Seq(EdEdit) /\ Len(edSubmitted) \in Nat
      BY <1>1, LenProperties DEF EdListTypes
    <3>2. \A i \in 1..Len(edSubmitted) : all[i] = edSubmitted[i] /\ i \in 1..Len(all)
      BY <3>1, <1>3, <1>5, Put
    <3> QED
      BY <3>2, <1>1 DEF EdLanding
  <2>4. UNCHANGED <<edCurrent, edLanded, edOutside>> /\ edTold' = edTold /\ edAnswered' = edAnswered
    BY <1>2
  <2>5. edSubmitted' = all
    BY <1>7
  <2> HIDE DEF all
  <2> QED
    BY <2>1, <2>2, <2>3, <2>4, <2>5, <1>P, Adopt
<1>9. Added(edSubmitted', edSubmitted, e)
  <2>1. edSubmitted \in Seq(EdEdit) /\ Distinct(edSubmitted)
    BY <1>1 DEF EdListTypes, EdCounted
  <2> QED
    BY <2>1, <1>3, <1>4, <1>7, Behind DEF In
<1>10. EdRest'
  <2>1. /\ edPhase' \in EdPhases /\ edWake' \in BOOLEAN /\ edLate' \in BOOLEAN
        /\ edMade' \in 0..MaxGestures /\ edOutside' \in Nat
    BY <1>1, <1>2 DEF EdFlagTypes, EdPhases, EdRunningPhases
  <2>2. /\ edPending' \in Seq(EdEdit) /\ edSubmitted' \in Seq(EdEdit)
        /\ edAnswered' \in Seq(EdAnswer) /\ edTold' \in Seq(EdToldOf) /\ Len(edAnswered') <= EditCapacity
    BY <1>1, <1>2, <1>3, <1>5, <1>7 DEF EdListTypes
  <2>3. edProjected' \in Seq(EdEdit) /\ Len(edProjected') <= Len(edSubmitted')
    <3>1. edProjected \in Seq(EdEdit) /\ edSubmitted \in Seq(EdEdit) /\ Len(edProjected) <= Len(edSubmitted)
      BY <1>1 DEF EdListTypes
    <3>2. Len(edProjected) \in Nat /\ Len(edSubmitted) \in Nat
      BY <3>1, LenProperties
    <3>3. Append(edProjected, e) \in Seq(EdEdit) /\ Len(Append(edProjected, e)) = Len(edProjected) + 1
      BY <3>1, <1>3, Put
    <3>4. Len(edSubmitted') = Len(edSubmitted) + 1
      BY <1>5, <1>7
    <3>5. edProjected' = Append(edProjected, e) \/ edProjected' = edProjected
      BY DEF e
    <3> QED
      BY <3>1, <3>2, <3>3, <3>4, <3>5
  <2>4. EdFileTypes'
    BY <1>1, <1>2 DEF EdFileTypes
  <2>5. EdCounted'
    BY <1>1, <1>2, <1>3, <1>9, CountedSubmitted
  <2>6. EdSmooth'
    BY <1>2, <1>6 DEF EdSmooth, Sound, QLives, EdTakeQueues
  <2>7. edReport' = NoReport /\ edPhase' # "wait" /\ edPhase' # "handover"
    BY <1>1, <1>2 DEF EdStages
  <2> QED
    BY <2>1, <2>2, <2>3, <2>4, <2>5, <2>6, <2>7 DEF EdRest
<1> QED
  BY <1>8, <1>10, Whole

\* One pending gesture keeps it, refused or submitted.
LEMMA Request ==
  ASSUME EditsInv, EdRequestStep
  PROVE  EditsInv'
<1>1. CASE /\ edRefused' = edRefused \cup {Head(edPending).n}
           /\ UNCHANGED <<edWake, edQueueVars, edWorker, edFaults, edSubmitted>>
  BY <1>1, Refusing
<1>2. ASSUME /\ edProjected' = (IF IsShortcut(Head(edPending)) THEN Append(edProjected, Head(edPending))
                                ELSE edProjected)
             /\ edSubmitted' = Append(edSubmitted, Head(edPending)) /\ edRefused' = edRefused,
             NEW q \in EdPumped(Append(edStaged, Head(edPending))), EdTakeQueues(q),
             edWake' = (edWake \/ (q.staged # <<>> /\ q.running # "up"))
      PROVE  EditsInv'
  <2>1. edWake' \in BOOLEAN
    BY <1>2
  <2> QED
    BY <2>1, <1>2, Submitting
<1> QED
  BY <1>1, <1>2 DEF EdRequestStep

\* The pump of a pass or of teardown, with nothing new to stage.
LEMMA Standing ==
  ASSUME EditsInv, edPhase # "gone"
  PROVE  /\ edStaged \in Seq(EdEdit) /\ edSubmitted \in Seq(EdEdit)
         /\ Len(edSubmitted) <= Len(edSubmitted)
         /\ Books(edTold, edHanded, edStaged, edSubmitted, edWorker, edAnswered)
         /\ \A i \in 1..Len(edStaged) : edStaged[i].n \notin edLanded
<1>1. EdListTypes /\ EdBooks /\ EdLanding
  BY DEF EditsInv
<1>2. EdOpen = edHanded /\ EdLeft = edStaged
  BY DEF EdOpen, EdLeft
<1>3. edStaged \in Seq(EdEdit) /\ edSubmitted \in Seq(EdEdit)
  BY <1>1 DEF EdListTypes
<1>4. Len(edSubmitted) \in Nat
  BY <1>3, LenProperties
<1>5. Len(edSubmitted) <= Len(edSubmitted)
  BY <1>4
<1>6. Books(edTold, edHanded, edStaged, edSubmitted, edWorker, edAnswered)
  BY <1>1, <1>2 DEF EdBooks
<1>7. \A i \in 1..Len(edStaged) : edStaged[i].n \notin edLanded
  BY <1>1, <1>2 DEF EdLanding
<1> QED
  BY <1>3, <1>5, <1>6, <1>7

\* The pump of the drain and of teardown, with nothing newly staged.
LEMMA Repumped ==
  ASSUME EditsInv, edPhase \notin {"wait", "gone"}, NEW q \in EdPumped(edStaged)
  PROVE  /\ Sound(q, edTold, edAnswered, edSubmitted)
         /\ q.faults = 0 /\ q.staged # <<>> => q.running # "none"
<1>1. edPhase # "gone"
  OBVIOUS
<1>2. /\ edStaged \in Seq(EdEdit) /\ edSubmitted \in Seq(EdEdit)
      /\ Len(edSubmitted) <= Len(edSubmitted)
      /\ Books(edTold, edHanded, edStaged, edSubmitted, edWorker, edAnswered)
      /\ \A i \in 1..Len(edStaged) : edStaged[i].n \notin edLanded
  BY <1>1, Standing
<1> QED
  BY <1>2, PumpSound

\* An answer is routed, an edit given back, or nothing more to receive.
LEMMA Routed ==
  ASSUME EditsInv, edPhase \in EdPhases, edPhase' \in EdPhases,
         NEW r, NEW told \in Seq(EdToldOf), NEW answered \in Seq(EdAnswer),
         Ordered(r, told, answered, edSubmitted), EdTakeQueues(r),
         edTold' = told, edAnswered' = answered, Len(answered) <= EditCapacity,
         UNCHANGED <<edWake, edPending, edMade, edCurrent, edOutside, edSubmitted, edRefused,
                     edLanded, edFile, edLate, edReport>>,
         \A i \in 1..Len(told) : Right(told[i].n, told[i].result, edLanded),
         \A i \in 1..Len(answered) : Right(answered[i].e.n, answered[i].result, edLanded),
         edLive' \in EdConfig, edProjected' \in Seq(EdEdit), Len(edProjected') <= Len(edSubmitted),
         EdSmooth', edPhase' = "wait" => r.running = "closed",
         edPhase' \in {"handover", "wait"} => edPending = <<>>
  PROVE  EditsInv'
<1>1. /\ EdFlagTypes /\ EdListTypes /\ EdFileTypes /\ EdStages /\ EdCounted /\ EdLanding
  BY DEF EditsInv
<1>2. edPhase # "gone" /\ edPhase' # "gone"
  BY DEF EdPhases, EdRunningPhases
<1>3. EdQueuesOK'
  <2>1. \A n \in edLanded : \E k \in 1..Len(edSubmitted) : edSubmitted[k].n = n
    BY <1>1 DEF EdLanding
  <2>2. UNCHANGED <<edCurrent, edLanded, edOutside>> /\ edSubmitted' = edSubmitted
    OBVIOUS
  <2> QED
    BY <2>1, <2>2, <1>2, Adopt
<1>4. EdRest'
  <2>1. /\ edWake' \in BOOLEAN /\ edLate' \in BOOLEAN /\ edMade' \in 0..MaxGestures /\ edOutside' \in Nat
    BY <1>1 DEF EdFlagTypes
  <2>2. /\ edPending' \in Seq(EdEdit) /\ edSubmitted' \in Seq(EdEdit)
        /\ edAnswered' \in Seq(EdAnswer) /\ edTold' \in Seq(EdToldOf)
        /\ Len(edAnswered') <= EditCapacity
    BY <1>1 DEF EdListTypes
  <2>3. EdFileTypes' /\ EdCounted'
    BY <1>1 DEF EdFileTypes, EdCounted
  <2>4. edReport' = NoReport
    BY <1>1, <1>2 DEF EdStages
  <2>5. edRunning' = r.running
    BY DEF EdTakeQueues
  <2> QED
    BY <2>1, <2>2, <2>3, <2>4, <2>5 DEF EdRest
<1> QED
  BY <1>3, <1>4, Whole

\* The answers in hand, with one more told and one less to come.
LEMMA Relayed ==
  ASSUME EditsInv, edPhase # "gone", edAnswered # <<>>,
         NEW x \in EdToldOf,
         x = [n |-> Head(edAnswered).e.n, result |-> Head(edAnswered).result]
  PROVE  /\ Append(edTold, x) \in Seq(EdToldOf) /\ Tail(edAnswered) \in Seq(EdAnswer)
         /\ Len(Tail(edAnswered)) <= EditCapacity
         /\ \A i \in 1..Len(Append(edTold, x)) :
              Right(Append(edTold, x)[i].n, Append(edTold, x)[i].result, edLanded)
         /\ \A i \in 1..Len(Tail(edAnswered)) :
              Right(Tail(edAnswered)[i].e.n, Tail(edAnswered)[i].result, edLanded)
<1>1. /\ EdListTypes /\ EdLanding /\ EdUnderway
  BY DEF EditsInv
<1>2. edTold \in Seq(EdToldOf) /\ edAnswered \in Seq(EdAnswer) /\ Len(edAnswered) <= EditCapacity
  BY <1>1 DEF EdListTypes
<1>3. Len(edTold) \in Nat /\ Len(edAnswered) \in Nat /\ EditCapacity \in Nat
  BY <1>2, LenProperties, EditsAssumption
<1>4. /\ Len(edAnswered) > 0 /\ Head(edAnswered) = edAnswered[1] /\ Tail(edAnswered) \in Seq(EdAnswer)
      /\ Len(Tail(edAnswered)) = Len(edAnswered) - 1
      /\ \A i \in 1..(Len(edAnswered) - 1) : Tail(edAnswered)[i] = edAnswered[i + 1]
  BY <1>2, Taken
<1>5. /\ Append(edTold, x) \in Seq(EdToldOf) /\ Len(Append(edTold, x)) = Len(edTold) + 1
      /\ \A i \in 1..Len(edTold) : Append(edTold, x)[i] = edTold[i]
      /\ Append(edTold, x)[Len(edTold) + 1] = x
  BY <1>2, Put
<1>6. Right(x.n, x.result, edLanded)
  <2>1. 1 \in 1..Len(edAnswered)
    BY <1>3, <1>4
  <2> QED
    BY <2>1, <1>1, <1>4 DEF EdUnderway
<1>7. \A i \in 1..Len(Append(edTold, x)) :
        Right(Append(edTold, x)[i].n, Append(edTold, x)[i].result, edLanded)
  <2>1. \A i \in 1..(Len(edTold) + 1) : i \in 1..Len(edTold) \/ i = Len(edTold) + 1
    BY <1>3
  <2> QED
    BY <2>1, <1>1, <1>5, <1>6 DEF EdLanding
<1>8. \A i \in 1..Len(Tail(edAnswered)) :
        Right(Tail(edAnswered)[i].e.n, Tail(edAnswered)[i].result, edLanded)
  <2>1. \A i \in 1..(Len(edAnswered) - 1) : i + 1 \in 1..Len(edAnswered)
    BY <1>3
  <2> QED
    BY <2>1, <1>1, <1>4 DEF EdUnderway
<1>9. Len(Tail(edAnswered)) <= EditCapacity
  BY <1>2, <1>3, <1>4
<1> QED
  BY <1>4, <1>5, <1>7, <1>8, <1>9

\* The projections stay a list of edits.
LEMMA RetiredType ==
  ASSUME EdListTypes, NEW e
  PROVE  Retired(e) \in Seq(EdEdit) /\ Len(Retired(e)) <= Len(edSubmitted)
<1>1. edProjected \in Seq(EdEdit) /\ edSubmitted \in Seq(EdEdit) /\ Len(edProjected) <= Len(edSubmitted)
  BY DEF EdListTypes
<1>2. Len(edProjected) \in Nat /\ Len(edSubmitted) \in Nat
  BY <1>1, LenProperties
<1>3. CASE IsShortcut(e) /\ edProjected # <<>>
  <2>1. Tail(edProjected) \in Seq(EdEdit) /\ Len(Tail(edProjected)) = Len(edProjected) - 1
    BY <1>1, <1>3, Taken
  <2> QED
    BY <2>1, <1>1, <1>2, <1>3 DEF Retired
<1>4. CASE ~(IsShortcut(e) /\ edProjected # <<>>)
  BY <1>4, <1>1 DEF Retired
<1> QED
  BY <1>3, <1>4

\* A completion received by the drain keeps the invariant.
LEMMA Receiving ==
  ASSUME EditsInv, edPhase = "answers", edPhase' = edPhase, NEW q \in EdPumped(edStaged),
         edAnswered # <<>>, EdTakeQueues([q EXCEPT !.handed = Tail(@)]),
         EdTell(Head(edAnswered).e, Head(edAnswered).result), edAnswered' = Tail(edAnswered),
         UNCHANGED <<edWake, edPending, edMade, edCurrent, edOutside, edSubmitted, edRefused,
                     edLanded, edFile, edLate, edReport>>
  PROVE  EditsInv'
<1> DEFINE r == [q EXCEPT !.handed = Tail(@)]
           x == [n |-> Head(edAnswered).e.n, result |-> Head(edAnswered).result]
<1>1. EdListTypes /\ EdFileTypes
  BY DEF EditsInv
<1>2. edPhase \notin {"wait", "gone"} /\ edPhase # "gone"
  OBVIOUS
<1>3. Sound(q, edTold, edAnswered, edSubmitted)
  BY <1>2, Repumped
<1>4. edTold \in Seq(EdToldOf) /\ edAnswered \in Seq(EdAnswer) /\ edSubmitted \in Seq(EdEdit)
  BY <1>1 DEF EdListTypes
<1>5. x \in EdToldOf /\ Sound(r, Append(edTold, x), Tail(edAnswered), edSubmitted)
  BY <1>3, <1>4, AnswerSound
<1>6. /\ Append(edTold, x) \in Seq(EdToldOf) /\ Tail(edAnswered) \in Seq(EdAnswer)
      /\ Len(Tail(edAnswered)) <= EditCapacity
      /\ \A i \in 1..Len(Append(edTold, x)) :
           Right(Append(edTold, x)[i].n, Append(edTold, x)[i].result, edLanded)
      /\ \A i \in 1..Len(Tail(edAnswered)) :
           Right(Tail(edAnswered)[i].e.n, Tail(edAnswered)[i].result, edLanded)
  BY <1>2, <1>5, Relayed
<1>7. /\ edTold' = Append(edTold, x) /\ edProjected' = Retired(Head(edAnswered).e)
      /\ edLive' = Installed(edLive, Head(edAnswered).e, Head(edAnswered).result)
  BY DEF EdTell
<1>8. EdTakeQueues(r)
  OBVIOUS
<1> HIDE DEF r, x
<1>9. edLive' \in EdConfig
  <2>1. Head(edAnswered) \in EdAnswer
    BY <1>4, Taken
  <2>2. Head(edAnswered).e \in EdEdit /\ edLive \in EdConfig
    BY <2>1, <1>1 DEF EdAnswer, EdFileTypes
  <2> QED
    BY <2>2, <1>7, InstalledType
<1>10. edProjected' \in Seq(EdEdit) /\ Len(edProjected') <= Len(edSubmitted)
  BY <1>1, <1>7, RetiredType
<1>11. Ordered(r, Append(edTold, x), Tail(edAnswered), edSubmitted) /\ QLives(r, Tail(edAnswered))
  BY <1>5 DEF Sound
<1>12. EdSmooth'
  <2>1. edFaults' = r.faults /\ edRunning' = r.running /\ edWorker' = r.worker
    BY <1>8 DEF EdTakeQueues
  <2> QED
    BY <2>1, <1>11 DEF EdSmooth, QLives
<1>13. edPhase \in EdPhases /\ edPhase' \in EdPhases /\ edPhase' \notin {"handover", "wait"}
  BY DEF EdPhases, EdRunningPhases
<1>14. edPhase' = "wait" => r.running = "closed"
  OBVIOUS
<1>15. edPhase' \in {"handover", "wait"} => edPending = <<>>
  OBVIOUS
<1> QED
  BY <1>6, <1>7, <1>8, <1>9, <1>10, <1>11, <1>12, <1>13, <1>14, <1>15, Routed

\* A staged edit that comes back as a failed write keeps it.
LEMMA Returning ==
  ASSUME EditsInv, edPhase = "answers", edPhase' = edPhase, NEW q \in EdPumped(edStaged),
         EdSilent(q), q.staged # <<>>,
         EdTakeQueues([q EXCEPT !.staged = Tail(@), !.running = IF @ = "none" THEN @ ELSE "closed"]),
         EdTell(Head(q.staged), "stopped"), edAnswered' = edAnswered,
         UNCHANGED <<edWake, edPending, edMade, edCurrent, edOutside, edSubmitted, edRefused,
                     edLanded, edFile, edLate, edReport>>
  PROVE  EditsInv'
<1> DEFINE r == [q EXCEPT !.staged = Tail(@), !.running = IF @ = "none" THEN @ ELSE "closed"]
           x == [n |-> Head(q.staged).n, result |-> "stopped"]
<1>1. EdListTypes /\ EdFileTypes /\ EdLanding /\ EdUnderway
  BY DEF EditsInv
<1>2. edPhase \notin {"wait", "gone"} /\ edPhase # "wait"
  OBVIOUS
<1>3. /\ Sound(q, edTold, edAnswered, edSubmitted)
      /\ q.faults = 0 /\ q.staged # <<>> => q.running # "none"
  BY <1>2, Repumped
<1>4. edTold \in Seq(EdToldOf) /\ edAnswered \in Seq(EdAnswer) /\ edSubmitted \in Seq(EdEdit)
  BY <1>1 DEF EdListTypes
<1>S. q.running = "none" \/ (q.worker = "ended" /\ edAnswered = <<>>)
  BY DEF EdSilent
<1>5. /\ x \in EdToldOf /\ x.n \notin edLanded
      /\ Sound(r, Append(edTold, x), edAnswered, edSubmitted)
  <2>1. q.faults = 0 => q.running # "none"
    BY <1>3
  <2>2. Sound(q, edTold, edAnswered, edSubmitted) /\ q.staged # <<>> /\ edPhase # "wait"
    BY <1>2, <1>3
  <2>3. r = [q EXCEPT !.staged = Tail(@), !.running = IF @ = "none" THEN @ ELSE "closed"]
    OBVIOUS
  <2>4. x = [n |-> Head(q.staged).n, result |-> "stopped"]
    OBVIOUS
  <2> HIDE DEF r, x
  <2>5. Returned(r, x, edTold, edAnswered, edSubmitted)
    BY ONLY <2>1, <2>2, <2>3, <2>4, <1>4, <1>S, GiveBackSound
  <2> QED
    BY <2>5 DEF Returned
<1>7. /\ edTold' = Append(edTold, x) /\ edProjected' = Retired(Head(q.staged))
      /\ edLive' = Installed(edLive, Head(q.staged), "stopped") /\ x.result = "stopped"
  BY DEF EdTell
<1>8. EdTakeQueues(r)
  OBVIOUS
<1> HIDE DEF r, x
<1>6. /\ Append(edTold, x) \in Seq(EdToldOf) /\ Len(edAnswered) <= EditCapacity
      /\ \A i \in 1..Len(Append(edTold, x)) :
           Right(Append(edTold, x)[i].n, Append(edTold, x)[i].result, edLanded)
      /\ \A i \in 1..Len(edAnswered) : Right(edAnswered[i].e.n, edAnswered[i].result, edLanded)
  <2>1. /\ Append(edTold, x) \in Seq(EdToldOf) /\ Len(Append(edTold, x)) = Len(edTold) + 1
        /\ \A i \in 1..Len(edTold) : Append(edTold, x)[i] = edTold[i]
        /\ Append(edTold, x)[Len(edTold) + 1] = x
    BY <1>4, <1>5, Put
  <2>2. \A i \in 1..(Len(edTold) + 1) : i \in 1..Len(edTold) \/ i = Len(edTold) + 1
    <3>1. Len(edTold) \in Nat
      BY <1>4, LenProperties
    <3> QED
      BY <3>1
  <2>3. Right(x.n, x.result, edLanded)
    BY <1>5, <1>7 DEF Right
  <2>4. \A i \in 1..Len(edTold) : Right(edTold[i].n, edTold[i].result, edLanded)
    BY <1>1 DEF EdLanding
  <2>5. \A i \in 1..Len(edAnswered) : Right(edAnswered[i].e.n, edAnswered[i].result, edLanded)
    BY <1>1 DEF EdUnderway
  <2>6. Len(edAnswered) <= EditCapacity
    BY <1>1 DEF EdListTypes
  <2>7. \A i \in 1..Len(Append(edTold, x)) :
          Right(Append(edTold, x)[i].n, Append(edTold, x)[i].result, edLanded)
    BY <2>1, <2>2, <2>3, <2>4
  <2> QED
    BY <2>1, <2>5, <2>6, <2>7
<1>9. edLive' \in EdConfig
  <2>1. q.staged \in Seq(EdEdit)
    BY <1>3 DEF Sound, Ordered, EdQ
  <2>2. Head(q.staged) \in EdEdit /\ edLive \in EdConfig
    BY <2>1, <1>1, Taken DEF EdFileTypes
  <2> QED
    BY <2>2, <1>7, InstalledType
<1>10. edProjected' \in Seq(EdEdit) /\ Len(edProjected') <= Len(edSubmitted)
  BY <1>1, <1>7, RetiredType
<1>11. Ordered(r, Append(edTold, x), edAnswered, edSubmitted) /\ QLives(r, edAnswered)
  BY <1>5 DEF Sound
<1>12. EdSmooth'
  <2>1. edFaults' = r.faults /\ edRunning' = r.running /\ edWorker' = r.worker
    BY <1>8 DEF EdTakeQueues
  <2> QED
    BY <2>1, <1>11 DEF EdSmooth, QLives
<1>13. edPhase \in EdPhases /\ edPhase' \in EdPhases
  BY DEF EdPhases, EdRunningPhases
<1>14. edPhase' = "wait" => r.running = "closed"
  OBVIOUS
<1>15. edPhase' \in {"handover", "wait"} => edPending = <<>>
  OBVIOUS
<1> QED
  BY <1>4, <1>6, <1>7, <1>8, <1>9, <1>10, <1>11, <1>12, <1>13, <1>14, <1>15, Routed

\* The end of the drain keeps it.
LEMMA PassOver ==
  ASSUME EditsInv, edPhase = "answers", edPhase' = "poll", NEW q \in EdPumped(edStaged),
         edAnswered = <<>>,
         EdTakeQueues([q EXCEPT !.running = IF @ # "none" /\ EdSilent(q) THEN "closed" ELSE @]),
         UNCHANGED <<edAnswered, edTold, edProjected, edLive>>,
         UNCHANGED <<edWake, edPending, edMade, edCurrent, edOutside, edSubmitted, edRefused,
                     edLanded, edFile, edLate, edReport>>
  PROVE  EditsInv'
<1> DEFINE r == [q EXCEPT !.running = IF @ # "none" /\ EdSilent(q) THEN "closed" ELSE @]
<1>1. EdListTypes /\ EdFileTypes /\ EdLanding /\ EdUnderway
  BY DEF EditsInv
<1>2. edPhase \notin {"wait", "gone"} /\ edPhase # "wait"
  OBVIOUS
<1>3. Sound(q, edTold, edAnswered, edSubmitted)
  BY <1>2, Repumped
<1>4. /\ edTold \in Seq(EdToldOf) /\ edAnswered \in Seq(EdAnswer) /\ edSubmitted \in Seq(EdEdit)
      /\ Len(edAnswered) <= EditCapacity
  BY <1>1 DEF EdListTypes
<1>5. /\ r \in EdQ /\ r.staged = q.staged /\ r.handed = q.handed /\ r.channel = q.channel
      /\ r.worker = q.worker /\ r.faults = q.faults
      /\ r.running = IF q.running # "none" /\ EdSilent(q) THEN "closed" ELSE q.running
  BY <1>3 DEF Sound, Ordered, EdQ
<1>8. EdTakeQueues(r)
  OBVIOUS
<1> HIDE DEF r
<1>6. Ordered(r, edTold, edAnswered, edSubmitted)
  <2>1. QBooks(r, edTold, edAnswered, edSubmitted) /\ QPipe(r, edAnswered) /\ QClean(r)
    BY <1>3, <1>5 DEF Sound, Ordered, QBooks, QPipe, QClean
  <2>2. QStages(r, edAnswered)
    BY <1>3, <1>5 DEF Sound, Ordered, QStages
  <2> QED
    BY <2>1, <2>2, <1>3, <1>5 DEF Sound, Ordered
<1>7. EdSmooth'
  <2>1. edFaults' = r.faults /\ edRunning' = r.running /\ edWorker' = r.worker
    BY <1>8 DEF EdTakeQueues
  <2>2. QLives(q, edAnswered)
    BY <1>3 DEF Sound
  <2>3. q.faults = 0 => q.running # "closed" /\ q.worker # "ended"
    BY <2>2, <1>2 DEF QLives
  <2> QED
    BY <2>1, <2>3, <1>5 DEF EdSmooth, EdSilent
<1>9. /\ \A i \in 1..Len(edTold) : Right(edTold[i].n, edTold[i].result, edLanded)
      /\ \A i \in 1..Len(edAnswered) : Right(edAnswered[i].e.n, edAnswered[i].result, edLanded)
  BY <1>1 DEF EdLanding, EdUnderway
<1>10. edLive' \in EdConfig /\ edProjected' \in Seq(EdEdit) /\ Len(edProjected') <= Len(edSubmitted)
  BY <1>1 DEF EdFileTypes, EdListTypes
<1>11. edPhase \in EdPhases /\ edPhase' \in EdPhases
  BY DEF EdPhases, EdRunningPhases
<1>12. edPhase' = "wait" => r.running = "closed"
  OBVIOUS
<1>13. edPhase' \in {"handover", "wait"} => edPending = <<>>
  OBVIOUS
<1> QED
  BY <1>4, <1>6, <1>7, <1>8, <1>9, <1>10, <1>11, <1>12, <1>13, Routed

\* One try_recv keeps it.
LEMMA TryRecv ==
  ASSUME EditsInv, EdTryRecv
  PROVE  EditsInv'
<1>1. /\ edPhase = "answers"
      /\ UNCHANGED <<edWake, edPending, edMade, edCurrent, edOutside, edSubmitted, edRefused,
                     edLanded, edFile, edLate, edReport>>
  BY DEF EdTryRecv
<1>2. PICK q \in EdPumped(edStaged) :
     \/ /\ edAnswered # <<>>
        /\ EdTakeQueues([q EXCEPT !.handed = Tail(@)])
        /\ EdTell(Head(edAnswered).e, Head(edAnswered).result)
        /\ edAnswered' = Tail(edAnswered)
        /\ UNCHANGED edPhase
     \/ /\ EdSilent(q) /\ q.staged # <<>>
        /\ EdTakeQueues([q EXCEPT !.staged = Tail(@),
                                  !.running = IF @ = "none" THEN @ ELSE "closed"])
        /\ EdTell(Head(q.staged), "stopped")
        /\ UNCHANGED <<edPhase, edAnswered>>
     \/ /\ edAnswered = <<>> /\ (EdSilent(q) => q.staged = <<>>)
        /\ EdTakeQueues([q EXCEPT !.running = IF @ # "none" /\ EdSilent(q) THEN "closed" ELSE @])
        /\ edPhase' = "poll"
        /\ UNCHANGED <<edAnswered, edTold, edProjected, edLive>>
  BY DEF EdTryRecv
<1>3. CASE /\ edAnswered # <<>>
           /\ EdTakeQueues([q EXCEPT !.handed = Tail(@)])
           /\ EdTell(Head(edAnswered).e, Head(edAnswered).result)
           /\ edAnswered' = Tail(edAnswered)
           /\ UNCHANGED edPhase
  BY <1>1, <1>3, Receiving
<1>4. CASE /\ EdSilent(q) /\ q.staged # <<>>
           /\ EdTakeQueues([q EXCEPT !.staged = Tail(@),
                                     !.running = IF @ = "none" THEN @ ELSE "closed"])
           /\ EdTell(Head(q.staged), "stopped")
           /\ UNCHANGED <<edPhase, edAnswered>>
  BY <1>1, <1>4, Returning
<1>5. CASE /\ edAnswered = <<>> /\ (EdSilent(q) => q.staged = <<>>)
           /\ EdTakeQueues([q EXCEPT !.running = IF @ # "none" /\ EdSilent(q) THEN "closed" ELSE @])
           /\ edPhase' = "poll"
           /\ UNCHANGED <<edAnswered, edTold, edProjected, edLive>>
  BY <1>1, <1>5, PassOver
<1> QED
  BY <1>2, <1>3, <1>4, <1>5

\* The thread goes on with what teardown reports as unconfirmed.
LEMMA Outliving ==
  ASSUME NEW q \in EdQ, NEW answered \in Seq(EdAnswer), QPipe(q, answered), q.worker # "ended"
  PROVE  Outlives(q.worker, edCurrent, q.channel, q.handed)
<1> DEFINE a == Len(answered)
           h == Len(q.handed)
           c == Len(q.channel)
           busy == IF q.worker \in {"writing", "sending", "stuck"} THEN 1 ELSE 0
<1>1. q.handed \in Seq(EdEdit) /\ q.channel \in Seq(EdEdit)
  BY DEF EdQ
<1>2. a \in Nat /\ h \in Nat /\ c \in Nat /\ busy \in 0..1
  BY <1>1, LenProperties
<1>3. /\ h = a + busy + c /\ Follows(q.channel, q.handed, a + busy)
      /\ busy = 1 => q.handed[a + 1] = InHand(q.worker, edCurrent)
  BY DEF QPipe, Pipe
<1>4. q.worker = "writing" => busy = 1
  OBVIOUS
<1> HIDE DEF a, h, busy
<1>5. \A i \in 1..c : q.channel[i].n = q.handed[a + busy + i].n
  BY <1>3 DEF Follows
<1> HIDE DEF c
<1>6. \A i \in 1..c : a + busy + i \in 1..h
  BY <1>2, <1>3
<1>7. busy = 1 => a + 1 \in 1..h
  BY <1>2, <1>3
<1>8. \A i \in 1..Len(q.channel) : \E k \in 1..Len(q.handed) : q.channel[i].n = q.handed[k].n
  BY <1>5, <1>6 DEF c, h
<1>9. q.worker = "writing" => \E k \in 1..Len(q.handed) : edCurrent.n = q.handed[k].n
  BY <1>3, <1>4, <1>7 DEF h, InHand
<1> QED
  BY <1>8, <1>9 DEF Outlives

\* Teardown accounts for what is left.
LEMMA Accounting ==
  ASSUME EditsInv, edPhase \in {"handover", "wait"},
         NEW q, Sound(q, edTold, edAnswered, edSubmitted), EdAccount(q),
         UNCHANGED <<edAnswered, edTold>>,
         UNCHANGED <<edWake, edPending, edMade, edLive, edCurrent, edOutside, edSubmitted, edRefused,
                     edLanded, edFile, edLate>>,
         ~edLate /\ q.faults = 0 => q.handed = <<>> /\ q.staged = <<>>
  PROVE  EditsInv'
<1>1. /\ EdFlagTypes /\ EdListTypes /\ EdFileTypes /\ EdInHand /\ EdStages /\ EdCounted /\ EdLanding
  BY DEF EditsInv
<1>2. /\ q \in EdQ /\ Len(q.channel) <= EditCapacity /\ q.faults + edOutside <= MaxDisturbances
      /\ Len(q.channel) <= Len(edSubmitted)
      /\ QBooks(q, edTold, edAnswered, edSubmitted) /\ QPipe(q, edAnswered) /\ QClean(q)
      /\ QStages(q, edAnswered)
  BY DEF Sound, Ordered
<1>3. /\ q.running \in {"none", "up", "closed"} /\ q.faults \in Nat
      /\ q.worker \in {"none", "idle", "writing", "sending", "stuck", "ended"}
      /\ q.staged \in Seq(EdEdit) /\ q.handed \in Seq(EdEdit) /\ q.channel \in Seq(EdEdit)
  BY <1>2 DEF EdQ
<1>4. /\ edRunning' = q.running /\ edWorker' = q.worker /\ edFaults' = q.faults
      /\ edStaged' = <<>> /\ edHanded' = <<>> /\ edChannel' = q.channel
      /\ edReport' = [unconfirmed |-> q.handed, unwritten |-> q.staged]
      /\ edProjected' = <<>> /\ edPhase' = "gone"
  <2>1. EdTakeQueues([q EXCEPT !.handed = <<>>, !.staged = <<>>])
    BY DEF EdAccount
  <2>2. LET r == [q EXCEPT !.handed = <<>>, !.staged = <<>>] IN
        /\ r.running = q.running /\ r.worker = q.worker /\ r.faults = q.faults
        /\ r.staged = <<>> /\ r.handed = <<>> /\ r.channel = q.channel
    BY <1>2 DEF EdQ
  <2> QED
    BY <2>1, <2>2 DEF EdAccount, EdTakeQueues
<1>5. EdOpen' = q.handed /\ EdLeft' = q.staged
  BY <1>4 DEF EdOpen, EdLeft
<1>6. EdFlagTypes'
  BY <1>1, <1>2, <1>3, <1>4 DEF EdFlagTypes
<1>7. EdListTypes'
  <2>1. <<>> \in Seq(EdEdit) /\ Len(<<>>) = 0
    BY Nothing, EmptySeq
  <2>2. edReport' \in EdLists
    BY <1>3, <1>4 DEF EdLists
  <2>3. 0 <= Len(edSubmitted)
    <3>1. Len(edSubmitted) \in Nat
      BY <1>1, LenProperties DEF EdListTypes
    <3> QED
      BY <3>1
  <2> QED
    BY <2>1, <2>2, <2>3, <1>1, <1>2, <1>3, <1>4 DEF EdListTypes
<1>8. EdFileTypes' /\ EdCounted'
  BY <1>1 DEF EdFileTypes, EdCounted
<1>9. EdInHand'
  BY <1>1, <1>2, <1>4 DEF EdInHand, QStages
<1>10. EdStages'
  <2>1. edPending = <<>>
    BY <1>1 DEF EdStages
  <2> QED
    BY <2>1, <1>2, <1>4 DEF EdStages, QStages
<1>11. EdBooks'
  BY <1>2, <1>4, <1>5 DEF EdBooks, QBooks
<1>12. EdThread'
  <2>1. q.worker # "ended" => Outlives(q.worker, edCurrent, q.channel, q.handed)
    <3>1. edAnswered \in Seq(EdAnswer)
      BY <1>1 DEF EdListTypes
    <3> QED
      BY <3>1, <1>2, Outliving
  <2> QED
    BY <2>1, <1>4, <1>5 DEF EdThread
<1>13. EdLanding'
  <2>1. \A i \in 1..Len(q.staged) : q.staged[i].n \notin edLanded
    BY <1>2 DEF QClean
  <2> QED
    BY <2>1, <1>1, <1>5 DEF EdLanding
<1>14. EdSmooth'
  BY <1>4 DEF EdSmooth, NoReport
<1>15. (edPhase # "gone" => EdUnderway)'
  BY <1>4
<1> QED
  BY <1>6, <1>7, <1>8, <1>9, <1>10, <1>11, <1>12, <1>13, <1>14, <1>15 DEF EditsInv

\* A completion received during teardown.
LEMMA Logging ==
  ASSUME EditsInv, edPhase \in {"handover", "wait"}, edPhase' = edPhase,
         NEW q, Sound(q, edTold, edAnswered, edSubmitted), EdLog(q),
         UNCHANGED <<edProjected, edReport>>,
         UNCHANGED <<edWake, edPending, edMade, edLive, edCurrent, edOutside, edSubmitted, edRefused,
                     edLanded, edFile, edLate>>,
         edPhase = "wait" => q.running = "closed",
         edPhase = "wait" /\ ~edLate /\ q.faults = 0 => q.staged = <<>>
  PROVE  EditsInv'
<1> DEFINE r == [q EXCEPT !.handed = Tail(@)]
           x == [n |-> Head(edAnswered).e.n, result |-> Head(edAnswered).result]
<1>1. EdListTypes /\ EdFileTypes /\ EdStages
  BY DEF EditsInv
<1>2. edPhase # "gone" /\ edAnswered # <<>>
  BY DEF EdLog
<1>4. edTold \in Seq(EdToldOf) /\ edAnswered \in Seq(EdAnswer) /\ edSubmitted \in Seq(EdEdit)
  BY <1>1 DEF EdListTypes
<1>5. x \in EdToldOf /\ Sound(r, Append(edTold, x), Tail(edAnswered), edSubmitted)
  BY <1>2, <1>4, AnswerSound
<1>6. /\ Append(edTold, x) \in Seq(EdToldOf) /\ Tail(edAnswered) \in Seq(EdAnswer)
      /\ Len(Tail(edAnswered)) <= EditCapacity
      /\ \A i \in 1..Len(Append(edTold, x)) :
           Right(Append(edTold, x)[i].n, Append(edTold, x)[i].result, edLanded)
      /\ \A i \in 1..Len(Tail(edAnswered)) :
           Right(Tail(edAnswered)[i].e.n, Tail(edAnswered)[i].result, edLanded)
  BY <1>2, <1>5, Relayed
<1>7. edTold' = Append(edTold, x) /\ edAnswered' = Tail(edAnswered) /\ EdTakeQueues(r)
  BY DEF EdLog
<1>8. r.running = q.running /\ r.staged = q.staged /\ r.worker = q.worker /\ r.faults = q.faults
  <2>1. q \in EdQ
    BY DEF Sound, Ordered
  <2> QED
    BY <2>1 DEF EdQ
<1> HIDE DEF r, x
<1>9. Ordered(r, Append(edTold, x), Tail(edAnswered), edSubmitted) /\ QLives(r, Tail(edAnswered))
  BY <1>5 DEF Sound
<1>10. EdSmooth'
  <2>1. /\ edFaults' = r.faults /\ edRunning' = r.running /\ edWorker' = r.worker
        /\ edStaged' = r.staged /\ edHanded' = r.handed
    BY <1>7 DEF EdTakeQueues
  <2> QED
    BY <2>1, <1>7, <1>8, <1>9 DEF EdSmooth, QLives
<1>11. edPhase \in EdPhases /\ edPhase' \in EdPhases
  BY DEF EdPhases, EdRunningPhases
<1>12. edPhase' = "wait" => r.running = "closed"
  BY <1>8
<1>13. edPhase' \in {"handover", "wait"} => edPending = <<>>
  BY <1>1 DEF EdStages
<1>14. edLive' \in EdConfig /\ edProjected' \in Seq(EdEdit) /\ Len(edProjected') <= Len(edSubmitted)
  BY <1>1 DEF EdFileTypes, EdListTypes
<1> QED
  BY <1>6, <1>7, <1>9, <1>10, <1>11, <1>12, <1>13, <1>14, Routed

\* Teardown that goes on handing over, or drops the sender, keeps it.
LEMMA Pressing ==
  ASSUME EditsInv, edPhase = "handover", edPhase' \in {"handover", "wait"},
         NEW q, Sound(q, edTold, edAnswered, edSubmitted),
         NEW r, r = q \/ r = [q EXCEPT !.running = "closed"], EdTakeQueues(r),
         UNCHANGED <<edProjected, edReport, edAnswered, edTold>>,
         UNCHANGED <<edWake, edPending, edMade, edLive, edCurrent, edOutside, edSubmitted, edRefused,
                     edLanded, edFile, edLate>>,
         r # q => q.running # "none", edPhase' = "handover" => r = q,
         edPhase' = "wait" => r.running = "closed",
         edPhase' = "wait" /\ ~edLate /\ q.faults = 0 => q.staged = <<>>
  PROVE  EditsInv'
<1>1. EdListTypes /\ EdFileTypes /\ EdStages /\ EdLanding /\ EdUnderway
  BY DEF EditsInv
<1>2. /\ q \in EdQ /\ Len(q.channel) <= EditCapacity /\ q.faults + edOutside <= MaxDisturbances
      /\ Len(q.channel) <= Len(edSubmitted)
      /\ QBooks(q, edTold, edAnswered, edSubmitted) /\ QPipe(q, edAnswered) /\ QClean(q)
      /\ QStages(q, edAnswered) /\ QLives(q, edAnswered)
  BY DEF Sound, Ordered
<1>3. /\ r \in EdQ /\ r.staged = q.staged /\ r.handed = q.handed /\ r.channel = q.channel
      /\ r.worker = q.worker /\ r.faults = q.faults
      /\ (r.running = "closed" /\ q.running # "none") \/ r.running = q.running
  BY <1>2 DEF EdQ
<1>4. Ordered(r, edTold, edAnswered, edSubmitted)
  <2>1. QBooks(r, edTold, edAnswered, edSubmitted) /\ QPipe(r, edAnswered) /\ QClean(r)
    BY <1>2, <1>3 DEF QBooks, QPipe, QClean
  <2>2. QStages(r, edAnswered)
    BY <1>2, <1>3 DEF QStages
  <2> QED
    BY <2>1, <2>2, <1>2, <1>3 DEF Ordered
<1>5. EdSmooth'
  <2>1. /\ edFaults' = r.faults /\ edRunning' = r.running /\ edWorker' = r.worker
        /\ edStaged' = r.staged /\ edHanded' = r.handed
    BY DEF EdTakeQueues
  <2> QED
    BY <2>1, <1>2, <1>3 DEF EdSmooth, QLives
<1>6. /\ edTold \in Seq(EdToldOf) /\ edAnswered \in Seq(EdAnswer) /\ Len(edAnswered) <= EditCapacity
      /\ \A i \in 1..Len(edTold) : Right(edTold[i].n, edTold[i].result, edLanded)
      /\ \A i \in 1..Len(edAnswered) : Right(edAnswered[i].e.n, edAnswered[i].result, edLanded)
  BY <1>1 DEF EdListTypes, EdLanding, EdUnderway
<1>7. edLive' \in EdConfig /\ edProjected' \in Seq(EdEdit) /\ Len(edProjected') <= Len(edSubmitted)
  BY <1>1 DEF EdFileTypes, EdListTypes
<1>8. edPhase \in EdPhases /\ edPhase' \in EdPhases
  BY DEF EdPhases, EdRunningPhases
<1>9. edPhase' \in {"handover", "wait"} => edPending = <<>>
  BY <1>1 DEF EdStages
<1> QED
  BY <1>4, <1>5, <1>6, <1>7, <1>8, <1>9, Routed

\* hand_over_staged keeps it.
LEMMA HandOver ==
  ASSUME EditsInv, EdHandOver
  PROVE  EditsInv'
<1>1. /\ edPhase = "handover" /\ edPhase \notin {"wait", "gone"} /\ edPhase \in {"handover", "wait"}
      /\ UNCHANGED <<edWake, edPending, edMade, edLive, edCurrent, edOutside, edSubmitted, edRefused,
                     edLanded, edFile, edLate>>
  BY DEF EdHandOver
<1>2. PICK q \in EdPumped(edStaged) :
        LET leave == q.staged = <<>> \/ q.running # "up" \/ edLate IN
        \/ /\ leave /\ q.running = "none"
           /\ EdAccount(q) /\ UNCHANGED <<edAnswered, edTold>>
        \/ /\ leave /\ q.running # "none"
           /\ EdTakeQueues([q EXCEPT !.running = "closed"]) /\ edPhase' = "wait"
           /\ UNCHANGED <<edProjected, edReport, edAnswered, edTold>>
        \/ /\ ~leave /\ EdLog(q) /\ UNCHANGED <<edPhase, edProjected, edReport>>
        \/ /\ ~leave /\ edAnswered = <<>> /\ q.staged # edStaged /\ EdTakeQueues(q)
           /\ UNCHANGED <<edPhase, edProjected, edReport, edAnswered, edTold>>
  BY DEF EdHandOver
<1>3. /\ Sound(q, edTold, edAnswered, edSubmitted)
      /\ q.faults = 0 /\ q.staged # <<>> => q.running # "none"
  BY <1>1, Repumped
<1>4. q \in EdQ /\ QStages(q, edAnswered) /\ QLives(q, edAnswered)
  BY <1>3 DEF Sound, Ordered
<1>5. q.running \in {"none", "up", "closed"}
  BY <1>4 DEF EdQ
<1>6. CASE q.running = "none" /\ EdAccount(q) /\ UNCHANGED <<edAnswered, edTold>>
  <2>1. ~edLate /\ q.faults = 0 => q.handed = <<>> /\ q.staged = <<>>
    BY <1>3, <1>4, <1>6 DEF QStages
  <2> QED
    BY <2>1, <1>1, <1>3, <1>6, Accounting
<1>7. CASE /\ q.staged = <<>> \/ q.running # "up" \/ edLate
           /\ q.running # "none"
           /\ EdTakeQueues([q EXCEPT !.running = "closed"]) /\ edPhase' = "wait"
           /\ UNCHANGED <<edProjected, edReport, edAnswered, edTold>>
  <2> DEFINE r == [q EXCEPT !.running = "closed"]
  <2>1. r.running = "closed"
    BY <1>4 DEF EdQ
  <2>2. ~edLate /\ q.faults = 0 => q.staged = <<>>
    BY <1>1, <1>4, <1>5, <1>7 DEF QLives
  <2>3. EdTakeQueues(r) /\ (r = q \/ r = [q EXCEPT !.running = "closed"])
    BY <1>7
  <2> HIDE DEF r
  <2> QED
    BY <2>1, <2>2, <2>3, <1>1, <1>3, <1>7, Pressing
<1>8. CASE EdLog(q) /\ UNCHANGED <<edPhase, edProjected, edReport>>
  BY <1>1, <1>3, <1>8, Logging
<1>9. CASE /\ EdTakeQueues(q)
           /\ UNCHANGED <<edPhase, edProjected, edReport, edAnswered, edTold>>
  BY <1>1, <1>3, <1>9, Pressing
<1> QED
  BY <1>2, <1>6, <1>7, <1>8, <1>9

\* The wait for the last completions, and its end, keep it.
LEMMA Await ==
  ASSUME EditsInv, EdAwait
  PROVE  EditsInv'
<1> DEFINE q == EdQueues(edStaged)
<1>1. /\ edPhase = "wait" /\ edPhase # "gone" /\ edPhase \in {"handover", "wait"}
      /\ UNCHANGED <<edWake, edPending, edMade, edLive, edCurrent, edOutside, edSubmitted, edRefused,
                     edLanded, edFile, edLate>>
  BY DEF EdAwait
<1>2. \/ ~edLate /\ EdLog(q) /\ UNCHANGED <<edPhase, edProjected, edReport>>
      \/ (edLate \/ EdSilent(q)) /\ EdAccount(q) /\ UNCHANGED <<edAnswered, edTold>>
  BY DEF EdAwait
<1>3. Sound(q, edTold, edAnswered, edSubmitted)
  <2>1. /\ edStaged \in Seq(EdEdit) /\ edSubmitted \in Seq(EdEdit)
        /\ Len(edSubmitted) <= Len(edSubmitted)
        /\ Books(edTold, edHanded, edStaged, edSubmitted, edWorker, edAnswered)
        /\ \A i \in 1..Len(edStaged) : edStaged[i].n \notin edLanded
    BY <1>1, Standing
  <2> QED
    BY <2>1, <1>1, QueuesSound
<1>4. /\ q.running = edRunning /\ q.worker = edWorker /\ q.faults = edFaults /\ q.staged = edStaged
      /\ q.handed = edHanded
  BY DEF EdQueues
<1>5. edRunning = "closed" /\ EdSmooth /\ EdListTypes
  BY <1>1 DEF EditsInv, EdStages
<1> HIDE DEF q
<1>6. CASE EdLog(q) /\ UNCHANGED <<edPhase, edProjected, edReport>>
  <2>1. edPhase = "wait" => q.running = "closed"
    BY <1>4, <1>5
  <2>2. edPhase = "wait" /\ ~edLate /\ q.faults = 0 => q.staged = <<>>
    BY <1>4, <1>5 DEF EdSmooth
  <2> QED
    BY <2>1, <2>2, <1>1, <1>3, <1>6, Logging
<1>7. CASE (edLate \/ EdSilent(q)) /\ EdAccount(q) /\ UNCHANGED <<edAnswered, edTold>>
  <2>1. ASSUME ~edLate, q.faults = 0 PROVE q.handed = <<>> /\ q.staged = <<>>
    <3>1. edWorker = "ended" /\ edAnswered = <<>>
      BY <2>1, <1>4, <1>5, <1>7 DEF EdSilent
    <3>2. Len(edHanded) = Len(edAnswered) /\ edStaged = <<>>
      BY <2>1, <3>1, <1>1, <1>4, <1>5 DEF EdSmooth
    <3>3. edHanded = <<>>
      <4>1. edHanded \in Seq(EdEdit) /\ Len(edHanded) = 0
        BY <3>1, <3>2, <1>5, EmptySeq DEF EdListTypes
      <4> QED
        BY <4>1, EmptySeq
    <3> QED
      BY <3>2, <3>3, <1>4
  <2> QED
    BY <2>1, <1>1, <1>3, <1>7, Accounting
<1> QED
  BY <1>2, <1>6, <1>7

-----------------------------------------------------------------------------
(* The steps of the thread. *)

\* A step of the thread keeps the parts that speak of the loop.
LEMMA Worked ==
  ASSUME EditsInv, edWorker \notin {"none", "ended"},
         edWorker' \in {"idle", "writing", "sending", "stuck", "ended"},
         UNCHANGED <<edPhase, edPending, edMade, edLive, edRunning, edStaged, edHanded, edProjected,
                     edOutside, edSubmitted, edTold, edRefused, edLate, edReport>>,
         edWake' \in BOOLEAN, edFaults' \in Nat, edFaults' + edOutside <= MaxDisturbances,
         edChannel' \in Seq(EdEdit), Len(edChannel') <= Len(edChannel),
         edAnswered' \in Seq(EdAnswer), Len(edAnswered') <= EditCapacity,
         edFile' \in EdFileConfig, edLanded' \subseteq 1..MaxGestures,
         EdInHand', EdThread', EdLanding', edPhase # "gone" => EdUnderway', EdSmooth'
  PROVE  EditsInv'
<1>1. /\ EdFlagTypes /\ EdListTypes /\ EdFileTypes /\ EdStages /\ EdCounted /\ EdBooks
  BY DEF EditsInv
<1>2. EdFlagTypes'
  BY <1>1 DEF EdFlagTypes
<1>3. EdListTypes'
  <2>1. edChannel \in Seq(EdEdit) /\ edSubmitted \in Seq(EdEdit)
    BY <1>1 DEF EdListTypes
  <2>2. Len(edChannel) \in Nat /\ Len(edChannel') \in Nat /\ Len(edSubmitted) \in Nat /\ EditCapacity \in Nat
    BY <2>1, LenProperties, EditsAssumption
  <2>3. Len(edChannel) <= EditCapacity /\ Len(edChannel) <= Len(edSubmitted)
    BY <1>1 DEF EdListTypes
  <2>4. Len(edChannel') <= EditCapacity /\ Len(edChannel') <= Len(edSubmitted)
    BY <2>2, <2>3
  <2> QED
    BY <2>4, <1>1 DEF EdListTypes
<1>4. EdFileTypes' /\ EdCounted'
  BY <1>1 DEF EdFileTypes, EdCounted
<1>5. EdStages'
  <2>1. edRunning # "none"
    BY <1>1 DEF EdStages
  <2> QED
    BY <2>1, <1>1 DEF EdStages
<1>6. EdBooks'
  <2>1. EdOpen' = EdOpen /\ EdLeft' = EdLeft
    BY DEF EdOpen, EdLeft
  <2>2. PICK m \in 0..Len(edTold) : /\ Ledger(m, edTold, EdOpen, EdLeft, edSubmitted)
                                    /\ m = Len(edTold)
    BY <1>1 DEF EdBooks, Books
  <2> QED
    BY <2>1, <2>2 DEF EdBooks, Books
<1> QED
  BY <1>2, <1>3, <1>4, <1>5, <1>6 DEF EditsInv

\* The open edits are not told, nor left, and were submitted.
LEMMA OpenApart ==
  ASSUME EditsInv, NEW k \in 1..Len(EdOpen)
  PROVE  /\ \E i \in 1..Len(edSubmitted) : edSubmitted[i].n = EdOpen[k].n
         /\ \A i \in 1..Len(edTold) : edTold[i].n # EdOpen[k].n
         /\ \A i \in 1..Len(EdLeft) : EdLeft[i].n # EdOpen[k].n
         /\ \A i \in 1..Len(EdOpen) : EdOpen[i].n = EdOpen[k].n => i = k
<1>1. EdListTypes /\ EdBooks /\ EdCounted
  BY DEF EditsInv
<1>2. /\ EdOpen \in Seq(EdEdit) /\ EdLeft \in Seq(EdEdit) /\ edTold \in Seq(EdToldOf)
      /\ edSubmitted \in Seq(EdEdit)
  BY <1>1, Lists
<1>3. PICK m \in 0..Len(edTold) : Ledger(m, edTold, EdOpen, EdLeft, edSubmitted)
  BY <1>1 DEF EdBooks, Books
<1>4. Distinct(edSubmitted)
  BY <1>1 DEF EdCounted
<1>5. Separate(edTold, EdOpen, EdLeft, edSubmitted)
  BY <1>2, <1>3, <1>4, Apart
<1>6. \E i \in 1..Len(edSubmitted) : edSubmitted[i].n = EdOpen[k].n
  BY <1>5 DEF Separate
<1>7. \A i \in 1..Len(edTold) : edTold[i].n # EdOpen[k].n
  BY <1>5 DEF Separate
<1>8. \A i \in 1..Len(EdLeft) : EdLeft[i].n # EdOpen[k].n
  BY <1>5 DEF Separate
<1>9. \A i \in 1..Len(EdOpen) : EdOpen[i].n = EdOpen[k].n => i = k
  BY <1>5 DEF Separate, Distinct
<1> QED
  BY <1>6, <1>7, <1>8, <1>9

\* The thread takes an edit.
LEMMA Receive ==
  ASSUME EditsInv, EdReceive
  PROVE  EditsInv'
<1> DEFINE a == Len(edAnswered)
           h == Len(edHanded)
           c == Len(edChannel)
<1>1. /\ EdFlagTypes /\ EdListTypes /\ EdFileTypes /\ EdThread /\ EdLanding /\ EdSmooth
      /\ (edPhase # "gone" => EdUnderway)
  BY DEF EditsInv
<1>2. /\ edWorker = "idle" /\ edChannel # <<>> /\ edWorker' = "writing"
      /\ edCurrent' = Head(edChannel) /\ edChannel' = Tail(edChannel)
      /\ UNCHANGED <<edPhase, edWake, edPending, edMade, edLive, edRunning, edStaged, edHanded,
                     edProjected, edAnswered, edFaults, edOutside, edSubmitted, edTold, edRefused,
                     edLanded, edFile, edLate, edReport>>
  BY DEF EdReceive, edLoopVars, edBoundVars, edHistoryVars
<1>3. edChannel \in Seq(EdEdit) /\ edHanded \in Seq(EdEdit) /\ edAnswered \in Seq(EdAnswer)
  BY <1>1 DEF EdListTypes
<1>4. /\ c > 0 /\ Head(edChannel) = edChannel[1] /\ Head(edChannel) \in EdEdit
      /\ Tail(edChannel) \in Seq(EdEdit) /\ Len(Tail(edChannel)) = c - 1
      /\ \A i \in 1..(c - 1) : Tail(edChannel)[i] = edChannel[i + 1]
  BY <1>2, <1>3, Taken
<1>5. a \in Nat /\ h \in Nat /\ c \in Nat
  BY <1>3, LenProperties
<1>6. \A i \in 1..(c - 1) : i + 1 \in 1..c
  BY <1>5
<1>7. 1 \in 1..c
  BY <1>4, <1>5
<1>8. EdInHand'
  BY <1>2, <1>4 DEF EdInHand
<1>9. EdThread'
  <2>1. CASE edPhase # "gone"
    <3>1. Pipe(edWorker, edCurrent, edAnswered, edChannel, edHanded)
      BY <1>1, <2>1 DEF EdThread
    <3>2. /\ a <= h /\ \A i \in 1..a : edHanded[i] = edAnswered[i].e
          /\ h = a + 0 + c /\ \A i \in 1..c : edChannel[i] = edHanded[a + 0 + i]
      BY <3>1, <1>2 DEF Pipe, Follows
    <3> HIDE DEF a, h, c
    <3>3. h = a + 1 + (c - 1) /\ a + 0 + 1 = a + 1
      BY <3>2, <1>5
    <3>4. \A i \in 1..(c - 1) : a + 0 + (i + 1) = a + 1 + i
      BY <1>5
    <3>5. \A i \in 1..(c - 1) : Tail(edChannel)[i] = edHanded[a + 1 + i]
      BY <3>2, <3>4, <1>4, <1>6
    <3>6. edHanded[a + 1] = Head(edChannel)
      BY <3>2, <3>3, <1>4, <1>7
    <3>7. Pipe("writing", Head(edChannel), edAnswered, Tail(edChannel), edHanded)
      BY <3>2, <3>3, <3>5, <3>6, <1>4 DEF Pipe, Follows, InHand, a, h, c
    <3> QED
      BY <3>7, <2>1, <1>2 DEF EdThread
  <2>2. CASE edPhase = "gone"
    <3>1. EdOpen' = EdOpen /\ Outlives(edWorker, edCurrent, edChannel, EdOpen)
      BY <1>1, <1>2, <2>2 DEF EdThread, EdOpen
    <3>2. \A i \in 1..c : \E k \in 1..Len(EdOpen) : edChannel[i].n = EdOpen[k].n
      BY <3>1 DEF Outlives
    <3>3. Outlives("writing", Head(edChannel), Tail(edChannel), EdOpen)
      BY <3>2, <1>4, <1>6, <1>7 DEF Outlives
    <3> QED
      BY <3>1, <3>3, <2>2, <1>2 DEF EdThread
  <2> QED
    BY <2>1, <2>2
<1>10. EdLanding'
  <2>1. EdLeft' = EdLeft
    BY <1>2 DEF EdLeft
  <2> QED
    BY <2>1, <1>1, <1>2 DEF EdLanding
<1>11. edPhase # "gone" => EdUnderway'
  <2> SUFFICES ASSUME edPhase # "gone" PROVE EdUnderway'
    OBVIOUS
  <2>1. \A i \in 1..c : edChannel[i].n \notin edLanded
    BY <1>1, <1>2 DEF EdUnderway
  <2>2. \A i \in 1..(c - 1) : Tail(edChannel)[i].n \notin edLanded
    BY <2>1, <1>4, <1>6
  <2>3. Head(edChannel).n \notin edLanded
    BY <2>1, <1>4, <1>7
  <2>4. \A i \in 1..Len(edAnswered) : Right(edAnswered[i].e.n, edAnswered[i].result, edLanded)
    BY <1>1 DEF EdUnderway
  <2> QED
    BY <2>2, <2>3, <2>4, <1>2, <1>4 DEF EdUnderway
<1>12. EdSmooth'
  BY <1>1, <1>2 DEF EdSmooth
<1>13. Len(edChannel') <= Len(edChannel)
  <2>1. c - 1 <= c
    BY <1>5
  <2> QED
    BY <2>1, <1>2, <1>4
<1>14. /\ edWake' \in BOOLEAN /\ edFaults' \in Nat /\ edFaults' + edOutside <= MaxDisturbances
       /\ edFile' \in EdFileConfig /\ edLanded' \subseteq 1..MaxGestures
       /\ edAnswered' \in Seq(EdAnswer) /\ Len(edAnswered') <= EditCapacity
  BY <1>1, <1>2 DEF EdFlagTypes, EdFileTypes, EdListTypes
<1>15. edChannel' \in Seq(EdEdit)
  BY <1>2, <1>4
<1> QED
  BY <1>2, <1>8, <1>9, <1>10, <1>11, <1>12, <1>13, <1>14, <1>15, Worked

\* The thread sends a completion.
LEMMA Send ==
  ASSUME EditsInv, EdSend
  PROVE  EditsInv'
<1> DEFINE a == Len(edAnswered)
           h == Len(edHanded)
           c == Len(edChannel)
<1>1. /\ EdFlagTypes /\ EdListTypes /\ EdFileTypes /\ EdThread /\ EdLanding /\ EdSmooth /\ EdInHand
      /\ (edPhase # "gone" => EdUnderway)
  BY DEF EditsInv
<1>2. /\ edWorker = "sending" /\ edWorker' = "idle" /\ edCurrent' = NoEdit
      /\ UNCHANGED <<edPhase, edPending, edMade, edLive, edRunning, edStaged, edHanded, edChannel,
                     edProjected, edFaults, edOutside, edSubmitted, edTold, edRefused,
                     edLanded, edFile, edLate, edReport>>
      /\ \/ edPhase = "gone" /\ UNCHANGED <<edAnswered, edWake>>
         \/ /\ edPhase # "gone" /\ Len(edAnswered) < EditCapacity
            /\ edAnswered' = Append(edAnswered, edCurrent) /\ edWake' = TRUE
  BY DEF EdSend, edQueueVars, edBoundVars, edHistoryVars
<1>3. /\ edChannel \in Seq(EdEdit) /\ edHanded \in Seq(EdEdit) /\ edAnswered \in Seq(EdAnswer)
      /\ edCurrent \in EdAnswer
  BY <1>1, <1>2 DEF EdListTypes, EdInHand
<1>4. a \in Nat /\ h \in Nat /\ c \in Nat /\ EditCapacity \in Nat
  BY <1>3, LenProperties, EditsAssumption
<1>5. /\ Append(edAnswered, edCurrent) \in Seq(EdAnswer) /\ Len(Append(edAnswered, edCurrent)) = a + 1
      /\ \A i \in 1..a : Append(edAnswered, edCurrent)[i] = edAnswered[i]
      /\ Append(edAnswered, edCurrent)[a + 1] = edCurrent
  BY <1>3, Put
<1>6. \A i \in 1..(a + 1) : i \in 1..a \/ i = a + 1
  BY <1>4
<1>7. /\ edAnswered' \in Seq(EdAnswer) /\ Len(edAnswered') <= EditCapacity /\ edWake' \in BOOLEAN
  <2>1. CASE edPhase = "gone"
    BY <2>1, <1>1, <1>2 DEF EdListTypes, EdFlagTypes
  <2>2. CASE edPhase # "gone"
    <3>1. a < EditCapacity => a + 1 <= EditCapacity
      BY <1>4
    <3> QED
      BY <3>1, <2>2, <1>2, <1>5
  <2> QED
    BY <2>1, <2>2
<1>8. EdInHand'
  BY <1>2 DEF EdInHand
<1>9. EdThread'
  <2>1. CASE edPhase # "gone"
    <3>1. Pipe(edWorker, edCurrent, edAnswered, edChannel, edHanded)
      BY <1>1, <2>1 DEF EdThread
    <3>2. /\ a <= h /\ \A i \in 1..a : edHanded[i] = edAnswered[i].e
          /\ h = a + 1 + c /\ \A i \in 1..c : edChannel[i] = edHanded[a + 1 + i]
          /\ edHanded[a + 1] = edCurrent.e
      BY <3>1, <1>2 DEF Pipe, Follows, InHand
    <3> HIDE DEF a, h, c
    <3>3. h = (a + 1) + 0 + c /\ a + 1 <= h
      BY <3>2, <1>4
    <3>4. \A i \in 1..c : (a + 1) + 0 + i = a + 1 + i
      BY <1>4
    <3>5. \A i \in 1..c : edChannel[i] = edHanded[(a + 1) + 0 + i]
      BY <3>2, <3>4
    <3>6. \A i \in 1..(a + 1) : edHanded[i] = Append(edAnswered, edCurrent)[i].e
      BY <3>2, <1>5, <1>6
    <3>7. Pipe("idle", NoEdit, Append(edAnswered, edCurrent), edChannel, edHanded)
      BY <3>3, <3>5, <3>6, <1>5 DEF Pipe, Follows, h, c
    <3> QED
      BY <3>7, <2>1, <1>2 DEF EdThread
  <2>2. CASE edPhase = "gone"
    <3>1. EdOpen' = EdOpen /\ Outlives(edWorker, edCurrent, edChannel, EdOpen)
      BY <1>1, <1>2, <2>2 DEF EdThread, EdOpen
    <3>2. Outlives("idle", NoEdit, edChannel, EdOpen)
      BY <3>1 DEF Outlives
    <3> QED
      BY <3>1, <3>2, <2>2, <1>2 DEF EdThread
  <2> QED
    BY <2>1, <2>2
<1>10. EdLanding'
  <2>1. EdLeft' = EdLeft
    BY <1>2 DEF EdLeft
  <2> QED
    BY <2>1, <1>1, <1>2 DEF EdLanding
<1>11. edPhase # "gone" => EdUnderway'
  <2> SUFFICES ASSUME edPhase # "gone" PROVE EdUnderway'
    OBVIOUS
  <2>1. /\ \A i \in 1..a : Right(edAnswered[i].e.n, edAnswered[i].result, edLanded)
        /\ Right(edCurrent.e.n, edCurrent.result, edLanded)
        /\ \A i \in 1..c : edChannel[i].n \notin edLanded
    BY <1>1, <1>2 DEF EdUnderway
  <2>2. edAnswered' = Append(edAnswered, edCurrent)
    BY <1>2
  <2>3. \A i \in 1..(a + 1) : Right(Append(edAnswered, edCurrent)[i].e.n,
                                    Append(edAnswered, edCurrent)[i].result, edLanded)
    BY <2>1, <1>5, <1>6
  <2> QED
    BY <2>1, <2>2, <2>3, <1>2, <1>5 DEF EdUnderway
<1>12. EdSmooth'
  BY <1>1, <1>2 DEF EdSmooth
<1>13. Len(edChannel') <= Len(edChannel) /\ edChannel' \in Seq(EdEdit)
  <2>1. c <= c
    BY <1>4
  <2> QED
    BY <2>1, <1>2, <1>3
<1>14. /\ edFaults' \in Nat /\ edFaults' + edOutside <= MaxDisturbances
       /\ edFile' \in EdFileConfig /\ edLanded' \subseteq 1..MaxGestures
  BY <1>1, <1>2 DEF EdFlagTypes, EdFileTypes
<1> QED
  BY <1>2, <1>7, <1>8, <1>9, <1>10, <1>11, <1>12, <1>13, <1>14, Worked

\* The thread ends, its channel closed and empty.
LEMMA FinishStep ==
  ASSUME EditsInv, EdFinish
  PROVE  EditsInv'
<1>1. /\ EdFlagTypes /\ EdListTypes /\ EdFileTypes /\ EdThread /\ EdLanding /\ EdSmooth /\ EdInHand
      /\ (edPhase # "gone" => EdUnderway)
  BY DEF EditsInv
<1>2. /\ edWorker = "idle" /\ edChannel = <<>> /\ edRunning = "closed" /\ edWorker' = "ended"
      /\ UNCHANGED <<edPhase, edWake, edPending, edMade, edLive, edRunning, edStaged, edHanded,
                     edProjected, edChannel, edAnswered, edCurrent, edFaults, edOutside, edSubmitted,
                     edTold, edRefused, edLanded, edFile, edLate, edReport>>
  BY DEF EdFinish, edLoopVars, edQueueVars, edBoundVars, edHistoryVars
<1>3. /\ edWake' \in BOOLEAN /\ edFaults' \in Nat /\ edFaults' + edOutside <= MaxDisturbances
      /\ edChannel' \in Seq(EdEdit) /\ edAnswered' \in Seq(EdAnswer) /\ Len(edAnswered') <= EditCapacity
      /\ edFile' \in EdFileConfig /\ edLanded' \subseteq 1..MaxGestures
  BY <1>1, <1>2 DEF EdFlagTypes, EdListTypes, EdFileTypes
<1>4. Len(edChannel') <= Len(edChannel)
  <2>1. Len(edChannel) \in Nat
    BY <1>1, LenProperties DEF EdListTypes
  <2> QED
    BY <2>1, <1>2
<1>5. EdInHand'
  BY <1>1, <1>2 DEF EdInHand
<1>6. EdThread'
  BY <1>1, <1>2 DEF EdThread, Pipe
<1>7. EdLanding'
  <2>1. EdLeft' = EdLeft
    BY <1>2 DEF EdLeft
  <2> QED
    BY <2>1, <1>1, <1>2 DEF EdLanding
<1>8. edPhase # "gone" => EdUnderway'
  BY <1>1, <1>2 DEF EdUnderway
<1>9. EdSmooth'
  <2>1. edPhase # "gone" => Len(edHanded) = Len(edAnswered)
    <3> SUFFICES ASSUME edPhase # "gone" PROVE Len(edHanded) = Len(edAnswered)
      OBVIOUS
    <3>1. Pipe(edWorker, edCurrent, edAnswered, edChannel, edHanded)
      BY <1>1 DEF EdThread
    <3>2. Len(edHanded) = Len(edAnswered) + 0 + Len(edChannel)
      BY <3>1, <1>2 DEF Pipe
    <3>3. Len(edChannel) = 0 /\ Len(edAnswered) \in Nat
      BY <1>1, <1>2, EmptySeq, LenProperties DEF EdListTypes
    <3> QED
      BY <3>2, <3>3
  <2> QED
    BY <2>1, <1>1, <1>2 DEF EdSmooth
<1> QED
  BY <1>2, <1>3, <1>4, <1>5, <1>6, <1>7, <1>8, <1>9, Worked

\* The process exits under the thread.
LEMMA ExitStep ==
  ASSUME EditsInv, EdExit
  PROVE  EditsInv'
<1>1. /\ EdFlagTypes /\ EdListTypes /\ EdFileTypes /\ EdLanding /\ EdSmooth
  BY DEF EditsInv
<1>2. /\ edPhase = "gone" /\ edWorker \notin {"none", "ended"} /\ edWorker' = "ended"
      /\ edCurrent' = NoEdit /\ edChannel' = <<>>
      /\ UNCHANGED <<edPhase, edWake, edPending, edMade, edLive, edRunning, edStaged, edHanded,
                     edProjected, edAnswered, edFaults, edOutside, edSubmitted,
                     edTold, edRefused, edLanded, edFile, edLate, edReport>>
  BY DEF EdExit, edLoopVars, edBoundVars, edHistoryVars
<1>3. /\ edWake' \in BOOLEAN /\ edFaults' \in Nat /\ edFaults' + edOutside <= MaxDisturbances
      /\ edAnswered' \in Seq(EdAnswer) /\ Len(edAnswered') <= EditCapacity
      /\ edFile' \in EdFileConfig /\ edLanded' \subseteq 1..MaxGestures
  BY <1>1, <1>2 DEF EdFlagTypes, EdListTypes, EdFileTypes
<1>4. edChannel' \in Seq(EdEdit) /\ Len(edChannel') <= Len(edChannel)
  <2>1. Len(edChannel) \in Nat /\ Len(<<>>) = 0 /\ <<>> \in Seq(EdEdit)
    BY <1>1, LenProperties, EmptySeq, Nothing DEF EdListTypes
  <2> QED
    BY <2>1, <1>2
<1>5. EdInHand' /\ EdThread'
  BY <1>2 DEF EdInHand, EdThread
<1>6. EdLanding'
  <2>1. EdLeft' = EdLeft
    BY <1>2 DEF EdLeft
  <2> QED
    BY <2>1, <1>1, <1>2 DEF EdLanding
<1>7. EdSmooth'
  BY <1>1, <1>2 DEF EdSmooth
<1> QED
  BY <1>2, <1>3, <1>4, <1>5, <1>6, <1>7, Worked

\* The edit being written is an open one, and no other.
LEMMA Writing ==
  ASSUME EditsInv, edWorker = "writing"
  PROVE  /\ \E i \in 1..Len(edSubmitted) : edSubmitted[i].n = edCurrent.n
         /\ \A i \in 1..Len(edTold) : edTold[i].n # edCurrent.n
         /\ \A i \in 1..Len(EdLeft) : EdLeft[i].n # edCurrent.n
         /\ edPhase # "gone" =>
              /\ \A i \in 1..Len(edAnswered) : edAnswered[i].e.n # edCurrent.n
              /\ \A i \in 1..Len(edChannel) : edChannel[i].n # edCurrent.n
<1> DEFINE a == Len(edAnswered)
           h == Len(edHanded)
           c == Len(edChannel)
<1>1. EdListTypes /\ EdThread
  BY DEF EditsInv
<1>2. edChannel \in Seq(EdEdit) /\ edHanded \in Seq(EdEdit) /\ edAnswered \in Seq(EdAnswer)
  BY <1>1 DEF EdListTypes
<1>3. a \in Nat /\ h \in Nat /\ c \in Nat
  BY <1>2, LenProperties
<1>4. CASE edPhase = "gone"
  <2>1. PICK k \in 1..Len(EdOpen) : edCurrent.n = EdOpen[k].n
    BY <1>1, <1>4 DEF EdThread, Outlives
  <2> QED
    BY <2>1, <1>4, OpenApart
<1>5. CASE edPhase # "gone"
  <2>1. Pipe(edWorker, edCurrent, edAnswered, edChannel, edHanded) /\ EdOpen = edHanded
    BY <1>1, <1>5 DEF EdThread, EdOpen
  <2>2. /\ a <= h /\ \A i \in 1..a : edHanded[i] = edAnswered[i].e
        /\ h = a + 1 + c /\ \A i \in 1..c : edChannel[i] = edHanded[a + 1 + i]
        /\ edHanded[a + 1] = edCurrent
    BY <2>1 DEF Pipe, Follows, InHand
  <2> HIDE DEF a, h, c
  <2>3. a + 1 \in 1..h
    BY <2>2, <1>3
  <2>4. \A i \in 1..a : i \in 1..h /\ i # a + 1
    BY <2>2, <1>3
  <2>5. \A i \in 1..c : a + 1 + i \in 1..h /\ a + 1 + i # a + 1
    BY <2>2, <1>3
  <2>6. a + 1 \in 1..Len(EdOpen) /\ EdOpen[a + 1].n = edCurrent.n
    BY <2>1, <2>2, <2>3 DEF h
  <2>7. /\ \E i \in 1..Len(edSubmitted) : edSubmitted[i].n = EdOpen[a + 1].n
        /\ \A i \in 1..Len(edTold) : edTold[i].n # EdOpen[a + 1].n
        /\ \A i \in 1..Len(EdLeft) : EdLeft[i].n # EdOpen[a + 1].n
        /\ \A i \in 1..Len(EdOpen) : EdOpen[i].n = EdOpen[a + 1].n => i = a + 1
    BY <2>6, OpenApart
  <2>8. \A i \in 1..h : edHanded[i].n = edCurrent.n => i = a + 1
    BY <2>1, <2>6, <2>7 DEF h
  <2>9. \A i \in 1..a : edAnswered[i].e.n # edCurrent.n
    BY <2>2, <2>4, <2>8
  <2>10. \A i \in 1..c : edChannel[i].n # edCurrent.n
    BY <2>2, <2>5, <2>8
  <2> QED
    BY <2>6, <2>7, <2>9, <2>10 DEF a, c
<1> QED
  BY <1>4, <1>5

\* The file after a write, and the answer to it.
LEMMA Written ==
  ASSUME EditsInv, edWorker = "writing", edWorker' = "sending",
         NEW result \in EdResult, edCurrent' = [e |-> edCurrent, result |-> result],
         edFile' \in EdFileConfig, edLanded' = edLanded \/ edLanded' = edLanded \cup {edCurrent.n},
         edPhase # "gone" => Right(edCurrent.n, result, edLanded'),
         edFaults' \in Nat, edFaults' + edOutside <= MaxDisturbances, edFaults' = 0 => edFaults = 0,
         UNCHANGED <<edLoopVars, edQueueVars, edAnswered, edOutside, edSubmitted, edTold, edRefused,
                     edLate, edReport>>
  PROVE  EditsInv'
<1>1. /\ EdFlagTypes /\ EdListTypes /\ EdFileTypes /\ EdThread /\ EdLanding /\ EdSmooth /\ EdInHand
      /\ (edPhase # "gone" => EdUnderway)
  BY DEF EditsInv
<1>2. UNCHANGED <<edPhase, edWake, edPending, edMade, edLive, edRunning, edStaged, edHanded,
                  edProjected, edChannel, edAnswered, edOutside, edSubmitted,
                  edTold, edRefused, edLate, edReport>>
  BY DEF edLoopVars, edQueueVars
<1>3. /\ \E i \in 1..Len(edSubmitted) : edSubmitted[i].n = edCurrent.n
      /\ \A i \in 1..Len(edTold) : edTold[i].n # edCurrent.n
      /\ \A i \in 1..Len(EdLeft) : EdLeft[i].n # edCurrent.n
      /\ edPhase # "gone" =>
           /\ \A i \in 1..Len(edAnswered) : edAnswered[i].e.n # edCurrent.n
           /\ \A i \in 1..Len(edChannel) : edChannel[i].n # edCurrent.n
  BY Writing
<1>4. edCurrent \in EdEdit /\ edCurrent.n \in 1..MaxGestures
  BY <1>1 DEF EdInHand, EdEdit
<1>5. /\ edWake' \in BOOLEAN
      /\ edAnswered' \in Seq(EdAnswer) /\ Len(edAnswered') <= EditCapacity
      /\ edChannel' \in Seq(EdEdit) /\ edLanded' \subseteq 1..MaxGestures
  BY <1>1, <1>2, <1>4 DEF EdFlagTypes, EdListTypes, EdFileTypes
<1>6. Len(edChannel') <= Len(edChannel)
  <2>1. Len(edChannel) \in Nat
    BY <1>1, LenProperties DEF EdListTypes
  <2> QED
    BY <2>1, <1>2
<1>7. edCurrent' \in EdAnswer /\ edCurrent'.e = edCurrent /\ edCurrent'.result = result
  BY <1>4 DEF EdAnswer
<1>8. EdInHand'
  BY <1>7 DEF EdInHand
<1>9. EdThread'
  <2>1. EdOpen' = EdOpen
    BY <1>2 DEF EdOpen
  <2>2. Pipe(edWorker, edCurrent, edAnswered, edChannel, edHanded)
          => Pipe("sending", edCurrent', edAnswered, edChannel, edHanded)
    BY <1>7 DEF Pipe, InHand
  <2>3. Outlives(edWorker, edCurrent, edChannel, EdOpen)
          => Outlives("sending", edCurrent', edChannel, EdOpen)
    BY DEF Outlives
  <2> QED
    BY <2>1, <2>2, <2>3, <1>1, <1>2 DEF EdThread
<1>10. \A n : n # edCurrent.n => (n \in edLanded' <=> n \in edLanded)
  OBVIOUS
<1>11. EdLanding'
  <2>1. EdLeft' = EdLeft
    BY <1>2 DEF EdLeft
  <2>2. \A n \in edLanded' : \E k \in 1..Len(edSubmitted) : edSubmitted[k].n = n
    BY <1>1, <1>3, <1>10 DEF EdLanding
  <2>3. \A i \in 1..Len(edTold) : Right(edTold[i].n, edTold[i].result, edLanded')
    BY <1>1, <1>3, <1>10 DEF EdLanding, Right
  <2>4. \A i \in 1..Len(EdLeft) : EdLeft[i].n \notin edLanded'
    BY <1>1, <1>3, <1>10 DEF EdLanding
  <2> QED
    BY <2>1, <2>2, <2>3, <2>4, <1>2 DEF EdLanding
<1>12. edPhase # "gone" => EdUnderway'
  <2> SUFFICES ASSUME edPhase # "gone" PROVE EdUnderway'
    OBVIOUS
  <2>1. \A i \in 1..Len(edAnswered) : Right(edAnswered[i].e.n, edAnswered[i].result, edLanded')
    BY <1>1, <1>3, <1>10 DEF EdUnderway, Right
  <2>2. \A i \in 1..Len(edChannel) : edChannel[i].n \notin edLanded'
    BY <1>1, <1>3, <1>10 DEF EdUnderway
  <2>3. Right(edCurrent'.e.n, edCurrent'.result, edLanded')
    BY <1>7
  <2> QED
    BY <2>1, <2>2, <2>3, <1>2 DEF EdUnderway
<1>13. EdSmooth'
  BY <1>1, <1>2 DEF EdSmooth
<1> QED
  BY <1>2, <1>5, <1>6, <1>8, <1>9, <1>11, <1>12, <1>13, Worked

\* The write never returns, or the thread is lost with it.
LEMMA Broken ==
  ASSUME EditsInv, edWorker = "writing", edFaults' # 0, edFaults' \in Nat,
         edFaults' + edOutside <= MaxDisturbances,
         \/ edWorker' = "stuck" /\ edCurrent' = edCurrent
         \/ edWorker' = "ended" /\ edCurrent' = NoEdit,
         UNCHANGED <<edFile, edLanded>>,
         UNCHANGED <<edLoopVars, edQueueVars, edAnswered, edOutside, edSubmitted, edTold, edRefused,
                     edLate, edReport>>
  PROVE  EditsInv'
<1>1. /\ EdFlagTypes /\ EdListTypes /\ EdFileTypes /\ EdThread /\ EdLanding /\ EdInHand
      /\ (edPhase # "gone" => EdUnderway)
  BY DEF EditsInv
<1>2. UNCHANGED <<edPhase, edWake, edPending, edMade, edLive, edRunning, edStaged, edHanded,
                  edProjected, edChannel, edAnswered, edOutside, edSubmitted,
                  edTold, edRefused, edLate, edReport>>
  BY DEF edLoopVars, edQueueVars
<1>3. /\ edWake' \in BOOLEAN
      /\ edAnswered' \in Seq(EdAnswer) /\ Len(edAnswered') <= EditCapacity
      /\ edChannel' \in Seq(EdEdit) /\ edFile' \in EdFileConfig /\ edLanded' \subseteq 1..MaxGestures
  BY <1>1, <1>2 DEF EdFlagTypes, EdListTypes, EdFileTypes
<1>4. Len(edChannel') <= Len(edChannel)
  <2>1. Len(edChannel) \in Nat
    BY <1>1, LenProperties DEF EdListTypes
  <2> QED
    BY <2>1, <1>2
<1>5. EdInHand'
  BY <1>1 DEF EdInHand
<1>6. EdThread'
  <2>1. EdOpen' = EdOpen
    BY <1>2 DEF EdOpen
  <2>2. Pipe(edWorker, edCurrent, edAnswered, edChannel, edHanded)
          => Pipe(edWorker', edCurrent', edAnswered, edChannel, edHanded)
    BY DEF Pipe, InHand
  <2>3. Outlives(edWorker, edCurrent, edChannel, EdOpen)
          => Outlives(edWorker', edCurrent', edChannel, EdOpen)
    BY DEF Outlives
  <2> QED
    BY <2>1, <2>2, <2>3, <1>1, <1>2 DEF EdThread
<1>7. EdLanding'
  <2>1. EdLeft' = EdLeft
    BY <1>2 DEF EdLeft
  <2> QED
    BY <2>1, <1>1, <1>2 DEF EdLanding
<1>8. edPhase # "gone" => EdUnderway'
  BY <1>1, <1>2 DEF EdUnderway
<1>9. EdSmooth'
  BY DEF EdSmooth
<1> QED
  BY <1>2, <1>3, <1>4, <1>5, <1>6, <1>7, <1>8, <1>9, Worked

\* One write of the file: done, failed, stuck, or the thread lost.
LEMMA WriteStep ==
  ASSUME EditsInv, EdWrite
  PROVE  EditsInv'
<1>1. /\ EdFlagTypes /\ EdFileTypes /\ EdInHand /\ (edPhase # "gone" => EdUnderway)
  BY DEF EditsInv
<1>2. /\ edWorker = "writing"
      /\ UNCHANGED <<edLoopVars, edQueueVars, edAnswered, edOutside, edSubmitted, edTold, edRefused,
                     edLate, edReport>>
  BY DEF EdWrite
<1>3. edCurrent \in EdEdit /\ edFile \in EdFileConfig /\ EdPut(edFile, edCurrent) \in EdFileConfig
  <2>1. edCurrent \in EdEdit /\ edFile \in EdFileConfig
    BY <1>1, <1>2 DEF EdInHand, EdFileTypes
  <2> QED
    BY <2>1, PutType
<1>4. edPhase # "gone" => edCurrent.n \notin edLanded
  BY <1>1, <1>2 DEF EdUnderway
<1>5. EdFileAnswer(edCurrent) \in {"wrote", "claimed", "current"}
  BY DEF EdFileAnswer
<1>6. edFaults \in Nat /\ edFaults + edOutside <= MaxDisturbances
  BY <1>1 DEF EdFlagTypes
<1>F. EdFault => edFaults' \in Nat /\ edFaults' + edOutside <= MaxDisturbances /\ edFaults' # 0
  <2>1. edOutside \in Nat /\ edFaults \in Nat /\ MaxDisturbances \in Nat
    BY <1>1, EditsAssumption DEF EdFlagTypes
  <2>2. ASSUME EdFault PROVE edFaults + edOutside < MaxDisturbances /\ edFaults' = edFaults + 1
    BY <2>2 DEF EdFault
  <2> QED
    BY <2>1, <2>2
<1>7. CASE /\ edCurrent' = [e |-> edCurrent, result |-> EdFileAnswer(edCurrent)]
           /\ edFile' = (IF EdFileAnswer(edCurrent) = "wrote" THEN EdPut(edFile, edCurrent) ELSE edFile)
           /\ edLanded' = (IF EdFileAnswer(edCurrent) = "wrote" THEN edLanded \cup {edCurrent.n}
                           ELSE edLanded)
           /\ edWorker' = "sending" /\ edFaults' = edFaults
  <2> DEFINE result == EdFileAnswer(edCurrent)
  <2>1. result \in EdResult
    BY <1>5 DEF EdResult
  <2>2. edFile' \in EdFileConfig /\ (edLanded' = edLanded \/ edLanded' = edLanded \cup {edCurrent.n})
    BY <1>3, <1>7
  <2>3. edPhase # "gone" => Right(edCurrent.n, result, edLanded')
    BY <1>4, <1>7 DEF Right
  <2>4. edCurrent' = [e |-> edCurrent, result |-> result] /\ edWorker' = "sending"
    BY <1>7
  <2> HIDE DEF result
  <2>5. edFaults' \in Nat /\ edFaults' + edOutside <= MaxDisturbances /\ (edFaults' = 0 => edFaults = 0)
    BY <1>6, <1>7
  <2> QED
    BY <2>1, <2>2, <2>3, <2>4, <2>5, <1>2, Written
<1>8. CASE EdFault /\ edWorker' = "sending" /\ edCurrent' = [e |-> edCurrent, result |-> "failed"]
           /\ \/ UNCHANGED <<edFile, edLanded>>
              \/ edFile' = EdPut(edFile, edCurrent) /\ edLanded' = edLanded \cup {edCurrent.n}
  <2>1. "failed" \in EdResult
    BY DEF EdResult
  <2>2. edFile' \in EdFileConfig /\ (edLanded' = edLanded \/ edLanded' = edLanded \cup {edCurrent.n})
    BY <1>3, <1>8
  <2>3. edPhase # "gone" => Right(edCurrent.n, "failed", edLanded')
    BY DEF Right
  <2>4. edFaults' \in Nat /\ edFaults' + edOutside <= MaxDisturbances /\ (edFaults' = 0 => edFaults = 0)
    BY <1>F, <1>8
  <2> QED
    BY <2>1, <2>2, <2>3, <2>4, <1>2, <1>8, Written
<1>9. CASE /\ EdFault /\ UNCHANGED <<edFile, edLanded>>
           /\ \/ edWorker' = "stuck" /\ edCurrent' = edCurrent
              \/ edWorker' = "ended" /\ edCurrent' = NoEdit
  BY <1>2, <1>9, <1>F, Broken
<1> QED
  BY <1>7, <1>8, <1>9 DEF EdWrite

\* Every step keeps the invariant.
LEMMA EditsStep == EditsInv /\ [EditsNext]_edVars => EditsInv'
<1> SUFFICES ASSUME EditsInv, [EditsNext]_edVars PROVE EditsInv'
  OBVIOUS
<1>1. CASE EditsNext
  <2>1. CASE EdWoken \/ EdPass \/ EdQuit \/ EdRequestsDone
    BY <2>1, Walks
  <2>2. CASE EdRequestStep
    BY <2>2, Request
  <2>3. CASE EdTryRecv
    BY <2>3, TryRecv
  <2>4. CASE EdHandOver
    BY <2>4, HandOver
  <2>5. CASE EdAwait
    BY <2>5, Await
  <2>6. CASE EdReceive
    BY <2>6, Receive
  <2>7. CASE EdWrite
    BY <2>7, WriteStep
  <2>8. CASE EdSend
    BY <2>8, Send
  <2>9. CASE EdFinish
    BY <2>9, FinishStep
  <2>10. CASE EdDeadline
    BY <2>10, Deadline
  <2>11. CASE EdExit
    BY <2>11, ExitStep
  <2>12. CASE EdOutsideEdit
    BY <2>12, OutsideEdit
  <2>13. CASE \E g \in Gestures : EdGesture(g)
    BY <2>13, Gesture
  <2> QED
    BY <1>1, <2>1, <2>2, <2>3, <2>4, <2>5, <2>6, <2>7, <2>8, <2>9, <2>10, <2>11, <2>12, <2>13
       DEF EditsNext, EditsLoop, EditsThread
<1>2. CASE UNCHANGED edVars
  <2>1. UNCHANGED <<edPhase, edWake, edPending, edMade, edLive, edRunning, edStaged, edHanded,
                    edProjected, edChannel, edAnswered, edWorker, edCurrent, edFaults, edOutside,
                    edSubmitted, edTold, edRefused, edLanded, edFile, edLate, edReport>>
    BY <1>2 DEF edVars, edLoopVars, edQueueVars, edThreadVars, edBoundVars, edHistoryVars
  <2>2. EdOpen' = EdOpen /\ EdLeft' = EdLeft
    BY <2>1 DEF EdOpen, EdLeft
  <2>3. EdFlagTypes' /\ EdListTypes' /\ EdFileTypes' /\ EdInHand' /\ EdStages' /\ EdCounted'
    BY <2>1 DEF EditsInv, EdFlagTypes, EdListTypes, EdFileTypes, EdInHand, EdStages, EdCounted
  <2>4. EdBooks' /\ EdThread' /\ EdLanding'
    BY <2>1, <2>2 DEF EditsInv, EdBooks, EdThread, EdLanding
  <2>5. (edPhase # "gone" => EdUnderway)' /\ EdSmooth'
    BY <2>1 DEF EditsInv, EdUnderway, EdSmooth
  <2> QED
    BY <2>3, <2>4, <2>5 DEF EditsInv
<1> QED
  BY <1>1, <1>2

\* No list is longer than the run has gestures.
LEMMA Bounded ==
  ASSUME EditsInv
  PROVE  \A q \in {edPending, edStaged, edHanded, edProjected, edChannel, edSubmitted,
                   edReport.unconfirmed, edReport.unwritten} :
           q \in Seq(EdEdit) /\ Len(q) <= MaxGestures
<1>1. EdFlagTypes /\ EdListTypes /\ EdStages /\ EdCounted /\ EdBooks
  BY DEF EditsInv
<1>2. /\ edPending \in Seq(EdEdit) /\ edStaged \in Seq(EdEdit) /\ edHanded \in Seq(EdEdit)
      /\ edProjected \in Seq(EdEdit) /\ edChannel \in Seq(EdEdit) /\ edSubmitted \in Seq(EdEdit)
      /\ edReport.unconfirmed \in Seq(EdEdit) /\ edReport.unwritten \in Seq(EdEdit)
  BY <1>1 DEF EdListTypes, EdLists
<1>3. /\ EdOpen \in Seq(EdEdit) /\ EdLeft \in Seq(EdEdit) /\ edTold \in Seq(EdToldOf)
  BY <1>1, Lists
<1> DEFINE s == Len(edSubmitted)
           p == Len(edPending)
           o == Len(EdOpen)
           l == Len(EdLeft)
           t == Len(edTold)
           j == Len(edProjected)
           c == Len(edChannel)
<1>4. /\ s \in Nat /\ p \in Nat /\ o \in Nat /\ l \in Nat /\ t \in Nat /\ j \in Nat /\ c \in Nat
      /\ MaxGestures \in Nat /\ edMade \in 0..MaxGestures
  BY <1>1, <1>2, <1>3, LenProperties, EditsAssumption DEF EdFlagTypes
<1>5. s = t + o + l
  BY <1>1 DEF EdBooks, Books, Ledger
<1>6. s + p <= edMade /\ j <= s /\ c <= s
  BY <1>1 DEF EdCounted, EdListTypes
<1> HIDE DEF s, p, o, l, t, j, c
<1>7. /\ s <= MaxGestures /\ p <= MaxGestures /\ o <= MaxGestures /\ l <= MaxGestures
      /\ j <= MaxGestures /\ c <= MaxGestures /\ 0 <= MaxGestures
  BY ONLY <1>4, <1>5, <1>6
<1>8. Len(<<>>) <= MaxGestures
  BY <1>7, EmptySeq
<1>9. /\ Len(edHanded) <= MaxGestures /\ Len(edStaged) <= MaxGestures
      /\ Len(edReport.unconfirmed) <= MaxGestures /\ Len(edReport.unwritten) <= MaxGestures
  <2>1. CASE edPhase = "gone"
    <3>1. /\ edHanded = <<>> /\ edStaged = <<>> /\ EdOpen = edReport.unconfirmed
          /\ EdLeft = edReport.unwritten
      BY <2>1, <1>1 DEF EdStages, EdOpen, EdLeft
    <3> QED
      BY <3>1, <1>7, <1>8 DEF o, l
  <2>2. CASE edPhase # "gone"
    <3>1. /\ EdOpen = edHanded /\ EdLeft = edStaged
          /\ edReport.unconfirmed = <<>> /\ edReport.unwritten = <<>>
      BY <2>2, <1>1 DEF EdStages, EdOpen, EdLeft, NoReport
    <3> QED
      BY <3>1, <1>7, <1>8 DEF o, l
  <2> QED
    BY <2>1, <2>2
<1> QED
  BY <1>2, <1>7, <1>9 DEF s, p, j, c

\* The invariant implies the types the runs check.
LEMMA InvTypes == EditsInv => EditsTypeOK
<1> SUFFICES ASSUME EditsInv PROVE EditsTypeOK
  OBVIOUS
<1>1. EdFlagTypes /\ EdListTypes /\ EdFileTypes /\ EdInHand
  BY DEF EditsInv
<1>2. \A q \in {edPending, edStaged, edHanded, edProjected, edChannel, edSubmitted,
                edReport.unconfirmed, edReport.unwritten} :
        Len(q) <= MaxGestures /\ \A i \in DOMAIN q : q[i] \in EdEdit
  <2> SUFFICES ASSUME NEW q \in {edPending, edStaged, edHanded, edProjected, edChannel, edSubmitted,
                                 edReport.unconfirmed, edReport.unwritten}
               PROVE  Len(q) <= MaxGestures /\ \A i \in DOMAIN q : q[i] \in EdEdit
    OBVIOUS
  <2>1. q \in Seq(EdEdit) /\ Len(q) <= MaxGestures
    BY Bounded
  <2>2. DOMAIN q = 1..Len(q) /\ \A i \in 1..Len(q) : q[i] \in EdEdit
    BY <2>1, LenProperties, ElementOfSeq
  <2> QED
    BY <2>1, <2>2
<1>3. \A i \in DOMAIN edAnswered : edAnswered[i] \in EdAnswer
  <2>1. edAnswered \in Seq(EdAnswer)
    BY <1>1 DEF EdListTypes
  <2>2. DOMAIN edAnswered = 1..Len(edAnswered) /\ \A i \in 1..Len(edAnswered) : edAnswered[i] \in EdAnswer
    BY <2>1, LenProperties, ElementOfSeq
  <2> QED
    BY <2>2
<1>4. edCurrent \in EdEdit \cup EdAnswer \cup {NoEdit}
  BY <1>1 DEF EdInHand, EdFlagTypes
<1>5. edFaults + edOutside \in 0..MaxDisturbances
  BY <1>1, EditsAssumption DEF EdFlagTypes
<1>6. /\ edPhase \in EdRunningPhases \cup {"quitting", "handover", "wait", "gone"}
      /\ edWake \in BOOLEAN /\ edLate \in BOOLEAN /\ edMade \in 0..MaxGestures
      /\ edLive \in EdConfig /\ edFile \in EdFileConfig
      /\ edRunning \in {"none", "up", "closed"}
      /\ Len(edChannel) <= EditCapacity /\ Len(edAnswered) <= EditCapacity
      /\ edWorker \in {"none", "idle", "writing", "sending", "stuck", "ended"}
      /\ edRefused \subseteq 1..MaxGestures /\ edLanded \subseteq 1..MaxGestures
  BY <1>1 DEF EdFlagTypes, EdListTypes, EdFileTypes
<1> QED
  BY <1>2, <1>3, <1>4, <1>5, <1>6 DEF EditsTypeOK

\* The variables keep their types, whatever the worker and the file do.
THEOREM EditsTypeCorrect == EditsSpec => []EditsTypeOK
<1>1. EditsInit => EditsInv
  BY InitInv
<1>2. EditsInv /\ [EditsNext]_edVars => EditsInv'
  BY EditsStep
<1>3. EditsInv => EditsTypeOK
  BY InvTypes
<1> QED
  BY <1>1, <1>2, <1>3, PTL DEF EditsSpec

\* Every submitted edit is in one place; what is told and reported of it is true of the
\* file, in the order of the edits (try_recv, shutdown, account_for_the_rest, run_worker).
THEOREM EditsReported == EditsSpec => []EditsReportTruthful
<1>1. EditsInit => EditsInv
  BY InitInv
<1>2. EditsInv /\ [EditsNext]_edVars => EditsInv'
  BY EditsStep
<1>3. EditsInv => EditsReportTruthful
  BY InvTruthful
<1> QED
  BY <1>1, <1>2, <1>3, PTL DEF EditsSpec

-----------------------------------------------------------------------------
(* What the run foresees of the file.  With no fault and no other writer,  *)
(* what the file holds and what the run dispatches from are both what some *)
(* of the submitted edits, from the first one on, leave behind: those that *)
(* the file was asked to take and those that were answered (EdAgreed).     *)

\* What the edits of all behind the first j, up to the k-th, leave behind.
AskedOver(keys, all, j, k) ==
  [a \in Actions |->
     LET asking == {i \in (j + 1)..k : IsShortcut(all[i]) /\ all[i].g.action = a}
     IN IF asking = {} THEN keys[a] ELSE all[Max(asking)].g.to]
SetOver(slot, all, j, k) ==
  LET setting == {i \in (j + 1)..k : ~IsShortcut(all[i])}
  IN IF setting = {} THEN slot ELSE all[Max(setting)].n

\* The edits the file has been asked to take.
EdAsked == Len(edTold) + Len(edAnswered) + (IF edWorker = "sending" THEN 1 ELSE 0)

\* q holds edits of all behind the first j, up to the k-th, in order and with every
\* shortcut among them; it holds the shortcuts only.
PicksAt(pos, q, all, j, k) ==
  /\ pos \in [1..Len(q) -> Nat]
  /\ \A i \in 1..Len(q) : pos[i] \in (j + 1)..k /\ q[i] = all[pos[i]]
  /\ \A i, m \in 1..Len(q) : i < m => pos[i] < pos[m]
  /\ \A m \in (j + 1)..k : IsShortcut(all[m]) => \E i \in 1..Len(q) : pos[i] = m
Picks(q, all, j) ==
  (\A i \in 1..Len(q) : IsShortcut(q[i])) /\ \E pos : PicksAt(pos, q, all, j, Len(all))

\* The run dispatches from what the edits answered leave of its start's reading of the
\* file.  Of those the file was asked to take it spells out the same, but for contested
\* chords, and a reading of it gives each action at least that.
EdPlain == \A i \in 1..Len(edSubmitted) : Plain(edSubmitted[i].g)
EdCalm == edPhase \in EdRunningPhases /\ edFaults = 0 /\ edOutside = 0 /\ EdPlain
Start == Resolved(StartFile)
FileAgrees(file, keys) ==
  \A a \in Actions : keys[a] \subseteq Resolved(file)[a] /\ file.keys[a] \ Contested \subseteq keys[a]
EdKeysAgree ==
  /\ edLive.keys = AskedOver(Start, edSubmitted, 0, Len(edTold))
  /\ FileAgrees(edFile, AskedOver(Start, edSubmitted, 0, EdAsked))
  /\ \A k \in 0..Len(edSubmitted) : Unambiguous(AskedOver(Start, edSubmitted, 0, k))
  /\ Picks(edProjected, edSubmitted, Len(edTold))
EdNoneClaimed ==
  /\ \A i \in 1..Len(edTold) : edTold[i].result # "claimed"
  /\ \A i \in 1..Len(edAnswered) : edAnswered[i].result # "claimed"
  /\ edWorker = "sending" => edCurrent.result # "claimed"
  /\ edWorker # "stuck"
EdSlotAgrees ==
  /\ edFile.slot = SetOver(0, edSubmitted, 0, EdAsked)
  /\ \A i \in 2..Len(edPending) : IsShortcut(edPending[i])
  /\ edLive.slot = IF edPending # <<>> /\ ~IsShortcut(edPending[1]) THEN edPending[1].n
                   ELSE SetOver(0, edSubmitted, 0, Len(edSubmitted))
EdAgreed == EdCalm => EdKeysAgree /\ EdNoneClaimed /\ EdSlotAgrees

\* The newest of some places.
LEMMA Newest ==
  ASSUME NEW n \in Nat, NEW S, S \subseteq 1..n, S # {}
  PROVE  Max(S) \in S /\ \A i \in S : i <= Max(S)
<1> DEFINE T == {n - i : i \in S}
<1>1. T \subseteq Nat /\ T # {}
  <2>1. \A i \in S : i \in 1..n
    OBVIOUS
  <2>2. \A i \in 1..n : n - i \in Nat
    OBVIOUS
  <2> QED
    BY <2>1, <2>2
<1>2. PICK m \in T : \A k \in T : <<k, m>> \notin OpToRel(<, Nat)
  <2> HIDE DEF T
  <2> QED
    BY <1>1, NatLessThanWellFounded, WFMin, Zenon
<1>3. PICK x \in S : m = n - x
  OBVIOUS
<1>4. ASSUME NEW i \in S PROVE x >= i
  <2>1. <<n - i, m>> \notin {p \in Nat \X Nat : p[1] < p[2]}
    BY <1>2, Zenon DEF OpToRel
  <2>2. i \in 1..n /\ x \in 1..n
    OBVIOUS
  <2>3. n - i \in Nat /\ n - x \in Nat /\ ~(n - i < n - x)
    <3>1. n - i \in Nat /\ n - x \in Nat
      BY <2>2
    <3> QED
      BY <1>3, <2>1, <3>1
  <2> QED
    BY <2>2, <2>3
<1>5. Max(S) \in S /\ \A i \in S : Max(S) >= i
  BY <1>4 DEF Max
<1>6. \A i \in S : i \in 1..n
  OBVIOUS
<1>7. \A i, k \in 1..n : k >= i => i <= k
  OBVIOUS
<1> HIDE DEF T
<1> QED
  BY <1>5, <1>6, <1>7

\* It is the only such place.
LEMMA NewestIs ==
  ASSUME NEW n \in Nat, NEW S, S \subseteq 1..n, NEW x \in S, \A i \in S : i <= x
  PROVE  Max(S) = x
<1>1. Max(S) \in S /\ \A i \in S : i <= Max(S)
  BY Newest
<1>2. Max(S) <= x /\ x <= Max(S)
  BY <1>1
<1>3. x \in 1..n /\ Max(S) \in 1..n
  BY <1>1
<1> QED
  BY <1>2, <1>3

\* The x-th of all is the last of the first k to ask for an action's chords; none
\* behind the j-th does.
Asks(e, a) == IsShortcut(e) /\ e.g.action = a
AsksLast(x, k, all, a) == Asks(all[x], a) /\ \A i \in (x + 1)..k : ~Asks(all[i], a)
AsksNone(j, k, all, a) == \A i \in (j + 1)..k : ~Asks(all[i], a)

\* An action has what its last edit asks for.
LEMMA LastAsks ==
  ASSUME NEW all, NEW j \in Nat, NEW k \in Nat, NEW keys, NEW a \in Actions,
         NEW x \in (j + 1)..k, AsksLast(x, k, all, a)
  PROVE  AskedOver(keys, all, j, k)[a] = all[x].g.to
<1> DEFINE S == {i \in (j + 1)..k : IsShortcut(all[i]) /\ all[i].g.action = a}
<1>1. S \subseteq 1..k /\ x \in S
  BY DEF AsksLast, Asks
<1>2. \A i \in S : i <= x
  <2>1. \A i \in (j + 1)..k : i <= x \/ i \in (x + 1)..k
    OBVIOUS
  <2> QED
    BY <2>1 DEF AsksLast, Asks
<1> HIDE DEF S
<1>3. Max(S) = x /\ S # {}
  BY <1>1, <1>2, NewestIs
<1> QED
  BY <1>3 DEF AskedOver, S

\* It has what it had if there is none.
LEMMA NoneAsks ==
  ASSUME NEW all, NEW j \in Nat, NEW k \in Nat, NEW keys, NEW a \in Actions,
         AsksNone(j, k, all, a)
  PROVE  AskedOver(keys, all, j, k)[a] = keys[a]
<1>1. {i \in (j + 1)..k : IsShortcut(all[i]) /\ all[i].g.action = a} = {}
  BY DEF AsksNone, Asks
<1> QED
  BY <1>1 DEF AskedOver

\* One of the two is so.
LEMMA SomeAsks ==
  ASSUME NEW all, NEW j \in Nat, NEW k \in Nat, NEW a
  PROVE  AsksNone(j, k, all, a) \/ \E x \in (j + 1)..k : AsksLast(x, k, all, a)
<1> DEFINE S == {i \in (j + 1)..k : Asks(all[i], a)}
<1>1. CASE S = {}
  BY <1>1 DEF AsksNone
<1>2. CASE S # {}
  <2>1. S \subseteq 1..k
    OBVIOUS
  <2> HIDE DEF S
  <2>2. Max(S) \in S /\ \A i \in S : i <= Max(S)
    BY <2>1, <1>2, Newest
  <2>3. \A i \in (Max(S) + 1)..k : i \notin S
    <3>1. Max(S) \in 1..k
      BY <2>1, <2>2
    <3>2. \A i \in (Max(S) + 1)..k : ~(i <= Max(S))
      BY <3>1
    <3> QED
      BY <2>2, <3>2
  <2>4. \A i \in (Max(S) + 1)..k : i \in (j + 1)..k
    BY <2>1, <2>2 DEF S
  <2> QED
    BY <2>2, <2>3, <2>4 DEF S, AsksLast
<1> QED
  BY <1>1, <1>2

\* The edits up to the k-th, then those up to the l-th.
LEMMA AskedOn ==
  ASSUME NEW all, NEW j \in Nat, NEW k \in Nat, NEW l \in Nat, j <= k, k <= l, NEW keys
  PROVE  AskedOver(AskedOver(keys, all, j, k), all, k, l) = AskedOver(keys, all, j, l)
<1> DEFINE mid == AskedOver(keys, all, j, k)
<1>1. ASSUME NEW a \in Actions PROVE AskedOver(mid, all, k, l)[a] = AskedOver(keys, all, j, l)[a]
  <2> HIDE DEF mid
  <2>1. CASE \E x \in (k + 1)..l : AsksLast(x, l, all, a)
    <3>1. PICK x \in (k + 1)..l : AsksLast(x, l, all, a)
      BY <2>1
    <3>2. x \in (j + 1)..l
      OBVIOUS
    <3>3. AskedOver(mid, all, k, l)[a] = all[x].g.to
      BY <3>1, LastAsks
    <3>4. AskedOver(keys, all, j, l)[a] = all[x].g.to
      BY <3>1, <3>2, LastAsks
    <3> QED
      BY <3>3, <3>4
  <2>2. CASE AsksNone(k, l, all, a)
    <3>1. AskedOver(mid, all, k, l)[a] = mid[a]
      BY <2>2, NoneAsks
    <3>2. CASE AsksNone(j, k, all, a)
      <4>1. \A i \in (j + 1)..l : i \in (j + 1)..k \/ i \in (k + 1)..l
        OBVIOUS
      <4>2. AsksNone(j, l, all, a)
        BY <4>1, <2>2, <3>2 DEF AsksNone
      <4>3. mid[a] = keys[a]
        BY <3>2, NoneAsks DEF mid
      <4> QED
        BY <3>1, <4>2, <4>3, NoneAsks
    <3>3. CASE \E x \in (j + 1)..k : AsksLast(x, k, all, a)
      <4>1. PICK x \in (j + 1)..k : AsksLast(x, k, all, a)
        BY <3>3
      <4>2. x \in (j + 1)..l /\ \A i \in (x + 1)..l : i \in (x + 1)..k \/ i \in (k + 1)..l
        OBVIOUS
      <4>3. AsksLast(x, l, all, a)
        BY <4>1, <4>2, <2>2 DEF AsksLast, AsksNone
      <4>4. mid[a] = all[x].g.to
        BY <4>1, LastAsks DEF mid
      <4> QED
        BY <3>1, <4>2, <4>3, <4>4, LastAsks
    <3> QED
      BY <3>2, <3>3, SomeAsks
  <2> QED
    BY <2>1, <2>2, SomeAsks
<1>2. /\ AskedOver(mid, all, k, l) = [a \in Actions |-> AskedOver(mid, all, k, l)[a]]
      /\ AskedOver(keys, all, j, l) = [a \in Actions |-> AskedOver(keys, all, j, l)[a]]
  BY DEF AskedOver
<1> HIDE DEF mid
<1>3. AskedOver(mid, all, k, l) = AskedOver(keys, all, j, l)
  BY <1>1, <1>2, Zenon
<1> QED
  BY <1>3 DEF mid

\* A single edit is folded in.
LEMMA AskedOne ==
  ASSUME NEW all, NEW k \in Nat, all[k + 1] \in EdEdit, NEW keys \in [Actions -> SUBSET Chords]
  PROVE  AskedOver(keys, all, k, k + 1) = Folded(keys, all[k + 1])
<1> DEFINE e == all[k + 1]
<1>1. (k + 1)..(k + 1) = {k + 1} /\ k + 1 \in Nat /\ (k + 1 + 1)..(k + 1) = {}
  OBVIOUS
<1>2. IsShortcut(e) => e.g.action \in Actions
  BY DEF IsShortcut, EdEdit, EdRequest
<1>3. ASSUME NEW a \in Actions PROVE AskedOver(keys, all, k, k + 1)[a] = Folded(keys, e)[a]
  <2>1. CASE IsShortcut(e) /\ e.g.action = a
    <3>1. k + 1 \in (k + 1)..(k + 1) /\ AsksLast(k + 1, k + 1, all, a)
      BY <1>1, <2>1 DEF AsksLast, Asks
    <3>2. AskedOver(keys, all, k, k + 1)[a] = e.g.to
      BY <1>1, <3>1, LastAsks
    <3> QED
      BY <3>2, <2>1 DEF Folded
  <2>2. CASE ~(IsShortcut(e) /\ e.g.action = a)
    <3>1. AsksNone(k, k + 1, all, a)
      BY <1>1, <2>2 DEF AsksNone, Asks
    <3>2. AskedOver(keys, all, k, k + 1)[a] = keys[a]
      BY <1>1, <3>1, NoneAsks
    <3> QED
      BY <3>2, <2>2, <1>2 DEF Folded
  <2> QED
    BY <2>1, <2>2
<1>4. /\ AskedOver(keys, all, k, k + 1) = [a \in Actions |-> AskedOver(keys, all, k, k + 1)[a]]
      /\ Folded(keys, e) = [a \in Actions |-> Folded(keys, e)[a]]
  BY <1>2 DEF AskedOver, Folded
<1> HIDE DEF e
<1>5. AskedOver(keys, all, k, k + 1) = Folded(keys, e)
  BY <1>3, <1>4, Zenon
<1> QED
  BY <1>5 DEF e

\* Only the edits in between count.
LEMMA AskedSame ==
  ASSUME NEW s, NEW t, NEW j \in Nat, NEW k \in Nat, NEW keys, \A i \in (j + 1)..k : s[i] = t[i]
  PROVE  AskedOver(keys, s, j, k) = AskedOver(keys, t, j, k)
<1>1. ASSUME NEW a \in Actions PROVE AskedOver(keys, s, j, k)[a] = AskedOver(keys, t, j, k)[a]
  <2>1. CASE AsksNone(j, k, s, a)
    <3>1. AsksNone(j, k, t, a)
      BY <2>1 DEF AsksNone
    <3> QED
      BY <2>1, <3>1, NoneAsks
  <2>2. CASE \E x \in (j + 1)..k : AsksLast(x, k, s, a)
    <3>1. PICK x \in (j + 1)..k : AsksLast(x, k, s, a)
      BY <2>2
    <3>2. \A i \in (x + 1)..k : i \in (j + 1)..k
      OBVIOUS
    <3>3. AsksLast(x, k, t, a)
      BY <3>1, <3>2 DEF AsksLast
    <3>4. AskedOver(keys, s, j, k)[a] = s[x].g.to
      BY <3>1, LastAsks
    <3>5. AskedOver(keys, t, j, k)[a] = t[x].g.to
      BY <3>3, LastAsks
    <3> QED
      BY <3>4, <3>5
  <2> QED
    BY <2>1, <2>2, SomeAsks
<1>2. /\ AskedOver(keys, s, j, k) = [a \in Actions |-> AskedOver(keys, s, j, k)[a]]
      /\ AskedOver(keys, t, j, k) = [a \in Actions |-> AskedOver(keys, t, j, k)[a]]
  BY DEF AskedOver
<1> QED
  BY <1>1, <1>2, Zenon

\* The keymap foreseen over a list is what all its edits leave behind.
LEMMA ForeseenIs ==
  ASSUME NEW S, NEW q \in Seq(S), NEW keys
  PROVE  Foreseen(keys, q) = AskedOver(keys, q, 0, Len(q))
<1>1. DOMAIN q = (0 + 1)..Len(q)
  BY LenProperties
<1> QED
  BY <1>1 DEF Foreseen, AskedOver

\* Two lists of which one holds what the other does that matters.
LEMMA ForeseenMatches ==
  ASSUME NEW S, NEW q \in Seq(S), NEW all, NEW j \in Nat, NEW k \in Nat, NEW keys,
         NEW pos, PicksAt(pos, q, all, j, k)
  PROVE  Foreseen(keys, q) = AskedOver(keys, all, j, k)
<1>1. Len(q) \in Nat /\ 0 + 1 = 1
  BY LenProperties
<1>2. ASSUME NEW a \in Actions PROVE AskedOver(keys, q, 0, Len(q))[a] = AskedOver(keys, all, j, k)[a]
  <2>1. CASE AsksNone(0, Len(q), q, a)
    <3>1. AsksNone(j, k, all, a)
      BY <2>1, <1>1 DEF AsksNone, Asks, PicksAt
    <3> QED
      BY <2>1, <3>1, <1>1, NoneAsks
  <2>2. CASE \E x \in 1..Len(q) : AsksLast(x, Len(q), q, a)
    <3>1. PICK x \in 1..Len(q) : AsksLast(x, Len(q), q, a)
      BY <2>2
    <3>2. ASSUME NEW m \in (pos[x] + 1)..k PROVE ~Asks(all[m], a)
      <4>1. pos[x] \in (j + 1)..k /\ pos[x] \in Nat
        BY DEF PicksAt
      <4>2. SUFFICES ASSUME Asks(all[m], a) PROVE FALSE
        OBVIOUS
      <4>3. PICK i \in 1..Len(q) : pos[i] = m
        <5>1. m \in (j + 1)..k
          BY <4>1
        <5> QED
          BY <5>1, <4>2 DEF Asks, PicksAt
      <4>4. Asks(q[i], a)
        BY <4>2, <4>3 DEF PicksAt
      <4>5. ~(i \in (x + 1)..Len(q))
        BY <4>4, <3>1 DEF AsksLast
      <4>6. i < x \/ i = x
        BY <4>5, <1>1
      <4>7. pos[i] < pos[x] \/ pos[i] = pos[x]
        BY <4>6 DEF PicksAt
      <4> QED
        BY <4>1, <4>3, <4>7
    <3>3. pos[x] \in (j + 1)..k /\ q[x] = all[pos[x]]
      BY DEF PicksAt
    <3>4. AsksLast(pos[x], k, all, a)
      BY <3>1, <3>2, <3>3 DEF AsksLast
    <3>5. AskedOver(keys, q, 0, Len(q))[a] = q[x].g.to
      BY <3>1, <1>1, LastAsks
    <3>6. AskedOver(keys, all, j, k)[a] = all[pos[x]].g.to
      BY <3>3, <3>4, LastAsks
    <3> QED
      BY <3>3, <3>5, <3>6
  <2> QED
    BY <2>1, <2>2, <1>1, SomeAsks
<1>3. /\ AskedOver(keys, q, 0, Len(q)) = [a \in Actions |-> AskedOver(keys, q, 0, Len(q))[a]]
      /\ AskedOver(keys, all, j, k) = [a \in Actions |-> AskedOver(keys, all, j, k)[a]]
  BY DEF AskedOver
<1>4. AskedOver(keys, q, 0, Len(q)) = AskedOver(keys, all, j, k)
  BY <1>2, <1>3, Zenon
<1> QED
  BY <1>4, ForeseenIs

\* A stretch of the list.
LEMMA ForeseenStretch ==
  ASSUME NEW S, NEW q \in Seq(S), NEW all, NEW j \in Nat, Follows(q, all, j), NEW keys
  PROVE  Foreseen(keys, q) = AskedOver(keys, all, j, j + Len(q))
<1> DEFINE pos == [i \in 1..Len(q) |-> j + i]
<1>1. Len(q) \in Nat
  BY LenProperties
<1>2. pos \in [1..Len(q) -> Nat]
  BY <1>1
<1>3. \A i \in 1..Len(q) : pos[i] \in (j + 1)..(j + Len(q)) /\ q[i] = all[pos[i]]
  BY <1>1 DEF Follows
<1>4. \A i, m \in 1..Len(q) : i < m => pos[i] < pos[m]
  BY <1>1
<1>5. \A m \in (j + 1)..(j + Len(q)) : \E i \in 1..Len(q) : pos[i] = m
  <2>1. \A m \in (j + 1)..(j + Len(q)) : m - j \in 1..Len(q) /\ j + (m - j) = m
    BY <1>1
  <2> QED
    BY <2>1
<1>6. j + Len(q) \in Nat
  BY <1>1
<1> HIDE DEF pos
<1>7. PicksAt(pos, q, all, j, j + Len(q))
  BY <1>2, <1>3, <1>4, <1>5 DEF PicksAt
<1> QED
  BY <1>6, <1>7, ForeseenMatches

\* The shortcuts of the list.
LEMMA ForeseenPicks ==
  ASSUME NEW q \in Seq(EdEdit), NEW all \in Seq(EdEdit), NEW j \in Nat, Picks(q, all, j), NEW keys
  PROVE  Foreseen(keys, q) = AskedOver(keys, all, j, Len(all))
<1>1. PICK pos : PicksAt(pos, q, all, j, Len(all))
  BY DEF Picks
<1>2. Len(all) \in Nat
  BY LenProperties
<1> QED
  BY <1>1, <1>2, ForeseenMatches

\* A shortcut is submitted and projected, another edit is submitted only.
LEMMA PicksSubmitted ==
  ASSUME NEW q \in Seq(EdEdit), NEW all \in Seq(EdEdit), NEW j \in 0..Len(all), Picks(q, all, j),
         NEW e \in EdEdit
  PROVE  Picks(IF IsShortcut(e) THEN Append(q, e) ELSE q, Append(all, e), j)
<1>1. PICK pos : PicksAt(pos, q, all, j, Len(all))
  BY DEF Picks
<1>2. Len(all) \in Nat /\ Len(q) \in Nat /\ j \in Nat /\ j <= Len(all)
  BY LenProperties
<1>3. /\ Len(Append(all, e)) = Len(all) + 1 /\ Append(all, e)[Len(all) + 1] = e
      /\ \A i \in 1..Len(all) : Append(all, e)[i] = all[i]
  BY Put
<1>4. \A i \in (j + 1)..(Len(all) + 1) : i \in (j + 1)..Len(all) \/ i = Len(all) + 1
  BY <1>2
<1>5. \A i \in (j + 1)..Len(all) : i \in 1..Len(all) /\ i \in (j + 1)..(Len(all) + 1)
  BY <1>2
<1>6. \A i \in 1..Len(q) : pos[i] \in (j + 1)..(Len(all) + 1) /\ q[i] = Append(all, e)[pos[i]]
  BY <1>1, <1>3, <1>5 DEF PicksAt
<1>7. CASE ~IsShortcut(e)
  <2>1. PicksAt(pos, q, Append(all, e), j, Len(Append(all, e)))
    BY <1>1, <1>3, <1>4, <1>5, <1>6, <1>7 DEF PicksAt
  <2> QED
    BY <1>7, <2>1 DEF Picks
<1>8. CASE IsShortcut(e)
  <2> DEFINE new == [i \in 1..(Len(q) + 1) |-> IF i = Len(q) + 1 THEN Len(all) + 1 ELSE pos[i]]
  <2>1. /\ Len(Append(q, e)) = Len(q) + 1 /\ Append(q, e)[Len(q) + 1] = e
        /\ \A i \in 1..Len(q) : Append(q, e)[i] = q[i]
    BY Put
  <2>2. new \in [1..(Len(q) + 1) -> Nat]
    <3>1. \A i \in 1..(Len(q) + 1) : i # Len(q) + 1 => i \in 1..Len(q)
      BY <1>2
    <3> QED
      BY <3>1, <1>1, <1>2 DEF PicksAt
  <2>3. /\ \A i \in 1..Len(q) : new[i] = pos[i] /\ i \in 1..(Len(q) + 1)
        /\ new[Len(q) + 1] = Len(all) + 1 /\ Len(q) + 1 \in 1..(Len(q) + 1)
        /\ \A i \in 1..(Len(q) + 1) : i = Len(q) + 1 \/ i \in 1..Len(q)
    BY <1>2
  <2> HIDE DEF new
  <2>4. \A i \in 1..(Len(q) + 1) : /\ new[i] \in (j + 1)..(Len(all) + 1)
                                   /\ Append(q, e)[i] = Append(all, e)[new[i]]
    <3>1. Len(all) + 1 \in (j + 1)..(Len(all) + 1)
      BY <1>2
    <3> QED
      BY <3>1, <2>1, <2>3, <1>3, <1>6
  <2>5. \A i, m \in 1..(Len(q) + 1) : i < m => new[i] < new[m]
    <3> SUFFICES ASSUME NEW i \in 1..(Len(q) + 1), NEW m \in 1..(Len(q) + 1), i < m
                 PROVE  new[i] < new[m]
      OBVIOUS
    <3>1. i \in 1..Len(q)
      BY <1>2
    <3>2. CASE m \in 1..Len(q)
      BY <3>1, <3>2, <2>3, <1>1 DEF PicksAt
    <3>3. CASE m = Len(q) + 1
      <4>1. pos[i] \in (j + 1)..Len(all)
        BY <3>1, <1>1 DEF PicksAt
      <4>2. pos[i] < Len(all) + 1
        BY <4>1, <1>2
      <4> QED
        BY <4>2, <3>1, <3>3, <2>3
    <3> QED
      BY <3>2, <3>3, <2>3
  <2>6. \A m \in (j + 1)..(Len(all) + 1) :
          IsShortcut(Append(all, e)[m]) => \E i \in 1..(Len(q) + 1) : new[i] = m
    <3> SUFFICES ASSUME NEW m \in (j + 1)..(Len(all) + 1), IsShortcut(Append(all, e)[m])
                 PROVE  \E i \in 1..(Len(q) + 1) : new[i] = m
      OBVIOUS
    <3>1. CASE m = Len(all) + 1
      BY <3>1, <2>3
    <3>2. CASE m \in (j + 1)..Len(all)
      <4>1. IsShortcut(all[m])
        BY <3>2, <1>3, <1>5
      <4>2. PICK i \in 1..Len(q) : pos[i] = m
        BY <4>1, <3>2, <1>1 DEF PicksAt
      <4> QED
        BY <4>2, <2>3
    <3> QED
      BY <3>1, <3>2, <1>4
  <2>7. PicksAt(new, Append(q, e), Append(all, e), j, Len(Append(all, e)))
    BY <2>1, <2>2, <2>4, <2>5, <2>6, <1>3 DEF PicksAt
  <2>8. \A i \in 1..(Len(q) + 1) : IsShortcut(Append(q, e)[i])
    BY <2>1, <2>3, <1>8 DEF Picks
  <2> QED
    BY <1>8, <2>1, <2>7, <2>8 DEF Picks
<1> QED
  BY <1>7, <1>8

\* The oldest edit is answered, and its projection retired if it is a shortcut.
LEMMA PicksRetired ==
  ASSUME NEW q \in Seq(EdEdit), NEW all \in Seq(EdEdit), NEW j \in Nat, j < Len(all), Picks(q, all, j)
  PROVE  Picks(IF IsShortcut(all[j + 1]) /\ q # <<>> THEN Tail(q) ELSE q, all, j + 1)
<1>1. PICK pos : PicksAt(pos, q, all, j, Len(all))
  BY DEF Picks
<1>2. Len(all) \in Nat /\ Len(q) \in Nat
  BY LenProperties
<1>3. j + 1 \in (j + 1)..Len(all) /\ \A m \in (j + 1 + 1)..Len(all) : m \in (j + 1)..Len(all)
  BY <1>2
<1>4. CASE ~IsShortcut(all[j + 1])
  <2>1. ASSUME NEW i \in 1..Len(q) PROVE pos[i] \in (j + 1 + 1)..Len(all)
    <3>1. pos[i] \in (j + 1)..Len(all) /\ pos[i] # j + 1
      BY <1>1, <1>4 DEF PicksAt, Picks
    <3> QED
      BY <3>1, <1>2
  <2>2. PicksAt(pos, q, all, j + 1, Len(all))
    BY <2>1, <1>1, <1>3 DEF PicksAt
  <2> QED
    BY <2>2, <1>4 DEF Picks
<1>5. CASE IsShortcut(all[j + 1])
  <2>1. PICK one \in 1..Len(q) : pos[one] = j + 1
    BY <1>1, <1>3, <1>5 DEF PicksAt
  <2>2. q # <<>> /\ 1 \in 1..Len(q)
    BY <2>1, <1>2, EmptySeq
  <2>3. one = 1
    <3>1. pos[1] \in (j + 1)..Len(all) /\ (1 < one => pos[1] < pos[one])
      BY <2>2, <1>1 DEF PicksAt
    <3> QED
      BY <3>1, <2>1, <1>2
  <2>4. /\ Len(Tail(q)) = Len(q) - 1 /\ Tail(q) \in Seq(EdEdit)
        /\ \A i \in 1..(Len(q) - 1) : Tail(q)[i] = q[i + 1]
    BY <2>2, Taken
  <2> DEFINE new == [i \in 1..(Len(q) - 1) |-> pos[i + 1]]
  <2>5. \A i \in 1..(Len(q) - 1) : i + 1 \in 1..Len(q) /\ 1 < i + 1
    BY <1>2
  <2>6. new \in [1..(Len(q) - 1) -> Nat]
    BY <2>5, <1>1 DEF PicksAt
  <2>7. \A i \in 1..(Len(q) - 1) : new[i] = pos[i + 1]
    OBVIOUS
  <2> HIDE DEF new
  <2>8. ASSUME NEW i \in 1..(Len(q) - 1)
        PROVE  new[i] \in (j + 1 + 1)..Len(all) /\ Tail(q)[i] = all[new[i]]
    <3>1. pos[1] < pos[i + 1] /\ pos[i + 1] \in (j + 1)..Len(all) /\ q[i + 1] = all[pos[i + 1]]
      BY <2>2, <2>5, <1>1 DEF PicksAt
    <3>2. pos[i + 1] \in (j + 1 + 1)..Len(all)
      BY <3>1, <2>1, <2>3, <1>2
    <3> QED
      BY <3>1, <3>2, <2>4, <2>7
  <2>9. \A i, m \in 1..(Len(q) - 1) : i < m => new[i] < new[m]
    <3> SUFFICES ASSUME NEW i \in 1..(Len(q) - 1), NEW m \in 1..(Len(q) - 1), i < m
                 PROVE  new[i] < new[m]
      OBVIOUS
    <3>1. i + 1 < m + 1
      BY <1>2
    <3>2. pos[i + 1] < pos[m + 1]
      BY <3>1, <2>5, <1>1 DEF PicksAt
    <3> QED
      BY <3>2, <2>7
  <2>10. ASSUME NEW m \in (j + 1 + 1)..Len(all), IsShortcut(all[m])
         PROVE  \E i \in 1..(Len(q) - 1) : new[i] = m
    <3>1. PICK i \in 1..Len(q) : pos[i] = m
      BY <2>10, <1>1, <1>3 DEF PicksAt
    <3>2. i # 1
      BY <3>1, <2>1, <2>3
    <3>3. i - 1 \in 1..(Len(q) - 1) /\ (i - 1) + 1 = i
      BY <3>2, <1>2
    <3> QED
      BY <3>1, <3>3, <2>7
  <2>11. PicksAt(new, Tail(q), all, j + 1, Len(all))
    BY <2>4, <2>6, <2>8, <2>9, <2>10 DEF PicksAt
  <2>12. \A i \in 1..(Len(q) - 1) : IsShortcut(Tail(q)[i])
    BY <2>4, <2>5 DEF Picks
  <2> QED
    BY <1>5, <2>2, <2>4, <2>11, <2>12 DEF Picks
<1> QED
  BY <1>4, <1>5

\* An edit whose chords are free, folded into a keymap without conflict, leaves none, and
\* where it leaves none they were free.
LEMMA FoldedFree ==
  ASSUME NEW keys \in [Actions -> SUBSET Chords], NEW a \in Actions, NEW to \in SUBSET Chords,
         NEW e, IsShortcut(e), e.g.action = a, e.g.to = to
  PROVE  /\ Unambiguous(Folded(keys, e)) => Unclaimed(keys, a, to)
         /\ Unambiguous(keys) /\ Unclaimed(keys, a, to) => Unambiguous(Folded(keys, e))
<1>1. /\ Folded(keys, e)[a] = to
      /\ \A b \in Actions \ {a} : Folded(keys, e)[b] = keys[b]
  BY DEF Folded
<1>2. Unambiguous(Folded(keys, e)) => Unclaimed(keys, a, to)
  BY <1>1 DEF Unambiguous, Unclaimed
<1>3. ASSUME Unambiguous(keys), Unclaimed(keys, a, to), NEW b \in Actions, NEW c \in Actions \ {b}
      PROVE  Folded(keys, e)[c] \cap Folded(keys, e)[b] = {}
  <2>1. CASE b = a
    BY <2>1, <1>1, <1>3 DEF Unclaimed
  <2>2. CASE b # a /\ c = a
    BY <2>2, <1>1, <1>3 DEF Unclaimed
  <2>3. CASE b # a /\ c # a
    BY <2>3, <1>1, <1>3 DEF Unambiguous, Unclaimed
  <2> QED
    BY <2>1, <2>2, <2>3
<1>4. Unambiguous(keys) /\ Unclaimed(keys, a, to) => Unambiguous(Folded(keys, e))
  BY <1>3 DEF Unambiguous, Unclaimed
<1> QED
  BY <1>2, <1>4

\* The slot is the one the last of the edits sets.
SetsLast(x, k, all) == ~IsShortcut(all[x]) /\ \A i \in (x + 1)..k : IsShortcut(all[i])
SetsNone(j, k, all) == \A i \in (j + 1)..k : IsShortcut(all[i])

LEMMA LastSets ==
  ASSUME NEW all, NEW j \in Nat, NEW k \in Nat, NEW slot, NEW x \in (j + 1)..k, SetsLast(x, k, all)
  PROVE  SetOver(slot, all, j, k) = all[x].n
<1> DEFINE S == {i \in (j + 1)..k : ~IsShortcut(all[i])}
<1>1. S \subseteq 1..k /\ x \in S
  BY DEF SetsLast
<1>2. \A i \in S : i <= x
  <2>1. \A i \in (j + 1)..k : i <= x \/ i \in (x + 1)..k
    OBVIOUS
  <2> QED
    BY <2>1 DEF SetsLast
<1> HIDE DEF S
<1>3. Max(S) = x /\ S # {}
  BY <1>1, <1>2, NewestIs
<1> QED
  BY <1>3 DEF SetOver, S

LEMMA NoneSets ==
  ASSUME NEW all, NEW j \in Nat, NEW k \in Nat, NEW slot, SetsNone(j, k, all)
  PROVE  SetOver(slot, all, j, k) = slot
<1>1. {i \in (j + 1)..k : ~IsShortcut(all[i])} = {}
  BY DEF SetsNone
<1> QED
  BY <1>1 DEF SetOver

LEMMA SomeSets ==
  ASSUME NEW all, NEW j \in Nat, NEW k \in Nat
  PROVE  SetsNone(j, k, all) \/ \E x \in (j + 1)..k : SetsLast(x, k, all)
<1> DEFINE S == {i \in (j + 1)..k : ~IsShortcut(all[i])}
<1>1. CASE S = {}
  BY <1>1 DEF SetsNone
<1>2. CASE S # {}
  <2>1. S \subseteq 1..k
    OBVIOUS
  <2> HIDE DEF S
  <2>2. Max(S) \in S /\ \A i \in S : i <= Max(S)
    BY <2>1, <1>2, Newest
  <2>3. \A i \in (Max(S) + 1)..k : i \notin S
    <3>1. Max(S) \in 1..k
      BY <2>1, <2>2
    <3>2. \A i \in (Max(S) + 1)..k : ~(i <= Max(S))
      BY <3>1
    <3> QED
      BY <2>2, <3>2
  <2>4. \A i \in (Max(S) + 1)..k : i \in (j + 1)..k
    BY <2>1, <2>2 DEF S
  <2> QED
    BY <2>2, <2>3, <2>4 DEF S, SetsLast
<1> QED
  BY <1>1, <1>2

\* Lists that agree so far set the slot alike.
LEMMA SetAlike ==
  ASSUME NEW s, NEW t, NEW k \in Nat, NEW slot, \A i \in 1..k : s[i] = t[i]
  PROVE  SetOver(slot, s, 0, k) = SetOver(slot, t, 0, k)
<1>1. 0 + 1 = 1
  OBVIOUS
<1>2. CASE SetsNone(0, k, s)
  <2>1. SetsNone(0, k, t)
    BY <1>1, <1>2 DEF SetsNone
  <2> QED
    BY <1>2, <2>1, NoneSets
<1>3. CASE \E x \in 1..k : SetsLast(x, k, s)
  <2>1. PICK x \in 1..k : SetsLast(x, k, s)
    BY <1>3
  <2>2. \A i \in (x + 1)..k : i \in 1..k
    OBVIOUS
  <2>3. SetsLast(x, k, t)
    BY <2>1, <2>2 DEF SetsLast
  <2> x \in (0 + 1)..k
    BY <1>1
  <2>4. SetOver(slot, s, 0, k) = s[x].n
    BY <2>1, LastSets
  <2>5. SetOver(slot, t, 0, k) = t[x].n
    BY <2>3, LastSets
  <2> QED
    BY <2>4, <2>5
<1> QED
  BY <1>1, <1>2, <1>3, SomeSets

\* One edit more.
LEMMA SetNext ==
  ASSUME NEW t, NEW k \in Nat, NEW slot
  PROVE  SetOver(slot, t, 0, k + 1) = IF IsShortcut(t[k + 1]) THEN SetOver(slot, t, 0, k) ELSE t[k + 1].n
<1>1. 0 + 1 = 1 /\ k + 1 \in 1..(k + 1) /\ (k + 1 + 1)..(k + 1) = {} /\ k + 1 \in Nat
  OBVIOUS
<1>2. CASE ~IsShortcut(t[k + 1])
  <2>1. SetsLast(k + 1, k + 1, t)
    BY <1>1, <1>2 DEF SetsLast
  <2>2. SetOver(slot, t, 0, k + 1) = t[k + 1].n
    BY <2>1, <1>1, LastSets
  <2> QED
    BY <2>2, <1>2
<1>3. CASE IsShortcut(t[k + 1]) /\ SetsNone(0, k, t)
  <2>1. \A i \in 1..(k + 1) : i \in 1..k \/ i = k + 1
    OBVIOUS
  <2>2. SetsNone(0, k + 1, t)
    BY <2>1, <1>1, <1>3 DEF SetsNone
  <2>3. SetOver(slot, t, 0, k + 1) = slot /\ SetOver(slot, t, 0, k) = slot
    BY <2>2, <1>1, <1>3, NoneSets
  <2> QED
    BY <2>3, <1>3
<1>4. CASE IsShortcut(t[k + 1]) /\ \E x \in 1..k : SetsLast(x, k, t)
  <2>1. PICK x \in 1..k : SetsLast(x, k, t)
    BY <1>4
  <2>2. x \in 1..(k + 1) /\ \A i \in (x + 1)..(k + 1) : i \in (x + 1)..k \/ i = k + 1
    OBVIOUS
  <2>3. SetsLast(x, k + 1, t)
    BY <2>1, <2>2, <1>4 DEF SetsLast
  <2>4. x \in (0 + 1)..k /\ x \in (0 + 1)..(k + 1)
    BY <1>1, <2>2
  <2>5. SetOver(slot, t, 0, k) = t[x].n
    BY <2>1, <2>4, LastSets
  <2>6. SetOver(slot, t, 0, k + 1) = t[x].n
    BY <2>3, <2>4, <1>1, LastSets
  <2> QED
    BY <2>5, <2>6, <1>4
<1> QED
  BY <1>1, <1>2, <1>3, <1>4, SomeSets

\* The slot foreseen over the edits not asked for yet and those pending, of which the
\* first only may set it.
LEMMA SlotIs ==
  ASSUME NEW u \in Seq(EdEdit), NEW pending \in Seq(EdEdit), NEW all \in Seq(EdEdit),
         NEW j \in Nat, Len(all) = j + Len(u), Follows(u, all, j),
         \A i \in 2..Len(pending) : IsShortcut(pending[i])
  PROVE  SlotForeseen(SetOver(0, all, 0, j), u \o pending)
           = IF pending # <<>> /\ ~IsShortcut(pending[1]) THEN pending[1].n
             ELSE SetOver(0, all, 0, Len(all))
<1> DEFINE q == u \o pending
           slot == SetOver(0, all, 0, j)
<1>1. q \in Seq(EdEdit) /\ Joins(q, u, pending)
  BY Joined
<1> HIDE DEF q
<1>2. /\ Len(u) \in Nat /\ Len(pending) \in Nat /\ Len(all) \in Nat
      /\ Len(q) = Len(u) + Len(pending) /\ Len(q) \in Nat
      /\ \A i \in 1..Len(u) : q[i] = u[i]
      /\ \A i \in 1..Len(pending) : q[Len(u) + i] = pending[i]
  BY <1>1, LenProperties DEF Joins
<1>3. SlotForeseen(slot, q) = SetOver(slot, q, 0, Len(q))
  <2>1. DOMAIN q = (0 + 1)..Len(q)
    BY <1>1, LenProperties
  <2> QED
    BY <2>1 DEF SlotForeseen, SetOver
<1>4. CASE pending # <<>> /\ ~IsShortcut(pending[1])
  <2>1. 1 \in 1..Len(pending)
    BY <1>2, <1>4, EmptySeq
  <2>2. Len(u) + 1 \in 1..Len(q) /\ q[Len(u) + 1] = pending[1]
    BY <1>2, <2>1
  <2>3. \A i \in (Len(u) + 1 + 1)..Len(q) : i - Len(u) \in 2..Len(pending)
                                            /\ Len(u) + (i - Len(u)) = i
    BY <1>2
  <2>4. \A i \in (Len(u) + 1 + 1)..Len(q) : q[i] = pending[i - Len(u)]
    <3>1. \A i \in 2..Len(pending) : i \in 1..Len(pending)
      OBVIOUS
    <3> QED
      BY <3>1, <2>3, <1>2
  <2>5. SetsLast(Len(u) + 1, Len(q), q)
    BY <1>4, <2>2, <2>3, <2>4 DEF SetsLast
  <2>6. 0 + 1 = 1
    OBVIOUS
  <2>7. SetOver(slot, q, 0, Len(q)) = pending[1].n
    BY <1>2, <2>2, <2>5, <2>6, LastSets
  <2> QED
    BY <1>3, <1>4, <2>7 DEF q
<1>5. CASE ~(pending # <<>> /\ ~IsShortcut(pending[1]))
  <2>1. \A i \in 1..Len(pending) : IsShortcut(pending[i])
    <3>1. \A i \in 1..Len(pending) : pending # <<>> /\ (i = 1 \/ i \in 2..Len(pending))
      BY <1>2, EmptySeq
    <3> QED
      BY <3>1, <1>5
  <2>2. \A i \in (Len(u) + 1)..Len(q) : IsShortcut(q[i])
    <3>1. \A i \in (Len(u) + 1)..Len(q) : i - Len(u) \in 1..Len(pending)
                                          /\ Len(u) + (i - Len(u)) = i
      BY <1>2
    <3>2. \A i \in (Len(u) + 1)..Len(q) : q[i] = pending[i - Len(u)]
      BY <3>1, <1>2
    <3> QED
      BY <2>1, <3>1, <3>2
  <2>3. \A i \in 1..Len(u) : q[i] = all[j + i]
    BY <1>2 DEF Follows
  <2>4. 0 + 1 = 1
    OBVIOUS
  <2>5. CASE SetsNone(0, Len(u), u)
    <3>1. SetsNone(0, Len(q), q)
      <4>1. \A i \in 1..Len(q) : i \in 1..Len(u) \/ i \in (Len(u) + 1)..Len(q)
        BY <1>2
      <4> QED
        BY <4>1, <1>2, <2>2, <2>4, <2>5 DEF SetsNone
    <3>2. SetOver(slot, q, 0, Len(q)) = slot
      BY <3>1, <1>2, NoneSets
    <3>3. \A i \in (j + 1)..Len(all) : IsShortcut(all[i])
      <4>1. \A i \in (j + 1)..Len(all) : i - j \in 1..Len(u) /\ j + (i - j) = i
        BY <1>2
      <4>2. \A i \in 1..Len(u) : IsShortcut(all[j + i])
        BY <2>3, <1>2, <2>4, <2>5 DEF SetsNone
      <4> QED
        BY <4>1, <4>2
    <3>4. CASE SetsNone(0, j, all)
      <4>1. \A i \in 1..Len(all) : i \in 1..j \/ i \in (j + 1)..Len(all)
        BY <1>2
      <4>2. SetsNone(0, Len(all), all)
        BY <4>1, <3>3, <3>4, <2>4 DEF SetsNone
      <4>3. slot = 0 /\ SetOver(0, all, 0, Len(all)) = 0
        BY <3>4, <4>2, <1>2, NoneSets
      <4> QED
        BY <4>3, <3>2, <1>3, <1>5 DEF q
    <3>5. CASE \E x \in 1..j : SetsLast(x, j, all)
      <4>1. PICK x \in 1..j : SetsLast(x, j, all)
        BY <3>5
      <4>2. x \in 1..Len(all) /\ \A i \in (x + 1)..Len(all) : i \in (x + 1)..j \/ i \in (j + 1)..Len(all)
        BY <1>2
      <4>3. SetsLast(x, Len(all), all)
        BY <4>1, <4>2, <3>3 DEF SetsLast
      <4>4. slot = all[x].n
        BY <4>1, <2>4, LastSets
      <4>5. SetOver(0, all, 0, Len(all)) = all[x].n
        BY <4>2, <4>3, <2>4, <1>2, LastSets
      <4> QED
        BY <4>4, <4>5, <3>2, <1>3, <1>5 DEF q
    <3> QED
      BY <3>4, <3>5, <2>4, SomeSets
  <2>6. CASE \E x \in 1..Len(u) : SetsLast(x, Len(u), u)
    <3>1. PICK x \in 1..Len(u) : SetsLast(x, Len(u), u)
      BY <2>6
    <3>2. /\ x \in 1..Len(q) /\ j + x \in 1..Len(all)
          /\ \A i \in (x + 1)..Len(q) : i \in (x + 1)..Len(u) \/ i \in (Len(u) + 1)..Len(q)
          /\ \A i \in (x + 1)..Len(u) : i \in 1..Len(u)
          /\ \A i \in (j + x + 1)..Len(all) : i - j \in (x + 1)..Len(u) /\ j + (i - j) = i
      BY <1>2
    <3>3. SetsLast(x, Len(q), q)
      BY <3>1, <3>2, <1>2, <2>2 DEF SetsLast
    <3>4. \A i \in (x + 1)..Len(u) : IsShortcut(all[j + i])
      BY <3>1, <3>2, <1>2, <2>3 DEF SetsLast
    <3>5. SetsLast(j + x, Len(all), all)
      <4>1. ~IsShortcut(all[j + x])
        BY <3>1, <1>2, <2>3 DEF SetsLast
      <4> QED
        BY <3>2, <3>4, <4>1 DEF SetsLast
    <3>6. SetOver(slot, q, 0, Len(q)) = q[x].n
      BY <3>2, <3>3, <2>4, <1>2, LastSets
    <3>7. SetOver(0, all, 0, Len(all)) = all[j + x].n
      BY <3>2, <3>5, <2>4, <1>2, LastSets
    <3> QED
      BY <3>6, <3>7, <2>3, <1>3, <1>5 DEF q
  <2> QED
    BY <1>2, <2>4, <2>5, <2>6, SomeSets
<1> QED
  BY <1>4, <1>5

\* Keymaps that differ by contested chords do so after more edits.
LEMMA AskedNear ==
  ASSUME NEW all, NEW j \in Nat, NEW k \in Nat, NEW run, NEW next,
         \A a \in Actions : run[a] \subseteq next[a] /\ next[a] \ Contested \subseteq run[a]
  PROVE  \A a \in Actions : /\ AskedOver(run, all, j, k)[a] \subseteq AskedOver(next, all, j, k)[a]
                            /\ AskedOver(next, all, j, k)[a] \ Contested \subseteq AskedOver(run, all, j, k)[a]
<1> SUFFICES ASSUME NEW a \in Actions
             PROVE  /\ AskedOver(run, all, j, k)[a] \subseteq AskedOver(next, all, j, k)[a]
                    /\ AskedOver(next, all, j, k)[a] \ Contested \subseteq AskedOver(run, all, j, k)[a]
  OBVIOUS
<1>1. CASE AsksNone(j, k, all, a)
  <2>1. AskedOver(run, all, j, k)[a] = run[a] /\ AskedOver(next, all, j, k)[a] = next[a]
    BY <1>1, NoneAsks
  <2> QED
    BY <2>1
<1>2. CASE \E x \in (j + 1)..k : AsksLast(x, k, all, a)
  <2>1. PICK x \in (j + 1)..k : AsksLast(x, k, all, a)
    BY <1>2
  <2>2. AskedOver(run, all, j, k)[a] = all[x].g.to /\ AskedOver(next, all, j, k)[a] = all[x].g.to
    BY <2>1, LastAsks
  <2> QED
    BY <2>2
<1> QED
  BY <1>1, <1>2, SomeAsks

\* A reading of the file gives each chord to one action, and the chords that are not
\* contested to the action that is offered them.
LEMMA StartAgrees ==
  /\ Start \in [Actions -> SUBSET Chords] /\ Unambiguous(Start)
  /\ \A file : file.keys = StartFile.keys /\ file.authored = StartFile.authored
               => FileAgrees(file, Start)
<1>1. /\ StartFile.keys \in [Actions -> SUBSET Chords] /\ StartFile.authored \in SUBSET Actions
      /\ Actions \subseteq Nat
  BY EditsAssumption
<1>2. Start \in [Actions -> SUBSET Chords]
  BY <1>1, ResolvedType DEF Start
<1>3. \A a \in Actions : a \notin Ahead(StartFile, a)
  BY <1>1 DEF Ahead
<1>4. \A a, b \in Actions : a # b => a \in Ahead(StartFile, b) \/ b \in Ahead(StartFile, a)
  BY <1>1 DEF Ahead
<1>5. \A a \in Actions, c \in Chords :
        c \in Start[a] <=> /\ c \in StartFile.keys[a]
                           /\ \A b \in Ahead(StartFile, a) : c \notin StartFile.keys[b]
  BY <1>1 DEF Start, Resolved
<1>6. Unambiguous(Start)
  <2> SUFFICES ASSUME NEW a \in Actions, NEW b \in Actions \ {a}, NEW c \in Start[b], c \in Start[a]
               PROVE  FALSE
    BY DEF Unambiguous, Unclaimed
  <2>1. c \in Chords
    BY <1>2
  <2> QED
    BY <2>1, <1>4, <1>5
<1>7. \A a \in Actions : StartFile.keys[a] \ Contested \subseteq Start[a]
  <2> SUFFICES ASSUME NEW a \in Actions, NEW c \in StartFile.keys[a], c \notin Contested
               PROVE  c \in Start[a]
    OBVIOUS
  <2>1. c \in Chords /\ Ahead(StartFile, a) \subseteq Actions
    BY <1>1 DEF Ahead
  <2>2. \A b \in Actions \ {a} : c \notin StartFile.keys[b]
    BY <2>1 DEF Contested
  <2> QED
    BY <2>1, <2>2, <1>3, <1>5
<1>8. ASSUME NEW file, file.keys = StartFile.keys, file.authored = StartFile.authored
      PROVE  FileAgrees(file, Start)
  <2>1. Resolved(file) = Start
    BY <1>8 DEF Resolved, Ahead, Start
  <2> QED
    BY <2>1, <1>7, <1>8 DEF FileAgrees
<1> QED
  BY <1>2, <1>6, <1>8

\* The file takes a plain edit that the run let through, written or read as it is already.
LEMMA FileTakes ==
  ASSUME NEW file \in EdFileConfig, NEW keys \in [Actions -> SUBSET Chords], NEW e \in EdEdit,
         IsShortcut(e), Plain(e.g), FileAgrees(file, keys), Unambiguous(Folded(keys, e))
  PROVE  /\ Unclaimed(Resolved(file), e.g.action, e.g.to)
         /\ FileAgrees(EdPut(file, e), Folded(keys, e))
         /\ Resolved(file)[e.g.action] = e.g.to => FileAgrees(file, Folded(keys, e))
<1> DEFINE a == e.g.action
           to == e.g.to
           next == Folded(keys, e)
           put == EdPut(file, e)
<1>1. /\ a \in Actions /\ to \in SUBSET Chords /\ to \cap Contested = {}
      /\ file.keys \in [Actions -> SUBSET Chords] /\ file.authored \in SUBSET Actions
  <2>1. e.g \in EdRequest /\ e.g.kind = "shortcut"
    BY DEF IsShortcut, EdEdit
  <2> QED
    BY <2>1 DEF EdRequest, EdFileConfig, Plain
<1>2. next[a] = to /\ \A b \in Actions \ {a} : next[b] = keys[b]
  BY <1>1 DEF Folded
<1>3. /\ put.keys[a] = to /\ \A b \in Actions \ {a} : put.keys[b] = file.keys[b]
      /\ put.authored = file.authored \cup {a}
  <2>1. put = [file EXCEPT !.keys = Folded(file.keys, e), !.authored = file.authored \cup {a}]
    BY DEF EdPut, EdFileConfig
  <2>2. put.keys = Folded(file.keys, e) /\ put.authored = file.authored \cup {a}
    BY <2>1 DEF EdFileConfig
  <2> HIDE DEF put
  <2> QED
    BY <2>2, <1>1 DEF Folded
<1> HIDE DEF put, next
<1>4. \A x \in Actions : \A y \in Actions \ {x} : next[x] \cap next[y] = {}
  BY DEF Unambiguous, Unclaimed, next
<1> HIDE DEF a, to
<1>5. \A x \in Actions : keys[x] \subseteq Resolved(file)[x] /\ file.keys[x] \ Contested \subseteq keys[x]
  BY DEF FileAgrees
<1>6. \A x \in Actions : Resolved(file)[x] \subseteq file.keys[x]
  BY <1>1, ResolvedType
<1>7. \A b \in Actions \ {a} : file.keys[b] \cap to = {}
  <2> SUFFICES ASSUME NEW b \in Actions \ {a}, NEW c \in file.keys[b], c \in to PROVE FALSE
    OBVIOUS
  <2>1. c \in next[b] /\ c \in next[a]
    BY <1>1, <1>2, <1>5
  <2> QED
    BY <2>1, <1>1, <1>4
<1>8. Unclaimed(Resolved(file), a, to)
  BY <1>1, <1>6, <1>7 DEF Unclaimed
<1>9. ASSUME NEW x \in Actions, NEW c \in next[x] PROVE c \in Resolved(put)[x]
  <2>1. c \in put.keys[x]
    <3>1. CASE x = a
      BY <3>1, <1>2, <1>3, <1>9
    <3>2. CASE x # a
      BY <3>2, <1>2, <1>3, <1>5, <1>6, <1>9
    <3> QED
      BY <3>1, <3>2
  <2>2. Ahead(put, x) \subseteq Actions /\ x \notin Ahead(put, x)
    <3>1. x \in Nat
      BY EditsAssumption
    <3> QED
      BY <3>1 DEF Ahead
  <2>3. ASSUME NEW y \in Ahead(put, x) PROVE c \notin put.keys[y]
    <3>1. CASE y = a
      BY <3>1, <2>2, <1>1, <1>2, <1>3, <1>4, <1>9
    <3>2. CASE y # a /\ x = a
      BY <3>2, <2>2, <2>3, <1>2, <1>3, <1>7, <1>9
    <3>3. CASE y # a /\ x # a
      <4>1. y \in Ahead(file, x)
        BY <3>3, <2>3, <1>3 DEF Ahead
      <4>2. c \in Resolved(file)[x]
        BY <3>3, <1>2, <1>5, <1>9
      <4>3. c \notin file.keys[y]
        BY <4>1, <4>2 DEF Resolved
      <4> QED
        BY <4>3, <3>3, <2>2, <2>3, <1>3
    <3> QED
      BY <3>1, <3>2, <3>3
  <2> QED
    BY <2>1, <2>3 DEF Resolved
<1>10. FileAgrees(put, next)
  <2>1. \A x \in Actions : put.keys[x] \ Contested \subseteq next[x]
    BY <1>2, <1>3, <1>5
  <2> QED
    BY <2>1, <1>9 DEF FileAgrees
<1>11. Resolved(file)[a] = to => FileAgrees(file, next)
  BY <1>1, <1>2, <1>5 DEF FileAgrees
<1> QED
  BY <1>8, <1>10, <1>11 DEF a, to, put, next

\* The keymap after some of the edits, and after one more.
LEMMA AskedType ==
  ASSUME NEW all \in Seq(EdEdit), NEW k \in 0..Len(all)
  PROVE  AskedOver(Start, all, 0, k) \in [Actions -> SUBSET Chords]
<1>1. k \in Nat /\ Len(all) \in Nat /\ k <= Len(all) /\ \A i \in 1..Len(all) : all[i] \in EdEdit
  BY LenProperties
<1>2. ASSUME NEW a \in Actions PROVE AskedOver(Start, all, 0, k)[a] \in SUBSET Chords
  <2>1. CASE AsksNone(0, k, all, a)
    <3>1. AskedOver(Start, all, 0, k)[a] = Start[a]
      BY <2>1, <1>1, NoneAsks
    <3> QED
      BY <3>1, StartAgrees
  <2>2. CASE \E x \in (0 + 1)..k : AsksLast(x, k, all, a)
    <3>1. PICK x \in (0 + 1)..k : AsksLast(x, k, all, a)
      BY <2>2
    <3>2. AskedOver(Start, all, 0, k)[a] = all[x].g.to
      BY <3>1, <1>1, LastAsks
    <3>3. all[x] \in EdEdit /\ IsShortcut(all[x])
      <4>1. x \in 1..Len(all)
        BY <1>1
      <4> QED
        BY <4>1, <1>1, <3>1 DEF AsksLast, Asks
    <3>4. all[x].g \in EdRequest /\ all[x].g.kind = "shortcut"
      BY <3>3 DEF IsShortcut, EdEdit
    <3>5. all[x].g.to \in SUBSET Chords
      BY <3>4 DEF EdRequest
    <3> QED
      BY <3>2, <3>5
  <2> QED
    BY <2>1, <2>2, <1>1, SomeAsks
<1>3. AskedOver(Start, all, 0, k) = [a \in Actions |-> AskedOver(Start, all, 0, k)[a]]
  BY DEF AskedOver
<1> QED
  BY <1>2, <1>3

LEMMA AskedNext ==
  ASSUME NEW all \in Seq(EdEdit), NEW k \in Nat, k < Len(all)
  PROVE  AskedOver(Start, all, 0, k + 1)
           = Folded(AskedOver(Start, all, 0, k), all[k + 1])
<1> DEFINE keys == AskedOver(Start, all, 0, k)
<1>1. k \in 0..Len(all) /\ k + 1 \in 1..Len(all) /\ k + 1 \in Nat /\ 0 <= k /\ k <= k + 1
  BY LenProperties
<1>2. keys \in [Actions -> SUBSET Chords] /\ all[k + 1] \in EdEdit
  BY <1>1, AskedType, LenProperties
<1>3. AskedOver(keys, all, k, k + 1) = AskedOver(Start, all, 0, k + 1)
  BY <1>1, AskedOn
<1> HIDE DEF keys
<1>4. AskedOver(keys, all, k, k + 1) = Folded(keys, all[k + 1])
  BY <1>2, AskedOne
<1> QED
  BY <1>3, <1>4 DEF keys

\* Where an edit stands, counted from the two ends of the line.
LEMMA InLineSums ==
  ASSUME NEW a \in Nat, NEW b \in Nat, NEW h \in Nat, NEW c \in Nat, NEW s \in Nat, NEW t \in Nat,
         NEW k \in Nat, NEW u \in Nat, NEW m \in Nat, NEW y \in 0..1, NEW w \in 0..1,
         h = b + y + c, t = a + h + s, k + w = a + b + y, m = w + c, u = m + s
  PROVE  /\ t = k + u
         /\ \A i \in 1..m : ~(w = 1 /\ i = 1) =>
              /\ i - w \in 1..c /\ w + (i - w) = i
              /\ b + y + (i - w) \in 1..h /\ a + (b + y + (i - w)) = k + i
         /\ \A i \in 1..u : i \notin 1..m =>
              i - m \in 1..s /\ m + (i - m) = i /\ a + h + (i - m) = k + i
OBVIOUS

\* Where the edits stand while nothing disturbs the run: first those answered, then those
\* whose completion is under way, then those the file has not been asked to take.
LEMMA InLine ==
  ASSUME EditsInv, EdCalm, edWorker # "stuck"
  PROVE  /\ EdAsked \in Nat /\ Len(edTold) \in Nat /\ Len(edTold) <= EdAsked
         /\ EdUnwritten \in Seq(EdEdit) /\ Len(edSubmitted) = EdAsked + Len(EdUnwritten)
         /\ Follows(EdUnwritten, edSubmitted, EdAsked)
         /\ edAnswered # <<>> => /\ Len(edTold) < Len(edSubmitted)
                                 /\ Head(edAnswered).e = edSubmitted[Len(edTold) + 1]
         /\ edWorker = "writing" => /\ EdAsked < Len(edSubmitted)
                                    /\ edCurrent = edSubmitted[EdAsked + 1]
<1>1. /\ edPhase \notin {"wait", "gone"} /\ edWorker # "ended" /\ EdOpen = edHanded /\ EdLeft = edStaged
  BY DEF EdCalm, EdRunningPhases, EditsInv, EdSmooth, EdOpen, EdLeft
<1>2. Ledger(Len(edTold), edTold, edHanded, edStaged, edSubmitted)
  BY <1>1 DEF EditsInv, EdBooks, Books
<1>3. /\ edTold \in Seq(EdToldOf) /\ edAnswered \in Seq(EdAnswer) /\ edHanded \in Seq(EdEdit)
      /\ edChannel \in Seq(EdEdit) /\ edStaged \in Seq(EdEdit) /\ edSubmitted \in Seq(EdEdit)
  BY DEF EditsInv, EdListTypes
<1>4. /\ Len(edTold) \in Nat /\ Len(edAnswered) \in Nat /\ Len(edHanded) \in Nat
      /\ Len(edChannel) \in Nat /\ Len(edStaged) \in Nat /\ Len(edSubmitted) \in Nat
  BY <1>3, LenProperties
<1> DEFINE a == Len(edTold)
           b == Len(edAnswered)
           busy == IF edWorker \in {"writing", "sending"} THEN 1 ELSE 0
           writing == IF edWorker = "writing" THEN 1 ELSE 0
           first == IF edWorker = "writing" THEN <<edCurrent>> ELSE <<>>
<1>5. /\ b <= Len(edHanded) /\ \A i \in 1..b : edHanded[i] = edAnswered[i].e
      /\ Len(edHanded) = b + busy + Len(edChannel) /\ Follows(edChannel, edHanded, b + busy)
      /\ busy = 1 => edHanded[b + 1] = InHand(edWorker, edCurrent)
  <2>1. Pipe(edWorker, edCurrent, edAnswered, edChannel, edHanded)
    BY <1>1 DEF EditsInv, EdThread
  <2>2. (IF edWorker \in {"writing", "sending", "stuck"} THEN 1 ELSE 0) = busy
    OBVIOUS
  <2> QED
    BY <1>1, <2>1, <2>2 DEF Pipe
<1>6. busy \in 0..1 /\ writing \in 0..1 /\ EdAsked + writing = a + b + busy /\ EdAsked \in Nat /\ a <= EdAsked
  BY <1>4 DEF EdAsked
<1>7. /\ Len(edSubmitted) = a + Len(edHanded) + Len(edStaged)
      /\ \A i \in 1..Len(edHanded) : edHanded[i] = edSubmitted[a + i]
      /\ \A i \in 1..Len(edStaged) : edStaged[i] = edSubmitted[a + Len(edHanded) + i]
  BY <1>2 DEF Ledger, Follows
<1>N. /\ b <= Len(edHanded) /\ Len(edHanded) = b + busy + Len(edChannel)
      /\ Len(edSubmitted) = a + Len(edHanded) + Len(edStaged)
  BY <1>5, <1>7
<1>8. /\ first \in Seq(EdEdit) /\ Len(first) = writing
      /\ writing = 1 => first[1] = edCurrent
  <2>1. edWorker = "writing" => edCurrent \in EdEdit
    BY DEF EditsInv, EdInHand
  <2> QED
    BY <2>1
<1>9. writing = 1 => edCurrent = edSubmitted[EdAsked + 1] /\ EdAsked < Len(edSubmitted)
  <2> SUFFICES ASSUME writing = 1 PROVE edCurrent = edSubmitted[EdAsked + 1] /\ EdAsked < Len(edSubmitted)
    OBVIOUS
  <2>1. edWorker = "writing" /\ busy = 1
    OBVIOUS
  <2>2. edHanded[b + 1] = edCurrent
    BY <2>1, <1>5 DEF InHand
  <2>3. b + 1 \in 1..Len(edHanded) /\ a + (b + 1) = EdAsked + 1 /\ EdAsked < Len(edSubmitted)
    <3> HIDE DEF busy, writing
    <3> QED
      BY <2>1, <1>4, <1>6, <1>N
  <2> QED
    BY <2>2, <2>3, <1>7
<1> DEFINE mid == first \o edChannel
<1> HIDE DEF first, busy, writing
<1>10. mid \in Seq(EdEdit) /\ Joins(mid, first, edChannel)
  BY <1>3, <1>8, Joined
<1> HIDE DEF mid
<1>11. EdUnwritten = mid \o edStaged
  BY DEF EdUnwritten, mid, first
<1>12. EdUnwritten \in Seq(EdEdit) /\ Joins(EdUnwritten, mid, edStaged)
  BY <1>3, <1>10, <1>11, Joined
<1>13. /\ Len(mid) \in Nat /\ Len(EdUnwritten) \in Nat
       /\ Len(mid) = writing + Len(edChannel) /\ Len(EdUnwritten) = Len(mid) + Len(edStaged)
  BY <1>8, <1>10, <1>12, LenProperties DEF Joins
<1>14. /\ Len(edSubmitted) = EdAsked + Len(EdUnwritten)
       /\ \A i \in 1..Len(mid) : ~(writing = 1 /\ i = 1) =>
            /\ i - writing \in 1..Len(edChannel) /\ writing + (i - writing) = i
            /\ b + busy + (i - writing) \in 1..Len(edHanded)
            /\ a + (b + busy + (i - writing)) = EdAsked + i
       /\ \A i \in 1..Len(EdUnwritten) : i \notin 1..Len(mid) =>
            /\ i - Len(mid) \in 1..Len(edStaged) /\ Len(mid) + (i - Len(mid)) = i
            /\ a + Len(edHanded) + (i - Len(mid)) = EdAsked + i
  <2> HIDE DEF a, b
  <2>1. /\ a \in Nat /\ b \in Nat /\ Len(edHanded) \in Nat /\ Len(edChannel) \in Nat
        /\ Len(edStaged) \in Nat /\ Len(edSubmitted) \in Nat /\ EdAsked \in Nat
        /\ Len(EdUnwritten) \in Nat /\ Len(mid) \in Nat /\ busy \in 0..1 /\ writing \in 0..1
    BY <1>4, <1>6, <1>13 DEF a, b
  <2>2. Len(edHanded) = b + busy + Len(edChannel)
    BY <1>N
  <2>3. Len(edSubmitted) = a + Len(edHanded) + Len(edStaged)
    BY <1>N
  <2>4. EdAsked + writing = a + b + busy
    BY <1>6
  <2>5. Len(mid) = writing + Len(edChannel)
    BY <1>13
  <2>6. Len(EdUnwritten) = Len(mid) + Len(edStaged)
    BY <1>13
  <2> QED
    BY ONLY <2>1, <2>2, <2>3, <2>4, <2>5, <2>6, InLineSums
<1>15. ASSUME NEW i \in 1..Len(mid) PROVE mid[i] = edSubmitted[EdAsked + i]
  <2>1. CASE writing = 1 /\ i = 1
    BY <2>1, <1>8, <1>9, <1>10 DEF Joins
  <2>2. CASE ~(writing = 1 /\ i = 1)
    <3>1. /\ i - writing \in 1..Len(edChannel) /\ writing + (i - writing) = i
          /\ b + busy + (i - writing) \in 1..Len(edHanded)
          /\ a + (b + busy + (i - writing)) = EdAsked + i
      BY <2>2, <1>14
    <3>2. mid[i] = edChannel[i - writing]
      BY <3>1, <1>8, <1>10 DEF Joins
    <3>3. edChannel[i - writing] = edHanded[b + busy + (i - writing)]
      BY <3>1, <1>5 DEF Follows
    <3> QED
      BY <3>1, <3>2, <3>3, <1>7
  <2> QED
    BY <2>1, <2>2
<1>16. ASSUME NEW i \in 1..Len(EdUnwritten) PROVE EdUnwritten[i] = edSubmitted[EdAsked + i]
  <2>1. CASE i \in 1..Len(mid)
    BY <2>1, <1>12, <1>15 DEF Joins
  <2>2. CASE i \notin 1..Len(mid)
    <3>1. /\ i - Len(mid) \in 1..Len(edStaged) /\ Len(mid) + (i - Len(mid)) = i
          /\ a + Len(edHanded) + (i - Len(mid)) = EdAsked + i
      BY <2>2, <1>14
    <3>2. EdUnwritten[i] = edStaged[i - Len(mid)]
      BY <3>1, <1>12 DEF Joins
    <3> QED
      BY <3>1, <3>2, <1>7
  <2> QED
    BY <2>1, <2>2
<1>17. edAnswered # <<>> => a < Len(edSubmitted) /\ Head(edAnswered).e = edSubmitted[a + 1]
  <2> SUFFICES ASSUME edAnswered # <<>> PROVE a < Len(edSubmitted) /\ Head(edAnswered).e = edSubmitted[a + 1]
    OBVIOUS
  <2>1. b > 0 /\ Head(edAnswered) = edAnswered[1]
    BY <1>3, Taken
  <2>2. 1 \in 1..b /\ 1 \in 1..Len(edHanded)
    BY <2>1, <1>4, <1>5
  <2>3. a < Len(edSubmitted)
    BY <2>2, <1>4, <1>7
  <2> QED
    BY <2>1, <2>2, <2>3, <1>5, <1>7
<1> QED
  BY <1>4, <1>6, <1>9, <1>12, <1>14, <1>16, <1>17 DEF Follows, writing

\* What EdAgreed says is what the run foresees.
LEMMA AgreedForesees == EditsInv /\ EdAgreed => EditsForesee
<1>D. EditsInv => DOMAIN edSubmitted = 1..Len(edSubmitted)
  <2>1. EditsInv => edSubmitted \in Seq(EdEdit)
    BY DEF EditsInv, EdListTypes
  <2> QED
    BY <2>1, LenProperties
<1> SUFFICES ASSUME EditsInv, EdAgreed, EdCalm
             PROVE  LET run == Foreseen(edLive.keys, edProjected)
                        next == Foreseen(Resolved(edFile), EdUnwritten) IN
                      /\ \A a \in Actions : /\ run[a] \subseteq next[a]
                                            /\ next[a] \ Contested \subseteq run[a]
                      /\ \A g \in {h \in Gestures : h.kind = "shortcut" /\ Plain(h)} :
                           EdAcceptable([n |-> edMade, g |-> g]) <=> Unclaimed(next, g.action, g.to)
                      /\ EdTolds({"claimed"}) = {}
                      /\ edLive.slot = SlotForeseen(edFile.slot, EdUnwritten \o edPending)
  BY <1>D DEF EditsForesee, EdCalm, EdPlain
<1> DEFINE all == edSubmitted
           run == AskedOver(Start, all, 0, Len(all))
           next == AskedOver(Resolved(edFile), all, EdAsked, Len(all))
<1>1. EdKeysAgree /\ EdNoneClaimed /\ EdSlotAgrees
  BY DEF EdAgreed
<1>2. /\ EdAsked \in Nat /\ Len(edTold) \in Nat /\ Len(edTold) <= EdAsked
      /\ EdUnwritten \in Seq(EdEdit) /\ Len(all) = EdAsked + Len(EdUnwritten)
      /\ Follows(EdUnwritten, all, EdAsked)
  BY <1>1, InLine DEF EdNoneClaimed
<1>3. /\ all \in Seq(EdEdit) /\ edProjected \in Seq(EdEdit) /\ edPending \in Seq(EdEdit)
      /\ edTold \in Seq(EdToldOf)
  BY DEF EditsInv, EdListTypes
<1>4. Len(all) \in Nat /\ EdAsked <= Len(all) /\ Len(edTold) <= Len(all)
  BY <1>2, <1>3, LenProperties
<1>5. Foreseen(edLive.keys, edProjected) = run
  <2>1. Foreseen(edLive.keys, edProjected) = AskedOver(edLive.keys, all, Len(edTold), Len(all))
    <3>1. Picks(edProjected, all, Len(edTold))
      BY <1>1 DEF EdKeysAgree
    <3>2. all \in Seq(EdEdit) /\ edProjected \in Seq(EdEdit) /\ Len(edTold) \in Nat
      BY <1>2, <1>3
    <3> HIDE DEF all, run, next
    <3>3. \A keys : Foreseen(keys, edProjected) = AskedOver(keys, all, Len(edTold), Len(all))
      <4> DEFINE told == Len(edTold)
                 q == edProjected
      <4> HIDE DEF told, q
      <4>1. Picks(q, all, told) /\ q \in Seq(EdEdit) /\ told \in Nat
        BY <3>1, <3>2 DEF told, q
      <4>2. \A keys : Foreseen(keys, q) = AskedOver(keys, all, told, Len(all))
        BY <4>1, <3>2, ForeseenPicks
      <4> QED
        BY <4>2 DEF told, q
    <3> QED
      BY <3>3
  <2>2. edLive.keys = AskedOver(Start, all, 0, Len(edTold))
    BY <1>1 DEF EdKeysAgree
  <2>3. 0 \in Nat /\ 0 <= Len(edTold)
    BY <1>2
  <2> QED
    BY <2>1, <2>2, <2>3, <1>2, <1>4, AskedOn
<1>6. Foreseen(Resolved(edFile), EdUnwritten) = next
  <2>1. \A keys : Foreseen(keys, EdUnwritten) = AskedOver(keys, all, EdAsked, EdAsked + Len(EdUnwritten))
    BY <1>2, ForeseenStretch
  <2> QED
    BY <2>1, <1>2
<1>7. run \in [Actions -> SUBSET Chords] /\ Unambiguous(run)
  <2>1. Len(all) \in 0..Len(all)
    BY <1>4
  <2> QED
    BY <2>1, <1>1, <1>3, AskedType DEF EdKeysAgree
<1>8. \A a \in Actions : run[a] \subseteq next[a] /\ next[a] \ Contested \subseteq run[a]
  <2> DEFINE keys == AskedOver(Start, all, 0, EdAsked)
  <2>1. run = AskedOver(keys, all, EdAsked, Len(all))
    <3>1. 0 \in Nat /\ 0 <= EdAsked
      BY <1>2
    <3> QED
      BY <3>1, <1>2, <1>4, AskedOn
  <2>2. edFile.keys \in [Actions -> SUBSET Chords]
    BY DEF EditsInv, EdFileTypes, EdFileConfig
  <2>3. FileAgrees(edFile, keys)
    BY <1>1 DEF EdKeysAgree
  <2> HIDE DEF keys, run, next
  <2>4. \A a \in Actions : /\ keys[a] \subseteq Resolved(edFile)[a]
                           /\ Resolved(edFile)[a] \ Contested \subseteq keys[a]
    BY <2>2, <2>3, ResolvedType DEF FileAgrees
  <2> QED
    BY <2>1, <2>4, <1>2, <1>4, AskedNear DEF next
<1>9. ASSUME NEW g \in {h \in Gestures : h.kind = "shortcut" /\ Plain(h)}
      PROVE  EdAcceptable([n |-> edMade, g |-> g]) <=> Unclaimed(next, g.action, g.to)
  <2> DEFINE e == [n |-> edMade, g |-> g]
  <2> HIDE DEF run, next
  <2>1. g \in EdRequest /\ g.kind = "shortcut" /\ Plain(g)
    BY EditsAssumption
  <2>2. g.action \in Actions /\ g.to \in SUBSET Chords /\ g.to \cap Contested = {}
    BY <2>1 DEF EdRequest, Plain
  <2>3. e.g = g /\ IsShortcut(e)
    BY <2>1 DEF IsShortcut
  <2> HIDE DEF e
  <2>4. /\ Unambiguous(Folded(run, e)) => Unclaimed(run, g.action, g.to)
        /\ Unambiguous(run) /\ Unclaimed(run, g.action, g.to) => Unambiguous(Folded(run, e))
    BY <2>2, <2>3, <1>7, FoldedFree
  <2>5. EdAcceptable(e) <=> Unclaimed(run, g.action, g.to)
    BY <2>3, <2>4, <1>5, <1>7 DEF EdAcceptable
  <2>6. Unclaimed(run, g.action, g.to) <=> Unclaimed(next, g.action, g.to)
    BY <2>2, <1>8 DEF Unclaimed
  <2> QED
    BY <2>5, <2>6 DEF e
<1>10. EdTolds({"claimed"}) = {}
  <2>1. DOMAIN edTold = 1..Len(edTold)
    BY <1>3, LenProperties
  <2> QED
    BY <2>1, <1>1 DEF EdTolds, EdNoneClaimed
<1>11. edLive.slot = SlotForeseen(edFile.slot, EdUnwritten \o edPending)
  <2>1. /\ edFile.slot = SetOver(0, all, 0, EdAsked)
        /\ \A i \in 2..Len(edPending) : IsShortcut(edPending[i])
        /\ edLive.slot = IF edPending # <<>> /\ ~IsShortcut(edPending[1]) THEN edPending[1].n
                         ELSE SetOver(0, all, 0, Len(all))
    BY <1>1 DEF EdSlotAgrees
  <2>2. SlotForeseen(SetOver(0, all, 0, EdAsked), EdUnwritten \o edPending)
          = IF edPending # <<>> /\ ~IsShortcut(edPending[1]) THEN edPending[1].n
            ELSE SetOver(0, all, 0, Len(all))
    <3>1. /\ EdUnwritten \in Seq(EdEdit) /\ edPending \in Seq(EdEdit) /\ all \in Seq(EdEdit) /\ EdAsked \in Nat
          /\ Len(all) = EdAsked + Len(EdUnwritten) /\ Follows(EdUnwritten, all, EdAsked)
          /\ \A i \in 2..Len(edPending) : IsShortcut(edPending[i])
      BY <2>1, <1>2, <1>3
    <3> HIDE DEF all, run, next
    <3> QED
      BY ONLY <3>1, SlotIs
  <2> QED
    BY <2>1, <2>2
<1> HIDE DEF run, next
<1> QED
  BY <1>5, <1>6, <1>8, <1>9, <1>10, <1>11

\* Without a fault the pump makes none, and only starts a worker that waits.
LEMMA PumpCalm ==
  ASSUME EditsInv, NEW staged \in Seq(EdEdit), NEW q \in EdPumped(staged), q.faults = 0
  PROVE  /\ edFaults = 0 /\ q \in EdQ
         /\ q.worker = edWorker \/ (q.worker = "idle" /\ edWorker = "none")
<1> DEFINE p == EdQueues(staged)
           up == [p EXCEPT !.running = "up", !.worker = "idle"]
<1>1. EdFlagTypes /\ EdListTypes /\ EdStages
  BY DEF EditsInv
<1>2. p \in EdQ /\ q \in EdQ /\ Pumped(p, q)
  BY <1>1, Pumping
<1>3. p.worker = edWorker /\ p.running = edRunning /\ p.faults = edFaults /\ edFaults \in Nat
  BY <1>1 DEF EdQueues, EdFlagTypes
<1>4. up.worker = "idle" /\ up.faults = edFaults
  BY <1>2, <1>3 DEF EdQ
<1> HIDE DEF p
<1>5. CASE q = p
  BY <1>5, <1>2, <1>3
<1>6. CASE q = [p EXCEPT !.faults = @ + 1]
  <2>1. q.faults = edFaults + 1
    BY <1>6, <1>2, <1>3 DEF EdQ
  <2> QED
    BY <2>1, <1>3
<1>7. CASE q = [p EXCEPT !.running = "closed"]
  <2>1. q.worker = edWorker /\ q.faults = edFaults
    BY <1>7, <1>2, <1>3 DEF EdQ
  <2> QED
    BY <2>1, <1>2
<1>8. ASSUME NEW j, Moved(p, q, j) PROVE edFaults = 0 /\ q.worker = edWorker
  BY <1>8, <1>3 DEF Moved
<1>9. ASSUME NEW j, Moved(up, q, j), p.running = "none"
      PROVE  edFaults = 0 /\ q.worker = "idle" /\ edWorker = "none"
  <2>1. q.worker = "idle" /\ q.faults = edFaults
    BY <1>4, <1>9 DEF Moved
  <2> QED
    BY <2>1, <1>1, <1>3, <1>9 DEF EdStages
<1> QED
  BY <1>2, <1>5, <1>6, <1>7, <1>8, <1>9 DEF Pumped

\* A step that leaves alone what the run and the file agree on.
LEMMA AgreedKept ==
  ASSUME EdAgreed, EdCalm' => EdCalm,
         UNCHANGED <<edTold, edAnswered, edSubmitted, edProjected, edLive, edFile, edPending>>,
         edWorker' = "sending" <=> edWorker = "sending",
         edWorker = "sending" => edCurrent' = edCurrent,
         edWorker' # "stuck" \/ edWorker' = edWorker
  PROVE  EdAgreed'
<1> SUFFICES ASSUME EdCalm' PROVE EdKeysAgree' /\ EdNoneClaimed' /\ EdSlotAgrees'
  BY DEF EdAgreed
<1>1. EdKeysAgree /\ EdNoneClaimed /\ EdSlotAgrees
  BY DEF EdAgreed
<1>2. EdAsked' = EdAsked
  BY DEF EdAsked
<1>3. EdKeysAgree'
  BY <1>1, <1>2 DEF EdKeysAgree
<1>4. EdNoneClaimed'
  BY <1>1 DEF EdNoneClaimed
<1>5. EdSlotAgrees'
  BY <1>1, <1>2 DEF EdSlotAgrees
<1> QED
  BY <1>3, <1>4, <1>5

\* At the start nothing has been asked for.
LEMMA AgreedInit == EditsInit => EdAgreed
<1> SUFFICES ASSUME EditsInit PROVE EdKeysAgree /\ EdNoneClaimed /\ EdSlotAgrees
  BY DEF EdAgreed
<1>1. /\ edLive.keys = Start /\ edLive.slot = 0 /\ edFile.slot = 0 /\ edSubmitted = <<>>
      /\ edFile.keys = StartFile.keys /\ edFile.authored = StartFile.authored
      /\ edTold = <<>> /\ edAnswered = <<>> /\ edWorker = "none" /\ edProjected = <<>> /\ edPending = <<>>
  BY DEF EditsInit, Start
<1>2. EdAsked = 0 /\ Len(edTold) = 0 /\ Len(edSubmitted) = 0 /\ Len(edAnswered) = 0
  BY <1>1 DEF EdAsked
<1>3. AskedOver(Start, <<>>, 0, 0) = Start
  <2>1. \A a \in Actions : {i \in (0 + 1)..0 : IsShortcut(<<>>[i]) /\ <<>>[i].g.action = a} = {}
    OBVIOUS
  <2>2. AskedOver(Start, <<>>, 0, 0) = [a \in Actions |-> Start[a]]
    BY <2>1 DEF AskedOver
  <2> QED
    BY <2>2, StartAgrees
<1>4. SetOver(0, <<>>, 0, 0) = 0
  <2>1. {i \in (0 + 1)..0 : ~IsShortcut(<<>>[i])} = {}
    OBVIOUS
  <2> QED
    BY <2>1 DEF SetOver
<1>5. Picks(<<>>, <<>>, 0)
  <2>1. Len(<<>>) = 0
    OBVIOUS
  <2>2. PicksAt([i \in 1..0 |-> 0], <<>>, <<>>, 0, 0)
    BY <2>1 DEF PicksAt
  <2> QED
    BY <2>1, <2>2 DEF Picks
<1>6. EdKeysAgree
  <2>1. \A k \in 0..0 : k = 0
    OBVIOUS
  <2> QED
    BY <2>1, <1>1, <1>2, <1>3, <1>5, StartAgrees DEF EdKeysAgree
<1>7. EdNoneClaimed
  BY <1>1, <1>2 DEF EdNoneClaimed
<1>8. EdSlotAgrees
  BY <1>1, <1>2, <1>4 DEF EdSlotAgrees
<1> QED
  BY <1>6, <1>7, <1>8

\* A gesture: a shortcut waits behind the others, a slot is shown at once.
LEMMA AgreedGesture ==
  ASSUME EditsInv, EdAgreed, NEW g \in Gestures, EdGesture(g)
  PROVE  EdAgreed'
<1> DEFINE e == [n |-> edMade + 1, g |-> g]
<1>1. /\ edPhase \in {"poll", "dispatch"} /\ edPending \in Seq(EdEdit) /\ edLive \in EdConfig
      /\ UNCHANGED <<edQueueVars, edThreadVars, edBoundVars, edHistoryVars, edFile>>
  BY DEF EdGesture, EditsInv, EdListTypes, EdFileTypes
<1>2. UNCHANGED <<edTold, edAnswered, edSubmitted, edProjected, edFile, edWorker, edCurrent, edFaults, edOutside>>
  BY <1>1 DEF edQueueVars, edThreadVars, edBoundVars, edHistoryVars
<1> SUFFICES ASSUME EdCalm' PROVE EdKeysAgree' /\ EdNoneClaimed' /\ EdSlotAgrees'
  BY DEF EdAgreed
<1>3. EdKeysAgree /\ EdNoneClaimed /\ EdSlotAgrees
  <2>1. EdCalm
    BY <1>1, <1>2 DEF EdCalm, EdPlain, EdRunningPhases
  <2> QED
    BY <2>1 DEF EdAgreed
<1>4. \/ IsShortcut(e) /\ edPending' = Append(edPending, e) /\ edLive' = edLive
      \/ /\ ~IsShortcut(e) /\ \A i \in DOMAIN edPending : IsShortcut(edPending[i])
         /\ edPending' = <<e>> \o edPending /\ edLive' = [edLive EXCEPT !.slot = e.n]
  BY DEF EdGesture
<1>5. EdAsked' = EdAsked /\ edLive'.keys = edLive.keys
  BY <1>1, <1>2, <1>4 DEF EdAsked, EdConfig
<1>6. EdKeysAgree'
  BY <1>2, <1>3, <1>5 DEF EdKeysAgree
<1>7. EdNoneClaimed'
  BY <1>2, <1>3 DEF EdNoneClaimed
<1>8. EdSlotAgrees'
  <2> HIDE DEF e
  <2>1. Len(edPending) \in Nat /\ DOMAIN edPending = 1..Len(edPending)
    BY <1>1, LenProperties
  <2>2. CASE IsShortcut(e) /\ edPending' = Append(edPending, e) /\ edLive' = edLive
    <3>1. /\ Len(edPending') = Len(edPending) + 1 /\ edPending' # <<>>
          /\ \A i \in 1..Len(edPending) : edPending'[i] = edPending[i]
          /\ edPending'[Len(edPending) + 1] = e
      BY <2>1, <2>2, <1>1
    <3>2. \A i \in 2..(Len(edPending) + 1) : \/ i \in 1..Len(edPending) /\ i \in 2..Len(edPending)
                                             \/ i = Len(edPending) + 1
      BY <2>1
    <3>3. \A i \in 2..Len(edPending') : IsShortcut(edPending'[i])
      BY <3>1, <3>2, <2>2, <1>3 DEF EdSlotAgrees
    <3>4. edPending' # <<>> /\ ~IsShortcut(edPending'[1]) <=> edPending # <<>> /\ ~IsShortcut(edPending[1])
      <4>1. CASE edPending = <<>>
        BY <4>1, <3>1, <2>2
      <4>2. CASE edPending # <<>>
        <5>1. 1 \in 1..Len(edPending)
          BY <4>2, <1>1, <2>1
        <5> QED
          BY <5>1, <4>2, <3>1
      <4> QED
        BY <4>1, <4>2
    <3>5. edPending # <<>> => edPending'[1] = edPending[1]
      <4>1. edPending # <<>> => 1 \in 1..Len(edPending)
        BY <1>1, <2>1
      <4> QED
        BY <4>1, <3>1
    <3> QED
      BY <3>3, <3>4, <3>5, <2>2, <1>2, <1>3, <1>5 DEF EdSlotAgrees
  <2>3. CASE /\ ~IsShortcut(e) /\ \A i \in DOMAIN edPending : IsShortcut(edPending[i])
             /\ edPending' = <<e>> \o edPending /\ edLive' = [edLive EXCEPT !.slot = e.n]
    <3>1. Joins(edPending', <<e>>, edPending) /\ Len(<<e>>) = 1 /\ <<e>>[1] = e
      <4>1. e \in EdEdit
        <5>1. edMade + 1 \in 1..MaxGestures
          BY EditsAssumption DEF EdGesture, EditsInv, EdFlagTypes
        <5> QED
          BY <5>1, EditsAssumption DEF e, EdEdit
      <4>2. <<e>> \in Seq(EdEdit)
        BY <4>1
      <4> QED
        BY <4>2, <2>3, <1>1, Joined
    <3>2. /\ Len(edPending') = 1 + Len(edPending) /\ edPending'[1] = e
          /\ \A i \in 1..Len(edPending) : edPending'[1 + i] = edPending[i]
      BY <3>1 DEF Joins
    <3>3. \A i \in 2..Len(edPending') : IsShortcut(edPending'[i])
      <4>1. \A i \in 2..(1 + Len(edPending)) : i - 1 \in 1..Len(edPending) /\ 1 + (i - 1) = i
        BY <2>1
      <4> QED
        BY <4>1, <3>2, <2>1, <2>3
    <3>4. edPending' # <<>>
      <4>1. Len(edPending') # 0
        BY <3>2, <2>1
      <4> QED
        BY <4>1
    <3>5. edLive'.slot = e.n
      BY <2>3, <1>1 DEF EdConfig
    <3> QED
      BY <3>2, <3>3, <3>4, <3>5, <2>3, <1>2, <1>3, <1>5 DEF EdSlotAgrees
  <2>4. \/ IsShortcut(e) /\ edPending' = Append(edPending, e) /\ edLive' = edLive
        \/ /\ ~IsShortcut(e) /\ \A i \in DOMAIN edPending : IsShortcut(edPending[i])
           /\ edPending' = <<e>> \o edPending /\ edLive' = [edLive EXCEPT !.slot = e.n]
    BY <1>4
  <2> QED
    BY <2>2, <2>3, <2>4
<1> QED
  BY <1>6, <1>7, <1>8

\* The edits of a list that grows leave behind what they did.
LEMMA GrownAlike ==
  ASSUME NEW all \in Seq(EdEdit), NEW e \in EdEdit, NEW k \in 0..Len(all)
  PROVE  /\ AskedOver(Start, Append(all, e), 0, k) = AskedOver(Start, all, 0, k)
         /\ SetOver(0, Append(all, e), 0, k) = SetOver(0, all, 0, k)
<1> DEFINE more == Append(all, e)
<1>1. \A i \in 1..Len(all) : more[i] = all[i]
  BY Put
<1>2. k \in Nat /\ Len(all) \in Nat /\ k <= Len(all)
  BY LenProperties
<1>3. /\ \A i \in (0 + 1)..k : more[i] = all[i]
      /\ \A i \in 1..k : all[i] = more[i]
  BY <1>1, <1>2
<1> HIDE DEF more
<1>4. AskedOver(Start, more, 0, k) = AskedOver(Start, all, 0, k)
  BY <1>2, <1>3, AskedSame
<1>5. SetOver(0, all, 0, k) = SetOver(0, more, 0, k)
  BY <1>2, <1>3, SetAlike
<1> QED
  BY <1>4, <1>5 DEF more

\* The keymap a new shortcut is checked against is what all submitted edits leave.
LEMMA AgreedNext ==
  ASSUME EditsInv, EdCalm, EdAgreed
  PROVE  /\ Foreseen(edLive.keys, edProjected) = AskedOver(Start, edSubmitted, 0, Len(edSubmitted))
         /\ EdAsked \in Nat /\ Len(edTold) \in Nat /\ Len(edTold) <= EdAsked
         /\ Len(edSubmitted) \in Nat /\ EdAsked <= Len(edSubmitted)
<1>1. EdKeysAgree /\ EdNoneClaimed
  BY DEF EdAgreed
<1>2. /\ EdAsked \in Nat /\ Len(edTold) \in Nat /\ Len(edTold) <= EdAsked
      /\ EdUnwritten \in Seq(EdEdit) /\ Len(edSubmitted) = EdAsked + Len(EdUnwritten)
  BY <1>1, InLine DEF EdNoneClaimed
<1>3. edSubmitted \in Seq(EdEdit) /\ edProjected \in Seq(EdEdit)
  BY DEF EditsInv, EdListTypes
<1>4. Len(edSubmitted) \in Nat /\ EdAsked <= Len(edSubmitted) /\ Len(edTold) <= Len(edSubmitted)
  BY <1>2, <1>3, LenProperties
<1> DEFINE told == Len(edTold)
           q == edProjected
           all == edSubmitted
<1>5. Picks(q, all, told) /\ edLive.keys = AskedOver(Start, all, 0, told)
  BY <1>1 DEF EdKeysAgree
<1>6. q \in Seq(EdEdit) /\ all \in Seq(EdEdit) /\ told \in Nat /\ 0 <= told /\ told <= Len(all) /\ Len(all) \in Nat
  BY <1>2, <1>3, <1>4
<1> HIDE DEF told, q, all
<1>7. \A keys : Foreseen(keys, q) = AskedOver(keys, all, told, Len(all))
  BY <1>5, <1>6, ForeseenPicks
<1>8. AskedOver(AskedOver(Start, all, 0, told), all, told, Len(all)) = AskedOver(Start, all, 0, Len(all))
  BY <1>6, AskedOn
<1>9. Foreseen(edLive.keys, q) = AskedOver(Start, all, 0, Len(all))
  BY <1>5, <1>7, <1>8
<1> QED
  BY <1>2, <1>4, <1>9 DEF told, q, all

\* A pending gesture is refused.
LEMMA AgreedRefused ==
  ASSUME EditsInv, EdAgreed, EdRequestStep, IsShortcut(Head(edPending)),
         UNCHANGED <<edWake, edQueueVars, edWorker, edFaults, edSubmitted>>
  PROVE  EdAgreed'
<1>1. /\ edPending \in Seq(EdEdit) /\ edPending # <<>> /\ edPending' = Tail(edPending)
      /\ UNCHANGED <<edPhase, edLive, edAnswered, edCurrent, edOutside, edTold, edFile>>
  BY DEF EdRequestStep, EditsInv, EdListTypes
<1>2. UNCHANGED <<edTold, edAnswered, edSubmitted, edProjected, edLive, edFile, edWorker, edCurrent, edFaults,
                  edOutside>>
  BY <1>1 DEF edQueueVars
<1> SUFFICES ASSUME EdCalm' PROVE EdKeysAgree' /\ EdNoneClaimed' /\ EdSlotAgrees'
  BY DEF EdAgreed
<1>3. EdKeysAgree /\ EdNoneClaimed /\ EdSlotAgrees
  <2>1. EdCalm
    BY <1>1, <1>2 DEF EdCalm, EdPlain
  <2> QED
    BY <2>1 DEF EdAgreed
<1>4. EdAsked' = EdAsked
  BY <1>2 DEF EdAsked
<1>5. EdKeysAgree'
  BY <1>2, <1>3, <1>4 DEF EdKeysAgree
<1>6. EdNoneClaimed'
  BY <1>2, <1>3 DEF EdNoneClaimed
<1>7. EdSlotAgrees'
  <2>1. /\ Len(edPending) > 0 /\ Head(edPending) = edPending[1] /\ Len(edPending') = Len(edPending) - 1
        /\ \A i \in 1..(Len(edPending) - 1) : edPending'[i] = edPending[i + 1]
        /\ Len(edPending) \in Nat /\ edPending' \in Seq(EdEdit)
    BY <1>1, Taken, LenProperties
  <2>2. \A i \in 1..(Len(edPending) - 1) : i + 1 \in 2..Len(edPending)
    BY <2>1
  <2>3. \A i \in 1..Len(edPending') : IsShortcut(edPending'[i])
    BY <2>1, <2>2, <1>3 DEF EdSlotAgrees
  <2>4. /\ \A i \in 2..Len(edPending') : i \in 1..Len(edPending')
        /\ edPending' # <<>> => 1 \in 1..Len(edPending')
    <3>1. Len(edPending') \in Nat /\ (edPending' # <<>> => Len(edPending') # 0)
      BY <2>1, LenProperties, EmptySeq
    <3> QED
      BY <3>1
  <2>5. edLive.slot = SetOver(0, edSubmitted, 0, Len(edSubmitted))
    BY <2>1, <1>1, <1>3 DEF EdSlotAgrees
  <2> QED
    BY <2>3, <2>4, <2>5, <1>2, <1>3, <1>4 DEF EdSlotAgrees
<1> QED
  BY <1>5, <1>6, <1>7

\* A pending gesture is submitted.
LEMMA AgreedSubmitted ==
  ASSUME EditsInv, EdAgreed, EdRequestStep, IsShortcut(Head(edPending)) => EdAcceptable(Head(edPending)),
         edSubmitted' = Append(edSubmitted, Head(edPending)),
         edProjected' = (IF IsShortcut(Head(edPending)) THEN Append(edProjected, Head(edPending))
                         ELSE edProjected),
         NEW q \in EdPumped(Append(edStaged, Head(edPending))), EdTakeQueues(q)
  PROVE  EdAgreed'
<1> DEFINE e == Head(edPending)
           all == edSubmitted
           n == Len(all)
           told == Len(edTold)
<1>1. /\ edPending \in Seq(EdEdit) /\ edPending # <<>> /\ edPending' = Tail(edPending)
      /\ edStaged \in Seq(EdEdit) /\ all \in Seq(EdEdit) /\ edProjected \in Seq(EdEdit)
      /\ UNCHANGED <<edPhase, edLive, edAnswered, edCurrent, edOutside, edTold, edFile>>
  BY DEF EdRequestStep, EditsInv, EdListTypes
<1> SUFFICES ASSUME EdCalm' PROVE EdKeysAgree' /\ EdNoneClaimed' /\ EdSlotAgrees'
  BY DEF EdAgreed
<1>2. e \in EdEdit /\ Append(edStaged, e) \in Seq(EdEdit)
  BY <1>1, Taken, Put
<1>3. edFaults = 0 /\ (edWorker' = edWorker \/ (edWorker' = "idle" /\ edWorker = "none"))
  <2>1. edFaults' = q.faults /\ edWorker' = q.worker /\ edFaults' = 0
    BY DEF EdTakeQueues, EdCalm
  <2> QED
    BY <2>1, <1>2, PumpCalm
<1>4. EdCalm
  <2>1. EdPlain
    <3>1. /\ \A i \in 1..Len(edSubmitted) : edSubmitted'[i] = edSubmitted[i]
          /\ Len(edSubmitted') = Len(edSubmitted) + 1 /\ Len(edSubmitted) \in Nat
      BY <1>1, <1>2, Put, LenProperties
    <3>2. \A i \in 1..Len(edSubmitted) : i \in 1..Len(edSubmitted')
      BY <3>1
    <3> QED
      BY <3>1, <3>2 DEF EdCalm, EdPlain
  <2> QED
    BY <2>1, <1>1, <1>3 DEF EdCalm, EdPlain
<1>5. EdKeysAgree /\ EdNoneClaimed /\ EdSlotAgrees
  BY <1>4 DEF EdAgreed
<1>6. /\ Foreseen(edLive.keys, edProjected) = AskedOver(Start, all, 0, n)
      /\ EdAsked \in Nat /\ told \in Nat /\ told <= EdAsked /\ n \in Nat /\ EdAsked <= n
  BY <1>4, AgreedNext
<1>7. EdAsked' = EdAsked
  BY <1>1, <1>3 DEF EdAsked
<1> HIDE DEF e
<1>8. /\ edSubmitted' = Append(all, e) /\ Append(all, e) \in Seq(EdEdit) /\ Len(edSubmitted') = n + 1
      /\ edSubmitted'[n + 1] = e
      /\ edProjected' = (IF IsShortcut(e) THEN Append(edProjected, e) ELSE edProjected)
      /\ (IsShortcut(e) => EdAcceptable(e))
  <2>1. /\ edSubmitted' = Append(all, e)
        /\ edProjected' = (IF IsShortcut(e) THEN Append(edProjected, e) ELSE edProjected)
        /\ (IsShortcut(e) => EdAcceptable(e))
    BY DEF e
  <2> QED
    BY <2>1, <1>1, <1>2, Put
<1>9. \A k \in 0..n : /\ AskedOver(Start, edSubmitted', 0, k) = AskedOver(Start, all, 0, k)
                      /\ SetOver(0, edSubmitted', 0, k) = SetOver(0, all, 0, k)
  BY <1>1, <1>2, <1>8, GrownAlike
<1> HIDE DEF all
<1>10. told \in 0..n /\ EdAsked \in 0..n /\ n \in 0..n
  BY <1>6
<1>11. EdKeysAgree'
  <2>1. edLive'.keys = AskedOver(Start, edSubmitted', 0, Len(edTold'))
    BY <1>1, <1>5, <1>9, <1>10 DEF EdKeysAgree, all
  <2>2. FileAgrees(edFile', AskedOver(Start, edSubmitted', 0, EdAsked'))
    BY <1>1, <1>5, <1>7, <1>9, <1>10 DEF EdKeysAgree, all
  <2>3. Unambiguous(AskedOver(Start, edSubmitted', 0, n + 1))
    <3>1. edSubmitted' \in Seq(EdEdit) /\ n \in Nat /\ Len(edSubmitted') = n + 1
      BY <1>6, <1>8
    <3>2. AskedOver(Start, edSubmitted', 0, n + 1)
            = Folded(AskedOver(Start, edSubmitted', 0, n), edSubmitted'[n + 1])
      <4> HIDE DEF n
      <4>1. n < Len(edSubmitted')
        BY <3>1
      <4> QED
        BY <3>1, <4>1, AskedNext
    <3>3. AskedOver(Start, edSubmitted', 0, n + 1) = Folded(AskedOver(Start, all, 0, n), e)
      BY <3>2, <1>8, <1>9, <1>10
    <3>4. CASE IsShortcut(e)
      BY <3>3, <3>4, <1>6, <1>8 DEF EdAcceptable
    <3>5. CASE ~IsShortcut(e)
      <4>1. AskedOver(Start, edSubmitted', 0, n + 1) = AskedOver(Start, all, 0, n)
        BY <3>3, <3>5 DEF Folded
      <4> QED
        BY <4>1, <1>5, <1>10 DEF EdKeysAgree, all
    <3> QED
      BY <3>4, <3>5
  <2>4. \A k \in 0..Len(edSubmitted') : Unambiguous(AskedOver(Start, edSubmitted', 0, k))
    <3>1. \A k \in 0..(n + 1) : k \in 0..n \/ k = n + 1
      BY <1>6
    <3>2. \A k \in 0..n : Unambiguous(AskedOver(Start, all, 0, k))
      BY <1>5 DEF EdKeysAgree, all
    <3> QED
      BY <3>1, <3>2, <2>3, <1>8, <1>9
  <2>5. Picks(edProjected', edSubmitted', Len(edTold'))
    <3>1. Picks(edProjected, all, told) /\ edTold' = edTold
      BY <1>1, <1>5 DEF EdKeysAgree, all
    <3>2. all \in Seq(EdEdit) /\ edProjected \in Seq(EdEdit)
      BY <1>1
    <3> HIDE DEF told
    <3>3. Picks(IF IsShortcut(e) THEN Append(edProjected, e) ELSE edProjected, Append(all, e), told)
      BY <3>1, <3>2, <1>2, <1>10, PicksSubmitted
    <3> QED
      BY <3>1, <3>3, <1>8 DEF told
  <2> QED
    BY <2>1, <2>2, <2>4, <2>5 DEF EdKeysAgree
<1>12. EdNoneClaimed'
  BY <1>1, <1>3, <1>5 DEF EdNoneClaimed
<1>13. EdSlotAgrees'
  <2>1. /\ Len(edPending) > 0 /\ e = edPending[1] /\ Len(edPending') = Len(edPending) - 1
        /\ \A i \in 1..(Len(edPending) - 1) : edPending'[i] = edPending[i + 1]
        /\ Len(edPending) \in Nat /\ edPending' \in Seq(EdEdit)
    BY <1>1, Taken, LenProperties DEF e
  <2>2. \A i \in 1..(Len(edPending) - 1) : i + 1 \in 2..Len(edPending)
    BY <2>1
  <2>3. \A i \in 1..Len(edPending') : IsShortcut(edPending'[i])
    BY <2>1, <2>2, <1>5 DEF EdSlotAgrees
  <2>4. /\ \A i \in 2..Len(edPending') : i \in 1..Len(edPending')
        /\ edPending' # <<>> => 1 \in 1..Len(edPending')
    <3>1. Len(edPending') \in Nat /\ (edPending' # <<>> => Len(edPending') # 0)
      BY <2>1, LenProperties, EmptySeq
    <3> QED
      BY <3>1
  <2>5. edLive.slot = IF ~IsShortcut(e) THEN e.n ELSE SetOver(0, all, 0, n)
    BY <2>1, <1>1, <1>5 DEF EdSlotAgrees, all
  <2>6. edLive.slot = SetOver(0, edSubmitted', 0, n + 1)
    <3>1. SetOver(0, edSubmitted', 0, n + 1) = IF IsShortcut(edSubmitted'[n + 1])
                                                THEN SetOver(0, edSubmitted', 0, n)
                                                ELSE edSubmitted'[n + 1].n
      BY <1>6, SetNext
    <3> QED
      BY <3>1, <2>5, <1>8, <1>9, <1>10
  <2>7. edFile'.slot = SetOver(0, edSubmitted', 0, EdAsked')
    BY <1>1, <1>5, <1>7, <1>9, <1>10 DEF EdSlotAgrees, all
  <2>8. edLive'.slot = SetOver(0, edSubmitted', 0, Len(edSubmitted'))
    BY <2>6, <1>1, <1>8
  <2> QED
    BY <2>3, <2>4, <2>7, <2>8 DEF EdSlotAgrees
<1> QED
  BY <1>11, <1>12, <1>13

\* One pending gesture.
LEMMA AgreedRequest ==
  ASSUME EditsInv, EdAgreed, EdRequestStep
  PROVE  EdAgreed'
<1>1. CASE /\ IsShortcut(Head(edPending))
           /\ UNCHANGED <<edWake, edQueueVars, edWorker, edFaults, edSubmitted>>
  BY <1>1, AgreedRefused
<1>2. ASSUME /\ IsShortcut(Head(edPending)) => EdAcceptable(Head(edPending))
             /\ edProjected' = (IF IsShortcut(Head(edPending)) THEN Append(edProjected, Head(edPending))
                                ELSE edProjected)
             /\ edSubmitted' = Append(edSubmitted, Head(edPending)),
             NEW q \in EdPumped(Append(edStaged, Head(edPending))), EdTakeQueues(q)
      PROVE  EdAgreed'
  BY <1>2, AgreedSubmitted
<1> QED
  BY <1>1, <1>2 DEF EdRequestStep

\* A completion is routed: the run installs what the file took.
LEMMA AgreedReceived ==
  ASSUME EditsInv, EdAgreed, EdCalm, edAnswered # <<>>,
         EdTell(Head(edAnswered).e, Head(edAnswered).result), edAnswered' = Tail(edAnswered),
         edWorker' = edWorker \/ (edWorker' = "idle" /\ edWorker = "none"),
         UNCHANGED <<edPending, edCurrent, edSubmitted, edFile>>
  PROVE  EdKeysAgree' /\ EdNoneClaimed' /\ EdSlotAgrees'
<1> DEFINE e == Head(edAnswered).e
           result == Head(edAnswered).result
           all == edSubmitted
           told == Len(edTold)
<1>1. EdKeysAgree /\ EdNoneClaimed /\ EdSlotAgrees
  BY DEF EdAgreed
<1>2. /\ edTold \in Seq(EdToldOf) /\ edAnswered \in Seq(EdAnswer) /\ all \in Seq(EdEdit)
      /\ edProjected \in Seq(EdEdit) /\ edLive \in EdConfig
  BY DEF EditsInv, EdListTypes, EdFileTypes
<1>3. told < Len(all) /\ e = all[told + 1] /\ told \in Nat /\ Len(all) \in Nat
  <2>1. told \in Nat /\ told < Len(all) /\ e = all[told + 1]
    BY <1>1, InLine DEF EdNoneClaimed
  <2> QED
    BY <2>1, <1>2, LenProperties
<1>4. /\ Len(edAnswered) > 0 /\ Len(edAnswered) \in Nat /\ Head(edAnswered) = edAnswered[1]
      /\ Len(edAnswered') = Len(edAnswered) - 1 /\ Head(edAnswered) \in EdAnswer
      /\ \A i \in 1..(Len(edAnswered) - 1) : edAnswered'[i] = edAnswered[i + 1]
  BY <1>2, Taken, LenProperties
<1>5. result # "claimed" /\ e \in EdEdit /\ result \in EdResult
  <2>1. 1 \in 1..Len(edAnswered)
    BY <1>4
  <2> QED
    BY <2>1, <1>1, <1>4 DEF EdNoneClaimed, EdAnswer
<1>6. edTold' = Append(edTold, [n |-> e.n, result |-> result]) /\ edLive' = Installed(edLive, e, result)
      /\ edProjected' = Retired(e)
  BY DEF EdTell
<1> HIDE DEF e, result
<1>7. /\ Len(edTold') = told + 1 /\ \A i \in 1..told : edTold'[i] = edTold[i]
      /\ edTold'[told + 1] = [n |-> e.n, result |-> result]
  <2>1. [n |-> e.n, result |-> result] \in EdToldOf
    BY <1>5 DEF EdEdit, EdToldOf
  <2> QED
    BY <2>1, <1>2, <1>6, Put
<1>8. EdAsked' = EdAsked
  <2>1. edWorker' = "sending" <=> edWorker = "sending"
    OBVIOUS
  <2>2. \A a, b \in Nat, c \in 0..1 : b > 0 => (a + 1) + (b - 1) + c = a + b + c
    OBVIOUS
  <2>3. (IF edWorker = "sending" THEN 1 ELSE 0) \in 0..1
    OBVIOUS
  <2> QED
    BY <2>1, <2>2, <2>3, <1>3, <1>4, <1>7 DEF EdAsked
<1>9. edLive'.keys = AskedOver(Start, all, 0, told + 1) /\ edLive'.slot = edLive.slot
  <2> HIDE DEF all, told
  <2>1. AskedOver(Start, all, 0, told + 1) = Folded(AskedOver(Start, all, 0, told), all[told + 1])
    BY <1>2, <1>3, AskedNext
  <2>2. Folded(edLive.keys, e) = AskedOver(Start, all, 0, told + 1)
    BY <2>1, <1>1, <1>3 DEF EdKeysAgree, all, told
  <2>3. told + 1 \in 0..Len(all)
    BY <1>3
  <2>4. Unambiguous(Folded(edLive.keys, e))
    BY <2>2, <2>3, <1>1 DEF EdKeysAgree, all
  <2>5. edLive' = [edLive EXCEPT !.keys = Folded(edLive.keys, e)]
    BY <2>4, <1>5, <1>6 DEF Installed
  <2> QED
    BY <2>2, <2>5, <1>2 DEF EdConfig
<1>10. EdKeysAgree'
  <2>1. Picks(edProjected', edSubmitted', Len(edTold'))
    <3>1. Picks(edProjected, all, told)
      BY <1>1 DEF EdKeysAgree
    <3> HIDE DEF all, told
    <3>2. Picks(IF IsShortcut(all[told + 1]) /\ edProjected # <<>> THEN Tail(edProjected) ELSE edProjected,
                all, told + 1)
      BY <3>1, <1>2, <1>3, PicksRetired
    <3>3. edProjected' = IF IsShortcut(all[told + 1]) /\ edProjected # <<>> THEN Tail(edProjected)
                         ELSE edProjected
      BY <1>3, <1>6 DEF Retired
    <3> QED
      BY <3>2, <3>3, <1>7 DEF all
  <2>2. edLive'.keys = AskedOver(Start, edSubmitted', 0, Len(edTold'))
    BY <1>7, <1>9
  <2>3. FileAgrees(edFile', AskedOver(Start, edSubmitted', 0, EdAsked'))
    BY <1>1, <1>8 DEF EdKeysAgree
  <2>4. \A k \in 0..Len(edSubmitted') : Unambiguous(AskedOver(Start, edSubmitted', 0, k))
    BY <1>1 DEF EdKeysAgree
  <2> QED
    BY <2>1, <2>2, <2>3, <2>4 DEF EdKeysAgree
<1>11. EdNoneClaimed'
  <2>1. \A i \in 1..Len(edTold') : edTold'[i].result # "claimed"
    <3>1. \A i \in 1..(told + 1) : i \in 1..told \/ i = told + 1
      BY <1>3
    <3> QED
      BY <3>1, <1>1, <1>5, <1>7 DEF EdNoneClaimed
  <2>2. \A i \in 1..Len(edAnswered') : edAnswered'[i].result # "claimed"
    <3>1. \A i \in 1..(Len(edAnswered) - 1) : i + 1 \in 1..Len(edAnswered)
      BY <1>4
    <3> QED
      BY <3>1, <1>1, <1>4 DEF EdNoneClaimed
  <2> QED
    BY <2>1, <2>2, <1>1 DEF EdNoneClaimed
<1>12. EdSlotAgrees'
  BY <1>1, <1>8, <1>9 DEF EdSlotAgrees
<1> QED
  BY <1>10, <1>11, <1>12

\* One try_recv: without a fault there is a worker, so nothing comes back unwritten.
LEMMA AgreedTryRecv ==
  ASSUME EditsInv, EdAgreed, EdTryRecv
  PROVE  EdAgreed'
<1>1. /\ edPhase = "answers" /\ edStaged \in Seq(EdEdit)
      /\ UNCHANGED <<edPending, edCurrent, edOutside, edSubmitted, edFile>>
  BY DEF EdTryRecv, EditsInv, EdListTypes
<1>2. PICK q \in EdPumped(edStaged) :
     \/ /\ edAnswered # <<>>
        /\ EdTakeQueues([q EXCEPT !.handed = Tail(@)])
        /\ EdTell(Head(edAnswered).e, Head(edAnswered).result)
        /\ edAnswered' = Tail(edAnswered)
        /\ UNCHANGED edPhase
     \/ /\ EdSilent(q) /\ q.staged # <<>>
        /\ EdTakeQueues([q EXCEPT !.staged = Tail(@),
                                  !.running = IF @ = "none" THEN @ ELSE "closed"])
        /\ EdTell(Head(q.staged), "stopped")
        /\ UNCHANGED <<edPhase, edAnswered>>
     \/ /\ edAnswered = <<>> /\ (EdSilent(q) => q.staged = <<>>)
        /\ EdTakeQueues([q EXCEPT !.running = IF @ # "none" /\ EdSilent(q) THEN "closed" ELSE @])
        /\ edPhase' = "poll"
        /\ UNCHANGED <<edAnswered, edTold, edProjected, edLive>>
  BY DEF EdTryRecv
<1> SUFFICES ASSUME EdCalm' PROVE EdKeysAgree' /\ EdNoneClaimed' /\ EdSlotAgrees'
  BY DEF EdAgreed
<1>3. /\ Sound(q, edTold, edAnswered, edSubmitted)
      /\ q.faults = 0 /\ q.staged # <<>> => q.running # "none"
  <2>1. edPhase \notin {"wait", "gone"}
    BY <1>1
  <2> QED
    BY <2>1, Repumped
<1>4. q \in EdQ
  BY <1>3 DEF Sound, Ordered
<1>5. q.faults = edFaults' /\ q.worker = edWorker'
  BY <1>2, <1>4 DEF EdTakeQueues, EdQ
<1>6. q.faults = 0
  BY <1>5 DEF EdCalm, EdPlain
<1>7. edFaults = 0 /\ (edWorker' = edWorker \/ (edWorker' = "idle" /\ edWorker = "none"))
  BY <1>1, <1>5, <1>6, PumpCalm
<1>8. EdCalm
  BY <1>1, <1>7 DEF EdCalm, EdPlain, EdRunningPhases
<1>9. ~(EdSilent(q) /\ q.staged # <<>>)
  BY <1>1, <1>3, <1>6 DEF Sound, QLives, EdSilent
<1>10. CASE /\ edAnswered # <<>>
            /\ EdTell(Head(edAnswered).e, Head(edAnswered).result)
            /\ edAnswered' = Tail(edAnswered)
  BY <1>1, <1>7, <1>8, <1>10, AgreedReceived
<1>11. CASE UNCHANGED <<edAnswered, edTold, edProjected, edLive>>
  <2>1. EdAgreed'
    BY <1>1, <1>7, <1>8, <1>11, AgreedKept
  <2> QED
    BY <2>1 DEF EdAgreed
<1> QED
  BY <1>2, <1>9, <1>10, <1>11

\* One write of the file: it takes every edit the run let through.
LEMMA AgreedWrite ==
  ASSUME EditsInv, EdAgreed, EdWrite
  PROVE  EdAgreed'
<1> DEFINE e == edCurrent
           result == EdFileAnswer(e)
           all == edSubmitted
<1> SUFFICES ASSUME EdCalm' PROVE EdKeysAgree' /\ EdNoneClaimed' /\ EdSlotAgrees'
  BY DEF EdAgreed
<1>1. /\ edWorker = "writing" /\ edFaults \in Nat /\ edFile \in EdFileConfig /\ e \in EdEdit /\ all \in Seq(EdEdit)
      /\ UNCHANGED <<edLoopVars, edQueueVars, edAnswered, edOutside, edSubmitted, edTold>>
  BY DEF EdWrite, EditsInv, EdFlagTypes, EdFileTypes, EdInHand, EdListTypes
<1>2. UNCHANGED <<edPhase, edPending, edLive, edProjected, edAnswered, edOutside, edSubmitted, edTold>>
  BY <1>1 DEF edLoopVars, edQueueVars
<1>3. ~EdFault
  <2> SUFFICES ASSUME EdFault PROVE FALSE
    OBVIOUS
  <2>1. edFaults' = edFaults + 1 /\ edFaults' = 0
    BY DEF EdFault, EdCalm
  <2> QED
    BY <2>1, <1>1
<1>4. /\ edCurrent' = [e |-> edCurrent, result |-> result] /\ edWorker' = "sending" /\ edFaults' = edFaults
      /\ edFile' = IF result = "wrote" THEN EdPut(edFile, e) ELSE edFile
  BY <1>3 DEF EdWrite
<1>5. EdCalm
  BY <1>2, <1>4 DEF EdCalm, EdPlain
<1>6. EdKeysAgree /\ EdNoneClaimed /\ EdSlotAgrees
  BY <1>5 DEF EdAgreed
<1>7. EdAsked \in Nat /\ EdAsked < Len(all) /\ e = all[EdAsked + 1]
  BY <1>1, <1>5, <1>6, InLine DEF EdNoneClaimed
<1>8. EdAsked' = EdAsked + 1
  <2>1. Len(edTold) \in Nat /\ Len(edAnswered) \in Nat
    BY LenProperties DEF EditsInv, EdListTypes
  <2> QED
    BY <2>1, <1>1, <1>2, <1>4 DEF EdAsked
<1> HIDE DEF e, result, all
<1> DEFINE keys == AskedOver(Start, all, 0, EdAsked)
<1>9. AskedOver(Start, all, 0, EdAsked + 1) = Folded(keys, e)
  BY <1>1, <1>7, AskedNext
<1>10. /\ keys \in [Actions -> SUBSET Chords] /\ FileAgrees(edFile, keys)
       /\ Unambiguous(Folded(keys, e)) /\ Plain(e.g)
  <2>1. Len(all) \in Nat
    BY <1>1, LenProperties
  <2>2. EdAsked \in 0..Len(all) /\ EdAsked + 1 \in 1..Len(all) /\ EdAsked + 1 \in 0..Len(all)
    BY <2>1, <1>7
  <2>3. keys \in [Actions -> SUBSET Chords]
    BY <2>2, <1>1, AskedType
  <2> QED
    BY <2>2, <2>3, <1>5, <1>6, <1>7, <1>9 DEF EdKeysAgree, EdCalm, EdPlain, all
<1> HIDE DEF keys
<1>11. IsShortcut(e) => /\ Unclaimed(Resolved(edFile), e.g.action, e.g.to)
                        /\ FileAgrees(EdPut(edFile, e), Folded(keys, e))
                        /\ Resolved(edFile)[e.g.action] = e.g.to => FileAgrees(edFile, Folded(keys, e))
  BY <1>1, <1>10, FileTakes
<1>12. result # "claimed"
  BY <1>11 DEF EdFileAnswer, result
<1>13. /\ FileAgrees(edFile', Folded(keys, e))
       /\ edFile'.slot = IF IsShortcut(e) THEN edFile.slot ELSE e.n
  <2>1. CASE IsShortcut(e) /\ result = "wrote"
    <3>1. edFile' = EdPut(edFile, e)
      BY <2>1, <1>4
    <3>2. EdPut(edFile, e).slot = edFile.slot
      BY <2>1, <1>1 DEF EdPut, EdFileConfig
    <3> QED
      BY <3>1, <3>2, <2>1, <1>11
  <2>2. CASE IsShortcut(e) /\ result # "wrote"
    <3>1. Resolved(edFile)[e.g.action] = e.g.to
      BY <2>2, <1>12 DEF EdFileAnswer, result
    <3> QED
      BY <3>1, <2>2, <1>4, <1>11
  <2>3. CASE ~IsShortcut(e)
    <3>1. result = "wrote"
      BY <2>3 DEF EdFileAnswer, result
    <3>2. edFile' = [edFile EXCEPT !.slot = e.n]
      BY <3>1, <2>3, <1>4 DEF EdPut
    <3>3. edFile'.keys = edFile.keys /\ edFile'.authored = edFile.authored /\ edFile'.slot = e.n
      BY <3>2, <1>1 DEF EdFileConfig
    <3>4. Resolved(edFile') = Resolved(edFile)
      BY <3>3 DEF Resolved, Ahead
    <3>5. Folded(keys, e) = keys
      BY <2>3 DEF Folded
    <3> QED
      BY <3>3, <3>4, <3>5, <2>3, <1>10 DEF FileAgrees
  <2> QED
    BY <2>1, <2>2, <2>3
<1>14. EdKeysAgree'
  <2>1. FileAgrees(edFile', AskedOver(Start, edSubmitted', 0, EdAsked'))
    BY <1>2, <1>8, <1>9, <1>13 DEF all
  <2> QED
    BY <2>1, <1>2, <1>6 DEF EdKeysAgree
<1>15. EdNoneClaimed'
  <2>1. edCurrent'.result = result
    BY <1>4
  <2> QED
    BY <2>1, <1>2, <1>4, <1>6, <1>12 DEF EdNoneClaimed
<1>16. EdSlotAgrees'
  <2>1. SetOver(0, all, 0, EdAsked + 1) = IF IsShortcut(all[EdAsked + 1]) THEN SetOver(0, all, 0, EdAsked)
                                          ELSE all[EdAsked + 1].n
    BY <1>7, SetNext
  <2>2. edFile'.slot = SetOver(0, edSubmitted', 0, EdAsked')
    BY <2>1, <1>2, <1>6, <1>7, <1>8, <1>13 DEF EdSlotAgrees, all
  <2> QED
    BY <2>2, <1>2, <1>6 DEF EdSlotAgrees
<1> QED
  BY <1>14, <1>15, <1>16

\* A completion is sent.
LEMMA AgreedSend ==
  ASSUME EditsInv, EdAgreed, EdSend
  PROVE  EdAgreed'
<1> SUFFICES ASSUME EdCalm' PROVE EdKeysAgree' /\ EdNoneClaimed' /\ EdSlotAgrees'
  BY DEF EdAgreed
<1>1. /\ edWorker = "sending" /\ edWorker' = "idle" /\ edCurrent \in EdAnswer
      /\ edAnswered \in Seq(EdAnswer) /\ edTold \in Seq(EdToldOf)
      /\ UNCHANGED <<edPhase, edPending, edLive, edQueueVars, edBoundVars, edHistoryVars, edFile>>
  BY DEF EdSend, EditsInv, EdInHand, EdListTypes
<1>2. UNCHANGED <<edTold, edSubmitted, edProjected, edFaults, edOutside>>
  BY <1>1 DEF edQueueVars, edBoundVars, edHistoryVars
<1>3. EdCalm
  BY <1>1, <1>2 DEF EdCalm, EdPlain
<1>4. EdKeysAgree /\ EdNoneClaimed /\ EdSlotAgrees
  BY <1>3 DEF EdAgreed
<1>5. edAnswered' = Append(edAnswered, edCurrent)
  BY <1>3 DEF EdSend, EdCalm, EdRunningPhases
<1>6. /\ Len(edAnswered) \in Nat /\ Len(edTold) \in Nat /\ Len(edAnswered') = Len(edAnswered) + 1
      /\ \A i \in 1..Len(edAnswered) : edAnswered'[i] = edAnswered[i]
      /\ edAnswered'[Len(edAnswered) + 1] = edCurrent
  BY <1>1, <1>5, Put, LenProperties
<1>7. EdAsked' = EdAsked
  BY <1>1, <1>2, <1>6 DEF EdAsked
<1>8. EdKeysAgree'
  BY <1>1, <1>2, <1>4, <1>7 DEF EdKeysAgree
<1>9. EdNoneClaimed'
  <2>1. \A i \in 1..(Len(edAnswered) + 1) : i \in 1..Len(edAnswered) \/ i = Len(edAnswered) + 1
    BY <1>6
  <2>2. \A i \in 1..Len(edAnswered') : edAnswered'[i].result # "claimed"
    BY <2>1, <1>1, <1>4, <1>6 DEF EdNoneClaimed
  <2> QED
    BY <2>2, <1>1, <1>2, <1>4 DEF EdNoneClaimed
<1>10. EdSlotAgrees'
  BY <1>1, <1>2, <1>4, <1>7 DEF EdSlotAgrees
<1> QED
  BY <1>8, <1>9, <1>10

\* Every step keeps the run and the file agreed.
LEMMA AgreedStep == EditsInv /\ EdAgreed /\ [EditsNext]_edVars => EdAgreed'
<1> SUFFICES ASSUME EditsInv, EdAgreed, [EditsNext]_edVars PROVE EdAgreed'
  OBVIOUS
<1>1. CASE EdWoken \/ EdPass \/ EdRequestsDone
  <2>1. /\ UNCHANGED <<edLive, edQueueVars, edThreadVars, edBoundVars, edHistoryVars, edFile>>
        /\ edPending' = edPending
        /\ edPhase' \in EdRunningPhases => edPhase \in EdRunningPhases
    BY <1>1 DEF EdWoken, EdPass, EdRequestsDone, EdRunningPhases
  <2>2. UNCHANGED <<edTold, edAnswered, edSubmitted, edProjected, edWorker, edCurrent, edFaults, edOutside>>
    BY <2>1 DEF edQueueVars, edThreadVars, edBoundVars, edHistoryVars
  <2>3. EdCalm' => EdCalm
    BY <2>1, <2>2 DEF EdCalm, EdPlain
  <2> QED
    BY <2>1, <2>2, <2>3, AgreedKept
<1>2. CASE EdQuit \/ EdHandOver \/ EdAwait \/ EdDeadline \/ EdExit \/ EdOutsideEdit
  <2>1. CASE EdOutsideEdit
    <3>1. edOutside' = edOutside + 1 /\ edOutside \in Nat
      BY <2>1 DEF EdOutsideEdit, EditsInv, EdFlagTypes
    <3>2. edOutside' # 0
      BY <3>1
    <3> QED
      BY <3>2 DEF EdAgreed, EdCalm
  <2>2. CASE EdQuit \/ EdHandOver \/ EdAwait \/ EdDeadline \/ EdExit
    <3>1. edPhase' \in {"quitting", "handover", "wait", "gone"}
      <4>1. CASE EdHandOver
        BY <4>1 DEF EdHandOver, EdAccount
      <4>2. CASE EdAwait
        BY <4>2 DEF EdAwait, EdAccount
      <4>3. CASE EdQuit \/ EdDeadline \/ EdExit
        BY <4>3 DEF EdQuit, EdDeadline, EdExit, edLoopVars
      <4> QED
        BY <2>2, <4>1, <4>2, <4>3
    <3> QED
      BY <3>1 DEF EdAgreed, EdCalm, EdRunningPhases
  <2> QED
    BY <1>2, <2>1, <2>2
<1>3. CASE EdReceive \/ EdFinish
  <2>1. /\ UNCHANGED <<edLoopVars, edProjected, edAnswered, edBoundVars, edHistoryVars, edFile>>
        /\ edWorker = "idle" /\ edWorker' \in {"writing", "ended"}
    BY <1>3 DEF EdReceive, EdFinish, edQueueVars
  <2>2. /\ UNCHANGED <<edTold, edSubmitted, edLive, edPending, edFaults, edOutside, edPhase>>
        /\ edWorker' # "sending" /\ edWorker # "sending" /\ edWorker' # "stuck"
    BY <2>1 DEF edLoopVars, edBoundVars, edHistoryVars
  <2>3. EdCalm' => EdCalm
    BY <2>2 DEF EdCalm, EdPlain
  <2> QED
    BY <2>1, <2>2, <2>3, AgreedKept
<1>4. CASE UNCHANGED edVars
  <2>1. UNCHANGED <<edPhase, edPending, edLive, edProjected, edAnswered, edWorker, edCurrent, edFaults,
                    edOutside, edSubmitted, edTold, edFile>>
    BY <1>4 DEF edVars, edLoopVars, edQueueVars, edThreadVars, edBoundVars, edHistoryVars
  <2>2. EdCalm' => EdCalm
    BY <2>1 DEF EdCalm, EdPlain
  <2> QED
    BY <2>1, <2>2, AgreedKept
<1>5. CASE EdRequestStep
  BY <1>5, AgreedRequest
<1>6. CASE EdTryRecv
  BY <1>6, AgreedTryRecv
<1>7. CASE EdWrite
  BY <1>7, AgreedWrite
<1>8. CASE EdSend
  BY <1>8, AgreedSend
<1>9. CASE \E g \in Gestures : EdGesture(g)
  BY <1>9, AgreedGesture
<1> QED
  BY <1>1, <1>2, <1>3, <1>4, <1>5, <1>6, <1>7, <1>8, <1>9 DEF EditsNext, EditsLoop, EditsThread

\* While nothing fails, nobody else writes the file and no edit asks for a contested chord,
\* a shortcut is checked against the keymap the file will be read as once every accepted
\* edit is written, but for contested chords that came back to it; the file refuses none of
\* the accepted edits, and the slot shown is the one it will have (EdAcceptable,
\* install_keybinding_edit, retire_projection, write_edit, validate_keybindings).
THEOREM EditsForeseen == EditsSpec => []EditsForesee
<1>1. EditsInit => EditsInv /\ EdAgreed
  BY InitInv, AgreedInit
<1>2. EditsInv /\ EdAgreed /\ [EditsNext]_edVars => (EditsInv /\ EdAgreed)'
  BY EditsStep, AgreedStep
<1>3. EditsInv /\ EdAgreed => EditsForesee
  BY AgreedForesees
<1> QED
  BY <1>1, <1>2, <1>3, PTL DEF EditsSpec
=============================================================================
