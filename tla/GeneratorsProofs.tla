-------------------------- MODULE GeneratorsProofs --------------------------
(***************************************************************************)
(* Theorems about Generators, for every set of coroutines, every way they  *)
(* drive each other and every depth of tries.                              *)
(***************************************************************************)
EXTENDS Generators, WellFoundedInduction, FiniteSetTheorems, SequenceTheorems, TLAPS

---------------------------------------------------------------------------
(* Numbers and sequences                                                   *)

LEMMA NatMin ==
  ASSUME NEW S \in SUBSET Nat, S # {}
  PROVE  \E x \in S : \A y \in S : x <= y
<1>1. PICK x \in S : \A y \in S : ~(<<y, x>> \in OpToRel(<, Nat))
  <2>1. IsWellFoundedOn(OpToRel(<, Nat), Nat)
    BY NatLessThanWellFounded
  <2> HIDE DEF OpToRel
  <2> QED BY <2>1, WFMin
<1>2. \A y \in S : ~(y < x)
  BY <1>1 DEF OpToRel
<1>3. x \in Nat /\ \A y \in S : y \in Nat
  OBVIOUS
<1> QED BY <1>2, <1>3

(* The maximum of a set of numbers under a bound.                          *)
LEMMA MaxIs ==
  ASSUME NEW n \in Nat, NEW S \in SUBSET (0 .. n), S # {}
  PROVE  Max(S) \in S /\ \A k \in S : k <= Max(S)
<1> DEFINE D == {n - k : k \in S}
<1>1. D \in SUBSET Nat /\ D # {}
  <2>1. \A k \in S : n - k \in Nat
    OBVIOUS
  <2> QED BY <2>1
<1>2. PICK d \in D : \A e \in D : d <= e
  BY <1>1, NatMin
<1>3. PICK j \in S : d = n - j
  OBVIOUS
<1>4. \A k \in S : j >= k
  <2> TAKE k \in S
  <2>1. d <= n - k
    BY <1>2
  <2> QED BY <2>1, <1>3
<1>5. \E x \in S : \A y \in S : x >= y
  BY <1>4
<1> QED BY <1>5 DEF Max

LEMMA MaxOf ==
  ASSUME NEW S \in SUBSET Int, NEW x \in S, \A y \in S : y <= x
  PROVE  Max(S) = x
<1>1. \A y \in S : x >= y
  OBVIOUS
<1>2. Max(S) \in S /\ \A y \in S : Max(S) >= y
  BY <1>1 DEF Max
<1>3. PICK m \in S : m = Max(S)
  BY <1>2
<1>4. m >= x /\ x >= m /\ m \in Int /\ x \in Int
  BY <1>1, <1>2, <1>3
<1>5. m = x
  BY <1>4
<1> QED BY <1>3, <1>5

LEMMA AppendIs ==
  ASSUME NEW T, NEW s \in Seq(T), NEW e \in T
  PROVE  /\ Append(s, e) \in Seq(T) /\ Len(Append(s, e)) = Len(s) + 1
         /\ \A i \in 1 .. Len(s) : Append(s, e)[i] = s[i]
         /\ Append(s, e)[Len(s) + 1] = e
OBVIOUS

LEMMA ConcatIs ==
  ASSUME NEW T, NEW s \in Seq(T), NEW t \in Seq(T)
  PROVE  /\ s \o t \in Seq(T) /\ Len(s \o t) = Len(s) + Len(t)
         /\ \A i \in 1 .. Len(s) : (s \o t)[i] = s[i]
         /\ \A i \in 1 .. Len(t) : (s \o t)[Len(s) + i] = t[i]
OBVIOUS

(* The first n of a sequence.                                              *)
LEMMA PrefixIs ==
  ASSUME NEW T, NEW s \in Seq(T), NEW n \in 0 .. Len(s)
  PROVE  /\ SubSeq(s, 1, n) \in Seq(T) /\ Len(SubSeq(s, 1, n)) = n
         /\ \A i \in 1 .. n : SubSeq(s, 1, n)[i] = s[i]
BY SubSeqProperties

LEMMA FrontIs ==
  ASSUME NEW T, NEW s \in Seq(T), s # << >>
  PROVE  /\ Front(s) \in Seq(T) /\ Len(Front(s)) = Len(s) - 1 /\ Len(s) > 0
         /\ \A i \in 1 .. Len(s) - 1 : Front(s)[i] = s[i]
         /\ Front(s) = SubSeq(s, 1, Len(s) - 1)
<1>1. Len(s) - 1 \in 0 .. Len(s) /\ Len(s) > 0
  OBVIOUS
<1> QED BY <1>1, PrefixIs DEF Front

(* Those over the n-th.                                                    *)
LEMMA AboveIs ==
  ASSUME NEW T, NEW s \in Seq(T), NEW n \in 0 .. Len(s)
  PROVE  /\ Above(s, n) \in Seq(T) /\ Len(Above(s, n)) = Len(s) - n
         /\ \A i \in 1 .. Len(s) - n : Above(s, n)[i] = s[n + i]
<1>1. n + 1 \in 1 .. Len(s) + 1 /\ Len(s) \in (n + 1) - 1 .. Len(s)
  OBVIOUS
<1>2. /\ SubSeq(s, n + 1, Len(s)) \in Seq(T)
      /\ Len(SubSeq(s, n + 1, Len(s))) = Len(s) - n
      /\ \A i \in 1 .. Len(s) - n : SubSeq(s, n + 1, Len(s))[i] = s[n + i]
  BY <1>1, SubSeqProperties
<1> QED BY <1>2 DEF Above

LEMMA CutIs ==
  ASSUME NEW T, NEW s \in Seq(T), NEW n \in 0 .. Len(s)
  PROVE  /\ Cut(s, n) \in Seq(T) /\ Len(Cut(s, n)) = n
         /\ \A i \in 1 .. n : Cut(s, n)[i] = s[i]
<1>1. Cut(s, n) = SubSeq(s, 1, n)
  BY DEF Cut
<1> QED BY <1>1, PrefixIs

(* The same position with its innermost try in another region.             *)
LEMMA AtIs ==
  ASSUME NEW path \in Seq(Region), path # << >>, NEW r \in {"try", "catch", "finally"}
  PROVE  /\ At(path, r) \in Seq(Region) /\ Len(At(path, r)) = Len(path)
         /\ \A i \in 1 .. Len(path) - 1 : At(path, r)[i] = path[i]
         /\ At(path, r)[Len(path)].kind = path[Len(path)].kind
         /\ At(path, r)[Len(path)].at = r
<1> DEFINE n == Len(path)
           x == [path[n] EXCEPT !.at = r]
<1>1. n \in 1 .. Len(path) /\ path[n] \in Region
  OBVIOUS
<1>2. x \in Region /\ x.kind = path[n].kind /\ x.at = r
  BY <1>1 DEF Region
<1>3. At(path, r) = [path EXCEPT ![n] = x]
  BY DEF At
<1> HIDE DEF x
<1> QED BY <1>1, <1>2, <1>3

---------------------------------------------------------------------------
(* Slices                                                                  *)

(* The tries of a position that have a handler open, and those that have   *)
(* an action pending, from the w-th on.                                    *)
Asks(path) == {k \in DOMAIN path : path[k].at # "finally"}
Waits(path) == {k \in DOMAIN path : path[k].at = "finally"}
Wanted(kind, path, w) ==
  {k \in IF kind = "exc" THEN Asks(path) ELSE Waits(path) : k >= w}

(* What an entry of one of the two stacks says of its try.  The action of  *)
(* the w-th itself is a return: the tries below it had theirs left behind. *)
Right(kind, e, path, w) ==
  IF kind = "exc"
  THEN /\ e.path = At(SubSeq(path, 1, Len(e.path)), "try")
       /\ e.inCatch = (path[Len(e.path)].at = "catch")
  ELSE /\ e.path = SubSeq(path, 1, Len(e.path))
       /\ Len(e.path) = w => e.kind = "return"

(* The entries of s above the lo-th up to the hi-th are b's, one for each  *)
(* number of K, in order.                                                  *)
Listed(s, lo, hi, b, K) ==
  /\ lo \in Nat /\ hi \in Nat /\ lo <= hi /\ hi <= Len(s)
  /\ \A i \in lo + 1 .. hi : s[i].owner = b /\ Len(s[i].path) \in K
  /\ \A k \in K : \E i \in lo + 1 .. hi : Len(s[i].path) = k
  /\ \A i, j \in lo + 1 .. hi : i < j => Len(s[i].path) < Len(s[j].path)

Slice(kind, s, lo, hi, b, path, w) ==
  /\ Listed(s, lo, hi, b, Wanted(kind, path, w))
  /\ \A i \in lo + 1 .. hi : Right(kind, s[i], path, w)

LEMMA WantedIn ==
  ASSUME NEW kind, NEW w, NEW path \in Seq(Region)
  PROVE  Wanted(kind, path, w) \in SUBSET (1 .. Len(path))
BY DEF Wanted, Asks, Waits

LEMMA SliceBounds ==
  ASSUME NEW kind, NEW w, NEW s, NEW lo, NEW hi, NEW b, NEW path, Slice(kind, s, lo, hi, b, path, w)
  PROVE  lo \in Nat /\ hi \in Nat /\ lo <= hi /\ hi <= Len(s)
BY DEF Slice, Listed

(* The same entries elsewhere, or in another sequence.                     *)
LEMMA SliceMoves ==
  ASSUME NEW kind, NEW w, NEW s, NEW lo, NEW hi, NEW b, NEW path, Slice(kind, s, lo, hi, b, path, w),
         NEW t, NEW from \in Nat, NEW to \in Nat, to - from = hi - lo, to <= Len(t),
         \A i \in 1 .. hi - lo : t[from + i] = s[lo + i]
  PROVE  Slice(kind, t, from, to, b, path, w)
<1> DEFINE K == Wanted(kind, path, w)
<1>1. lo \in Nat /\ hi \in Nat /\ lo <= hi
  BY SliceBounds
<1>2. /\ \A i \in lo + 1 .. hi : s[i].owner = b /\ Len(s[i].path) \in K
      /\ \A k \in K : \E i \in lo + 1 .. hi : Len(s[i].path) = k
      /\ \A i, j \in lo + 1 .. hi : i < j => Len(s[i].path) < Len(s[j].path)
      /\ \A i \in lo + 1 .. hi : Right(kind, s[i], path, w)
  BY DEF Slice, Listed
<1> HIDE DEF K
<1>3. \A i \in from + 1 .. to : i - from + lo \in lo + 1 .. hi /\ t[i] = s[i - from + lo]
  <2> TAKE i \in from + 1 .. to
  <2>1. i - from \in 1 .. hi - lo
    BY <1>1
  <2>2. t[from + (i - from)] = s[lo + (i - from)]
    BY <2>1
  <2>3. from + (i - from) = i /\ lo + (i - from) = i - from + lo
    BY <1>1
  <2> QED BY <1>1, <2>1, <2>2, <2>3
<1>4. \A j \in lo + 1 .. hi : j - lo + from \in from + 1 .. to /\ t[j - lo + from] = s[j]
  <2> TAKE j \in lo + 1 .. hi
  <2>1. j - lo \in 1 .. hi - lo
    BY <1>1
  <2>2. t[from + (j - lo)] = s[lo + (j - lo)]
    BY <2>1
  <2>3. from + (j - lo) = j - lo + from /\ lo + (j - lo) = j
    BY <1>1
  <2> QED BY <1>1, <2>1, <2>2, <2>3
<1>5. from <= to
  BY <1>1
<1>6. \A i \in from + 1 .. to : t[i].owner = b /\ Len(t[i].path) \in K /\ Right(kind, t[i], path, w)
  BY <1>2, <1>3
<1>7. \A k \in K : \E i \in from + 1 .. to : Len(t[i].path) = k
  <2> TAKE k \in K
  <2>1. PICK j \in lo + 1 .. hi : Len(s[j].path) = k
    BY <1>2
  <2> QED BY <1>4, <2>1
<1>8. ASSUME NEW i \in from + 1 .. to, NEW j \in from + 1 .. to, i < j
      PROVE  Len(t[i].path) < Len(t[j].path)
  <2>1. i - from + lo < j - from + lo
    BY <1>1, <1>8
  <2> QED BY <1>2, <1>3, <2>1
<1> QED BY <1>5, <1>6, <1>7, <1>8 DEF Slice, Listed, K

LEMMA SliceSame ==
  ASSUME NEW kind, NEW w, NEW s, NEW lo, NEW hi, NEW b, NEW path, Slice(kind, s, lo, hi, b, path, w),
         NEW t, hi <= Len(t), \A i \in lo + 1 .. hi : t[i] = s[i]
  PROVE  Slice(kind, t, lo, hi, b, path, w)
BY DEF Slice, Listed

(* The position changes above its m-th try, and the entries above that     *)
(* are no longer part of the slice.                                        *)
LEMMA SliceRewrites ==
  ASSUME NEW kind \in {"exc", "fin"}, NEW w, NEW s, NEW lo, NEW hi, NEW b,
         NEW p \in Seq(Region), NEW q \in Seq(Region),
         Slice(kind, s, lo, hi, b, p, w),
         NEW m \in Nat, m <= Len(p), m <= Len(q), \A k \in 1 .. m : q[k] = p[k],
         NEW up \in lo .. hi,
         \A i \in lo + 1 .. up : Len(s[i].path) <= m,
         \A i \in up + 1 .. hi : Len(s[i].path) > m,
         \A k \in Wanted(kind, q, w) : k <= m
  PROVE  Slice(kind, s, lo, up, b, q, w)
<1>1. lo \in Nat /\ hi \in Nat /\ up \in Nat /\ lo <= up /\ up <= hi /\ hi <= Len(s)
  BY SliceBounds
<1>2. /\ \A i \in lo + 1 .. hi : s[i].owner = b /\ Len(s[i].path) \in Wanted(kind, p, w)
      /\ \A k \in Wanted(kind, p, w) : \E i \in lo + 1 .. hi : Len(s[i].path) = k
      /\ \A i, j \in lo + 1 .. hi : i < j => Len(s[i].path) < Len(s[j].path)
      /\ \A i \in lo + 1 .. hi : Right(kind, s[i], p, w)
  BY DEF Slice, Listed
<1>3. \A i \in lo + 1 .. up : i \in lo + 1 .. hi /\ Len(s[i].path) \in 1 .. m
  <2> TAKE i \in lo + 1 .. up
  <2>1. i \in lo + 1 .. hi
    BY <1>1
  <2>2. Len(s[i].path) \in 1 .. Len(p)
    BY <1>2, <2>1, WantedIn
  <2> QED BY <2>1, <2>2
<1>4. \A k \in 1 .. m : k \in Wanted(kind, p, w) <=> k \in Wanted(kind, q, w)
  BY DEF Wanted, Asks, Waits
<1>5. \A i \in lo + 1 .. up : s[i].owner = b /\ Len(s[i].path) \in Wanted(kind, q, w)
  BY <1>2, <1>3, <1>4
<1>6. \A k \in Wanted(kind, q, w) : \E i \in lo + 1 .. up : Len(s[i].path) = k
  <2> TAKE k \in Wanted(kind, q, w)
  <2>1. k \in 1 .. m
    BY WantedIn
  <2>2. PICK i \in lo + 1 .. hi : Len(s[i].path) = k
    BY <1>2, <1>4, <2>1
  <2>3. i \notin up + 1 .. hi
    BY <2>1, <2>2
  <2>4. i \in lo + 1 .. up
    BY <1>1, <2>3
  <2> QED BY <2>2, <2>4
<1>7. \A k \in 1 .. m : SubSeq(q, 1, k) = SubSeq(p, 1, k)
  <2> TAKE k \in 1 .. m
  <2>1. k \in 0 .. Len(p) /\ k \in 0 .. Len(q)
    OBVIOUS
  <2>2. /\ SubSeq(p, 1, k) \in Seq(Region) /\ Len(SubSeq(p, 1, k)) = k
        /\ \A i \in 1 .. k : SubSeq(p, 1, k)[i] = p[i]
    BY <2>1, PrefixIs
  <2>3. /\ SubSeq(q, 1, k) \in Seq(Region) /\ Len(SubSeq(q, 1, k)) = k
        /\ \A i \in 1 .. k : SubSeq(q, 1, k)[i] = q[i]
    BY <2>1, PrefixIs
  <2>4. \A i \in 1 .. k : q[i] = p[i]
    OBVIOUS
  <2> QED BY <2>2, <2>3, <2>4
<1>8. \A i \in lo + 1 .. up : Right(kind, s[i], q, w)
  <2> TAKE i \in lo + 1 .. up
  <2>1. Right(kind, s[i], p, w) /\ Len(s[i].path) \in 1 .. m
    BY <1>2, <1>3
  <2>2. SubSeq(q, 1, Len(s[i].path)) = SubSeq(p, 1, Len(s[i].path))
    BY <1>7, <2>1
  <2>3. q[Len(s[i].path)] = p[Len(s[i].path)]
    BY <2>1
  <2> QED BY <2>1, <2>2, <2>3 DEF Right
<1>9. \A i, j \in lo + 1 .. up : i < j => Len(s[i].path) < Len(s[j].path)
  BY <1>2, <1>3
<1> QED BY <1>1, <1>5, <1>6, <1>8, <1>9 DEF Slice, Listed

(* An entry for the innermost try of the position is put on top.           *)
LEMMA SlicePushes ==
  ASSUME NEW kind \in {"exc", "fin"}, NEW w, NEW T, NEW s \in Seq(T), NEW lo, NEW b,
         NEW p \in Seq(Region), NEW q \in Seq(Region), NEW e \in T,
         Slice(kind, s, lo, Len(s), b, p, w),
         q # << >>, Len(q) - 1 <= Len(p), \A k \in 1 .. Len(q) - 1 : q[k] = p[k],
         \A k \in Wanted(kind, p, w) : k < Len(q), Len(q) \in Wanted(kind, q, w),
         e.owner = b, Len(e.path) = Len(q), Right(kind, e, q, w)
  PROVE  Slice(kind, Append(s, e), lo, Len(s) + 1, b, q, w)
<1> DEFINE n == Len(q)
           t == Append(s, e)
           f == Front(q)
<1>1. /\ n \in Nat /\ n > 0 /\ f \in Seq(Region) /\ Len(f) = n - 1
      /\ \A k \in 1 .. n - 1 : f[k] = q[k]
  BY FrontIs
<1>2. /\ Len(s) \in Nat /\ lo \in Nat /\ lo <= Len(s)
      /\ \A i \in lo + 1 .. Len(s) : s[i].owner = b /\ Len(s[i].path) \in Wanted(kind, p, w)
      /\ \A i \in lo + 1 .. Len(s) : Len(s[i].path) <= n - 1
      /\ \A i \in Len(s) + 1 .. Len(s) : Len(s[i].path) > n - 1
  <2>1. Len(s) \in Nat /\ lo \in Nat /\ lo <= Len(s)
    BY SliceBounds
  <2>2. \A i \in lo + 1 .. Len(s) : s[i].owner = b /\ Len(s[i].path) \in Wanted(kind, p, w)
    BY DEF Slice, Listed
  <2>3. \A k \in Wanted(kind, p, w) : k \in Int /\ k <= n - 1
    BY <1>1, WantedIn
  <2> QED BY <2>1, <2>2, <2>3
<1>3. /\ t \in Seq(T) /\ Len(t) = Len(s) + 1 /\ t[Len(s) + 1] = e
      /\ \A i \in 1 .. Len(s) : t[i] = s[i]
  BY AppendIs
<1> HIDE DEF t, f, n
<1>4. \A k \in Wanted(kind, f, w) : k <= n - 1
  BY <1>1, WantedIn
<1>5. Slice(kind, s, lo, Len(s), b, f, w)
  <2>1. n - 1 \in Nat /\ n - 1 <= Len(p) /\ n - 1 <= Len(f)
    BY <1>1 DEF n
  <2>2. \A k \in 1 .. n - 1 : f[k] = p[k]
    BY <1>1 DEF n
  <2>3. Len(s) \in lo .. Len(s)
    BY <1>2
  <2> QED BY <1>1, <1>2, <1>4, <2>1, <2>2, <2>3, SliceRewrites
<1>6. \A k : k \in Wanted(kind, q, w) <=> k \in Wanted(kind, f, w) \/ k = n
  <2>1. DOMAIN q = 1 .. n /\ DOMAIN f = 1 .. n - 1
    BY <1>1 DEF n
  <2>2. \A k : k \in 1 .. n <=> k \in 1 .. n - 1 \/ k = n
    BY <1>1
  <2>3. \A k : k # n => (k \in Wanted(kind, q, w) <=> k \in Wanted(kind, f, w))
    BY <1>1, <2>1, <2>2 DEF Wanted, Asks, Waits
  <2> QED BY <2>3 DEF n
<1>7. /\ \A i \in lo + 1 .. Len(s) : s[i].owner = b /\ Len(s[i].path) \in Wanted(kind, f, w)
      /\ \A k \in Wanted(kind, f, w) : \E i \in lo + 1 .. Len(s) : Len(s[i].path) = k
      /\ \A i, j \in lo + 1 .. Len(s) : i < j => Len(s[i].path) < Len(s[j].path)
      /\ \A i \in lo + 1 .. Len(s) : Right(kind, s[i], f, w)
  BY <1>5 DEF Slice, Listed
<1>8. \A i \in lo + 1 .. Len(s) + 1 :
        \/ i \in lo + 1 .. Len(s) /\ t[i] = s[i] /\ Len(s[i].path) \in 1 .. n - 1
        \/ i = Len(s) + 1 /\ t[i] = e
  <2> TAKE i \in lo + 1 .. Len(s) + 1
  <2>1. CASE i = Len(s) + 1
    BY <1>3, <2>1
  <2>2. CASE i # Len(s) + 1
    <3>1. i \in lo + 1 .. Len(s) /\ i \in 1 .. Len(s)
      BY <1>2, <2>2
    <3>2. Len(s[i].path) \in 1 .. n - 1
      BY <1>1, <1>7, <3>1, WantedIn
    <3> QED BY <1>3, <3>1, <3>2
  <2> QED BY <2>1, <2>2
<1>9. \A k \in 1 .. n - 1 : SubSeq(q, 1, k) = SubSeq(f, 1, k) /\ q[k] = f[k]
  <2> TAKE k \in 1 .. n - 1
  <2>1. k \in 0 .. Len(f) /\ k \in 0 .. Len(q)
    BY <1>1 DEF n
  <2>2. /\ SubSeq(f, 1, k) \in Seq(Region) /\ Len(SubSeq(f, 1, k)) = k
        /\ \A i \in 1 .. k : SubSeq(f, 1, k)[i] = f[i]
    BY <1>1, <2>1, PrefixIs
  <2>3. /\ SubSeq(q, 1, k) \in Seq(Region) /\ Len(SubSeq(q, 1, k)) = k
        /\ \A i \in 1 .. k : SubSeq(q, 1, k)[i] = q[i]
    BY <2>1, PrefixIs
  <2>4. \A i \in 1 .. k : f[i] = q[i]
    BY <1>1
  <2>5. SubSeq(q, 1, k) = SubSeq(f, 1, k)
    BY <2>2, <2>3, <2>4
  <2> QED BY <1>1, <2>5
<1>10. \A i \in lo + 1 .. Len(s) : Len(s[i].path) \in 1 .. n - 1 => Right(kind, s[i], q, w)
  <2> TAKE i \in lo + 1 .. Len(s)
  <2> HAVE Len(s[i].path) \in 1 .. n - 1
  <2>1. Right(kind, s[i], f, w)
    BY <1>7
  <2> QED BY <1>9, <2>1 DEF Right
<1>11. \A i \in lo + 1 .. Len(s) + 1 :
         t[i].owner = b /\ Len(t[i].path) \in Wanted(kind, q, w) /\ Right(kind, t[i], q, w)
  <2> TAKE i \in lo + 1 .. Len(s) + 1
  <2>1. CASE i = Len(s) + 1 /\ t[i] = e
    BY <2>1
  <2>2. CASE i \in lo + 1 .. Len(s) /\ t[i] = s[i] /\ Len(s[i].path) \in 1 .. n - 1
    BY <1>6, <1>7, <1>10, <2>2
  <2> QED BY <1>8, <2>1, <2>2
<1>12. \A k \in Wanted(kind, q, w) : \E i \in lo + 1 .. Len(s) + 1 : Len(t[i].path) = k
  <2> TAKE k \in Wanted(kind, q, w)
  <2>1. CASE k = n
    <3>1. Len(s) + 1 \in lo + 1 .. Len(s) + 1
      BY <1>2
    <3> QED BY <1>3, <2>1, <3>1 DEF n
  <2>2. CASE k \in Wanted(kind, f, w)
    <3>1. PICK i \in lo + 1 .. Len(s) : Len(s[i].path) = k
      BY <1>7, <2>2
    <3>2. i \in lo + 1 .. Len(s) + 1 /\ i \in 1 .. Len(s)
      BY <1>2
    <3> QED BY <1>3, <3>1, <3>2
  <2> QED BY <1>6, <2>1, <2>2
<1>13. ASSUME NEW i \in lo + 1 .. Len(s) + 1, NEW j \in lo + 1 .. Len(s) + 1, i < j
       PROVE  Len(t[i].path) < Len(t[j].path)
  <2>1. i \in lo + 1 .. Len(s) /\ t[i] = s[i] /\ Len(s[i].path) \in 1 .. n - 1
    <3>1. i # Len(s) + 1
      BY <1>2, <1>13
    <3> QED BY <1>8, <3>1
  <2>2. CASE j = Len(s) + 1 /\ t[j] = e
    BY <1>1, <2>1, <2>2 DEF n
  <2>3. CASE j \in lo + 1 .. Len(s) /\ t[j] = s[j]
    BY <1>7, <1>13, <2>1, <2>3
  <2> QED BY <1>8, <2>2, <2>3
<1>14. lo \in Nat /\ Len(s) + 1 \in Nat /\ lo <= Len(s) + 1 /\ Len(s) + 1 <= Len(t)
  BY <1>2, <1>3
<1> QED BY <1>11, <1>12, <1>13, <1>14 DEF Slice, Listed, t

(* If the innermost try of all has an entry, it is the last of the slice.  *)
LEMMA SliceTop ==
  ASSUME NEW kind \in {"exc", "fin"}, NEW w, NEW s, NEW lo, NEW hi, NEW b, NEW p \in Seq(Region),
         Slice(kind, s, lo, hi, b, p, w), Len(p) \in Wanted(kind, p, w)
  PROVE  /\ hi \in lo + 1 .. hi /\ Len(s[hi].path) = Len(p)
         /\ \A i \in lo + 1 .. hi - 1 : Len(s[i].path) <= Len(p) - 1
<1>1. lo \in Nat /\ hi \in Nat /\ lo <= hi /\ Len(p) \in Nat
  BY SliceBounds
<1>2. /\ \A i \in lo + 1 .. hi : Len(s[i].path) \in 1 .. Len(p)
      /\ \A i, j \in lo + 1 .. hi : i < j => Len(s[i].path) < Len(s[j].path)
  BY WantedIn DEF Slice, Listed
<1>3. PICK i \in lo + 1 .. hi : Len(s[i].path) = Len(p)
  BY DEF Slice, Listed
<1>4. i = hi
  <2> SUFFICES ASSUME i # hi PROVE FALSE
    OBVIOUS
  <2>1. hi \in lo + 1 .. hi /\ i < hi
    BY <1>1
  <2>2. Len(s[i].path) < Len(s[hi].path) /\ Len(s[hi].path) \in 1 .. Len(p)
    BY <1>2, <2>1
  <2> QED BY <1>1, <1>3, <2>2
<1>5. ASSUME NEW j \in lo + 1 .. hi - 1 PROVE Len(s[j].path) <= Len(p) - 1
  <2>1. j \in lo + 1 .. hi /\ hi \in lo + 1 .. hi /\ j < hi
    BY <1>1
  <2>2. Len(s[j].path) < Len(s[hi].path) /\ Len(s[j].path) \in 1 .. Len(p)
    BY <1>2, <2>1
  <2> QED BY <1>1, <1>3, <1>4, <2>2
<1> QED BY <1>1, <1>3, <1>4, <1>5

(* What an entry of a slice is, and how it lies to the others.             *)
LEMMA SliceEntry ==
  ASSUME NEW kind \in {"exc", "fin"}, NEW w, NEW s, NEW lo, NEW hi, NEW b, NEW p \in Seq(Region),
         Slice(kind, s, lo, hi, b, p, w), NEW i \in lo + 1 .. hi
  PROVE  /\ s[i].owner = b /\ Len(s[i].path) \in Wanted(kind, p, w)
         /\ Len(s[i].path) \in 1 .. Len(p) /\ Right(kind, s[i], p, w)
         /\ \A j \in lo + 1 .. i - 1 : Len(s[j].path) <= Len(s[i].path) - 1
         /\ \A j \in i + 1 .. hi : Len(s[j].path) > Len(s[i].path)
<1>1. lo \in Nat /\ hi \in Nat /\ lo <= hi
  BY SliceBounds
<1>2. /\ \A j \in lo + 1 .. hi : s[j].owner = b /\ Len(s[j].path) \in Wanted(kind, p, w)
      /\ \A j \in lo + 1 .. hi : Right(kind, s[j], p, w)
      /\ \A j, k \in lo + 1 .. hi : j < k => Len(s[j].path) < Len(s[k].path)
  BY DEF Slice, Listed
<1>3. \A j \in lo + 1 .. hi : Len(s[j].path) \in 1 .. Len(p)
  BY <1>2, WantedIn
<1>4. ASSUME NEW j \in lo + 1 .. i - 1 PROVE Len(s[j].path) <= Len(s[i].path) - 1
  <2>1. j \in lo + 1 .. hi /\ j < i
    BY <1>1
  <2>2. Len(s[j].path) < Len(s[i].path) /\ Len(s[j].path) \in Int /\ Len(s[i].path) \in Int
    BY <1>2, <1>3, <2>1
  <2> QED BY <2>2
<1>5. ASSUME NEW j \in i + 1 .. hi PROVE Len(s[j].path) > Len(s[i].path)
  <2>1. j \in lo + 1 .. hi /\ i < j
    BY <1>1
  <2>2. Len(s[i].path) < Len(s[j].path) /\ Len(s[j].path) \in Int /\ Len(s[i].path) \in Int
    BY <1>2, <1>3, <2>1
  <2> QED BY <2>2
<1> QED BY <1>2, <1>3, <1>4, <1>5

(* The entry a try asks for.                                               *)
LEMMA SliceHas ==
  ASSUME NEW kind, NEW w, NEW s, NEW lo, NEW hi, NEW b, NEW p, Slice(kind, s, lo, hi, b, p, w),
         NEW k \in Wanted(kind, p, w)
  PROVE  \E i \in lo + 1 .. hi : Len(s[i].path) = k
BY DEF Slice, Listed

LEMMA SliceEmpty ==
  ASSUME NEW kind \in {"exc", "fin"}, NEW w, NEW s, Len(s) = 0, NEW b
  PROVE  Slice(kind, s, 0, 0, b, << >>, w)
BY DEF Slice, Listed, Wanted, Asks, Waits

---------------------------------------------------------------------------
(* The stacks of the bodies that run                                       *)

(* Of each body: how many actions a return has left at the bottom of its   *)
(* slice, and the try whose finally it went to.                            *)
Leftover == [junk: Nat, from: Nat]

(* The part of s over the lo-th, up to the hi-th, is b's.                  *)
Owns(kind, s, lo, hi, b, v, p) == Slice(kind, s, lo + v[b].junk, hi, b, p[b], v[b].from)

(* The stack below a fiber is the one it put aside; the live one is on     *)
(* top.  The bodies of one stack are those between two tops.               *)
Tops(ch) == {n \in 1 .. Len(ch) + 1 : n = Len(ch) + 1 \/ ch[n] \in Fibers}
Over(ch, m, n) == \A i \in m + 1 .. n - 1 : ch[i] \notin Fibers
StackAt(ch, x, sd, n) == IF n = Len(ch) + 1 THEN x ELSE sd[ch[n]]

(* The m-th body has the part of the stack s from its base to that of the  *)
(* body over it, and the bases do not go down.                             *)
Roof(ch, B, s, m, n) == IF m + 1 = n THEN Len(s) ELSE B[ch[m + 1]]
Rise(ch, B, s, m, n) == \A i \in m .. n - 1 : B[ch[m]] <= B[ch[i]] /\ B[ch[i]] <= Len(s)
Stands(kind, ch, B, v, p, s, m, n) ==
  /\ Owns(kind, s, B[ch[m]], Roof(ch, B, s, m, n), ch[m], v, p)
  /\ Rise(ch, B, s, m, n)
Live(kind, ch, B, v, p, x, sd) ==
  \A m \in 1 .. Len(ch), n \in Tops(ch) :
    m < n /\ Over(ch, m, n) => Stands(kind, ch, B, v, p, StackAt(ch, x, sd, n), m, n)

(* The same for another description of the bodies it is about.             *)
Alike(ch, B, v, p, c2, B2, v2, p2, hi) ==
  \A i \in 1 .. hi :
    /\ c2[i] = ch[i] /\ B2[ch[i]] = B[ch[i]]
    /\ v2[ch[i]] = v[ch[i]] /\ p2[ch[i]] = p[ch[i]]

LEMMA StandsAlike ==
  ASSUME NEW kind, NEW ch, NEW B, NEW v, NEW p, NEW s, NEW c2, NEW B2, NEW v2, NEW p2,
         NEW m \in Nat, NEW n \in Nat, 1 <= m, m < n,
         Alike(ch, B, v, p, c2, B2, v2, p2, n - 1),
         Stands(kind, ch, B, v, p, s, m, n)
  PROVE  Stands(kind, c2, B2, v2, p2, s, m, n)
<1>1. \A i \in m .. n - 1 : c2[i] = ch[i] /\ B2[ch[i]] = B[ch[i]]
  BY DEF Alike
<1>2. /\ c2[m] = ch[m] /\ B2[ch[m]] = B[ch[m]]
      /\ v2[ch[m]] = v[ch[m]] /\ p2[ch[m]] = p[ch[m]]
  BY DEF Alike
<1>3. m + 1 # n => m + 1 \in m .. n - 1
  OBVIOUS
<1>4. Roof(c2, B2, s, m, n) = Roof(ch, B, s, m, n)
  BY <1>1, <1>3 DEF Roof
<1>5. Owns(kind, s, B2[c2[m]], Roof(c2, B2, s, m, n), c2[m], v2, p2)
  BY <1>2, <1>4 DEF Stands, Owns
<1>6. Rise(c2, B2, s, m, n)
  BY <1>1, <1>2 DEF Stands, Rise
<1> QED BY <1>5, <1>6 DEF Stands

LEMMA OwnsMoves ==
  ASSUME NEW kind, NEW s, NEW lo \in Nat, NEW hi \in Nat, NEW b, NEW v, NEW p,
         v[b] \in Leftover, Owns(kind, s, lo, hi, b, v, p),
         NEW t, NEW d \in Int, lo + d >= 0, hi + d <= Len(t),
         \A i \in lo + 1 .. hi : t[i + d] = s[i]
  PROVE  Owns(kind, t, lo + d, hi + d, b, v, p)
<1> DEFINE j == v[b].junk
<1>1. j \in Nat
  BY DEF Leftover
<1>2. Slice(kind, s, lo + j, hi, b, p[b], v[b].from)
  BY DEF Owns
<1> HIDE DEF j
<1>3. lo + j <= hi
  BY <1>2, SliceBounds
<1>4. PICK from \in Nat : from = lo + d + j
  BY <1>1
<1>5. PICK to \in Nat : to = hi + d
  BY <1>1, <1>3
<1>6. \A i \in 1 .. hi - (lo + j) : t[from + i] = s[lo + j + i]
  <2> TAKE i \in 1 .. hi - (lo + j)
  <2>1. lo + j + i \in lo + 1 .. hi
    BY <1>1, <1>3
  <2>2. t[lo + j + i + d] = s[lo + j + i]
    BY <2>1
  <2>3. lo + j + i + d = from + i
    BY <1>1, <1>4
  <2> QED BY <2>2, <2>3
<1>7. to - from = hi - (lo + j) /\ to <= Len(t)
  BY <1>1, <1>4, <1>5
<1>8. Slice(kind, t, from, to, b, p[b], v[b].from)
  BY <1>2, <1>6, <1>7, SliceMoves
<1> QED BY <1>1, <1>4, <1>5, <1>8 DEF Owns, j

LEMMA OwnsBounds ==
  ASSUME NEW kind, NEW s, NEW lo \in Nat, NEW hi, NEW b, NEW v, NEW p,
         v[b] \in Leftover, Owns(kind, s, lo, hi, b, v, p)
  PROVE  hi \in Nat /\ lo + v[b].junk \in Nat /\ lo + v[b].junk <= hi /\ lo <= hi /\ hi <= Len(s)
<1>1. v[b].junk \in Nat
  BY DEF Leftover
<1>2. hi \in Nat /\ lo + v[b].junk <= hi /\ hi <= Len(s)
  BY SliceBounds DEF Owns
<1> QED BY <1>1, <1>2

Forms(ch, B, v) == ch \in Seq(Bodies) /\ B \in [Bodies -> Nat] /\ v \in [Bodies -> Leftover]

(* What Live says of a body of the live stack, and of one of a stack that  *)
(* is put aside.                                                           *)
LEMMA LiveOnTop ==
  ASSUME NEW kind, NEW ch, NEW B, NEW v, NEW p, NEW x, NEW sd,
         Forms(ch, B, v), Live(kind, ch, B, v, p, x, sd),
         NEW m \in 1 .. Len(ch), Over(ch, m, Len(ch) + 1)
  PROVE  Stands(kind, ch, B, v, p, x, m, Len(ch) + 1)
<1>1. Len(ch) \in Nat /\ Len(ch) + 1 \in 1 .. Len(ch) + 1 /\ m < Len(ch) + 1
  BY DEF Forms
<1>2. Len(ch) + 1 \in Tops(ch)
  BY <1>1 DEF Tops
<1>3. StackAt(ch, x, sd, Len(ch) + 1) = x
  BY DEF StackAt
<1> QED BY <1>1, <1>2, <1>3 DEF Live

LEMMA LiveAside ==
  ASSUME NEW kind, NEW ch, NEW B, NEW v, NEW p, NEW x, NEW sd,
         Forms(ch, B, v), Live(kind, ch, B, v, p, x, sd),
         NEW m \in 1 .. Len(ch), NEW n \in 1 .. Len(ch), m < n, ch[n] \in Fibers, Over(ch, m, n)
  PROVE  Stands(kind, ch, B, v, p, sd[ch[n]], m, n)
<1>1. Len(ch) \in Nat /\ n # Len(ch) + 1 /\ n \in 1 .. Len(ch) + 1
  BY DEF Forms
<1>2. n \in Tops(ch)
  BY <1>1 DEF Tops
<1>3. StackAt(ch, x, sd, n) = sd[ch[n]]
  BY <1>1 DEF StackAt
<1> QED BY <1>2, <1>3 DEF Live

(* The part of the running body, and those of the others of its stack.     *)
LEMMA LiveLast ==
  ASSUME NEW kind, NEW ch, NEW B, NEW v, NEW p, NEW x, NEW sd,
         Forms(ch, B, v), Live(kind, ch, B, v, p, x, sd), ch # << >>
  PROVE  Owns(kind, x, B[Last(ch)], Len(x), Last(ch), v, p)
<1>1. Len(ch) \in 1 .. Len(ch) /\ Last(ch) = ch[Len(ch)] /\ Len(ch) \in Nat
  BY DEF Forms, Last
<1>2. Over(ch, Len(ch), Len(ch) + 1)
  BY <1>1 DEF Over
<1>3. Stands(kind, ch, B, v, p, x, Len(ch), Len(ch) + 1)
  BY <1>1, <1>2, LiveOnTop
<1> QED BY <1>1, <1>3 DEF Stands, Roof

LEMMA OverSome ==
  ASSUME NEW ch, NEW m \in Nat, NEW n \in Nat, Over(ch, m, n), NEW k \in Nat, m <= k
  PROVE  Over(ch, k, n)
BY DEF Over

(* The bodies over the n-th are gone, and it has changed its part.         *)
LEMMA LiveCut ==
  ASSUME NEW kind, NEW ch, NEW B, NEW v, NEW p, NEW x, NEW sd,
         Forms(ch, B, v), Live(kind, ch, B, v, p, x, sd),
         NEW n \in 1 .. Len(ch), Over(ch, n, Len(ch) + 1),
         NEW B2, NEW v2, NEW q, NEW y, Forms(ch, B2, v2), Len(y) \in Nat,
         Alike(ch, B, v, p, ch, B2, v2, q, n - 1), B2[ch[n]] = B[ch[n]],
         Owns(kind, y, B[ch[n]], Len(y), ch[n], v2, q),
         \A i \in 1 .. B[ch[n]] : y[i] = x[i]
  PROVE  Live(kind, SubSeq(ch, 1, n), B2, v2, q, y, sd)
<1> DEFINE c2 == SubSeq(ch, 1, n)
           N == Len(ch) + 1
           R == B[ch[n]]
<1>1. /\ Len(ch) \in Nat /\ n \in Nat /\ n <= Len(ch) /\ n >= 1 /\ N \in Nat
      /\ \A i \in 1 .. n : i \in 1 .. Len(ch) /\ ch[i] \in Bodies
      /\ \A i \in 1 .. n : B[ch[i]] \in Nat /\ B2[ch[i]] \in Nat
      /\ \A i \in 1 .. n : v[ch[i]] \in Leftover /\ v2[ch[i]] \in Leftover
  BY DEF Forms
<1>2. Len(c2) = n /\ \A i \in 1 .. n : c2[i] = ch[i]
  BY PrefixIs DEF Forms
<1>3. /\ \A i \in 1 .. n - 1 : B2[ch[i]] = B[ch[i]] /\ v2[ch[i]] = v[ch[i]] /\ q[ch[i]] = p[ch[i]]
      /\ \A i \in 1 .. n : B2[ch[i]] = B[ch[i]]
  <2>1. \A i \in 1 .. n - 1 : B2[ch[i]] = B[ch[i]] /\ v2[ch[i]] = v[ch[i]] /\ q[ch[i]] = p[ch[i]]
    BY DEF Alike
  <2>2. \A i \in 1 .. n : i = n \/ i \in 1 .. n - 1
    BY <1>1
  <2> QED BY <2>1, <2>2
<1>4. R \in Nat /\ R <= Len(y)
  BY <1>1, OwnsBounds
<1> HIDE DEF c2, N, R
<1>5. ASSUME NEW m \in 1 .. n, Over(ch, m, N)
      PROVE  B[ch[m]] <= R /\ Rise(ch, B, x, m, N)
  <2>1. m \in 1 .. Len(ch) /\ n \in m .. N - 1
    BY <1>1 DEF N
  <2>2. Rise(ch, B, x, m, N)
    BY <1>5, <2>1, LiveOnTop DEF Stands, N
  <2> QED BY <2>1, <2>2 DEF Rise, R
<1>6. ASSUME NEW m \in 1 .. n, Over(c2, m, n + 1)
      PROVE  Stands(kind, c2, B2, v2, q, y, m, n + 1)
  <2>1. Over(ch, m, N)
    <3> SUFFICES ASSUME NEW i \in m + 1 .. N - 1 PROVE ch[i] \notin Fibers
      BY DEF Over
    <3>1. CASE i <= n
      <4>1. i \in m + 1 .. n + 1 - 1 /\ i \in 1 .. n
        BY <1>1, <3>1
      <4> QED BY <1>2, <1>6, <4>1 DEF Over
    <3>2. CASE i > n
      <4>1. i \in n + 1 .. Len(ch) + 1 - 1
        BY <1>1, <3>2 DEF N
      <4> QED BY <4>1 DEF Over
    <3> QED BY <1>1, <3>1, <3>2
  <2>2. Rise(c2, B2, y, m, n + 1)
    <3> SUFFICES ASSUME NEW i \in m .. n + 1 - 1
                 PROVE  B2[c2[m]] <= B2[c2[i]] /\ B2[c2[i]] <= Len(y)
      BY DEF Rise
    <3>1. i \in 1 .. n /\ m \in 1 .. n /\ i \in m .. N - 1 /\ m \in Nat /\ i \in Nat /\ m <= i
      BY <1>1 DEF N
    <3>2. B[ch[m]] <= B[ch[i]]
      BY <1>5, <2>1, <3>1 DEF Rise
    <3>3. Over(ch, i, N)
      BY <1>1, <2>1, <3>1, OverSome
    <3>4. B[ch[i]] <= R
      BY <1>5, <3>1, <3>3
    <3> QED BY <1>1, <1>2, <1>3, <1>4, <3>1, <3>2, <3>4
  <2>3. CASE m = n
    <3>1. Roof(c2, B2, y, m, n + 1) = Len(y) /\ c2[m] = ch[n] /\ B2[c2[m]] = B[ch[n]]
      BY <1>2, <1>3, <2>3 DEF Roof
    <3> QED BY <2>2, <3>1 DEF Stands
  <2>4. CASE m # n
    <3>1. m \in 1 .. n - 1 /\ m + 1 \in 1 .. n /\ m + 1 # N /\ m + 1 # n + 1 /\ m \in 1 .. Len(ch)
      BY <1>1, <2>4 DEF N
    <3> DEFINE lo == B[ch[m]]
               hi == B[ch[m + 1]]
    <3>2. Owns(kind, x, lo, hi, ch[m], v, p)
      BY <2>1, <3>1, LiveOnTop DEF Stands, Roof, N
    <3>3. hi <= R
      <4>1. Over(ch, m + 1, N)
        BY <1>1, <2>1, <3>1, OverSome
      <4> QED BY <1>5, <3>1, <4>1
    <3>4. lo \in Nat /\ hi \in Nat
      BY <1>1, <3>1
    <3>5. PICK d \in Int : d = 0
      OBVIOUS
    <3>6. Owns(kind, y, lo, hi, ch[m], v, p)
      <4> HIDE DEF lo, hi
      <4>1. v[ch[m]] \in Leftover
        BY <1>1
      <4>2. lo + d >= 0 /\ hi + d <= Len(y) /\ lo + d = lo /\ hi + d = hi
        BY <1>4, <3>3, <3>4, <3>5
      <4>3. ASSUME NEW i \in lo + 1 .. hi PROVE y[i + d] = x[i]
        <5>1. i \in 1 .. R /\ i + d = i
          BY <1>4, <3>3, <3>4, <3>5
        <5> QED BY <5>1 DEF R
      <4>4. Owns(kind, y, lo + d, hi + d, ch[m], v, p)
        BY <3>2, <3>4, <4>1, <4>2, <4>3, OwnsMoves
      <4> QED BY <4>2, <4>4
    <3>7. /\ c2[m] = ch[m] /\ B2[c2[m]] = lo /\ Roof(c2, B2, y, m, n + 1) = hi
          /\ v2[ch[m]] = v[ch[m]] /\ q[ch[m]] = p[ch[m]]
      BY <1>2, <1>3, <3>1 DEF Roof
    <3> QED BY <2>2, <3>6, <3>7 DEF Stands, Owns
  <2> QED BY <2>3, <2>4
<1>7. ASSUME NEW m \in 1 .. n, NEW t \in 1 .. n, c2[t] \in Fibers, m < t, Over(c2, m, t)
      PROVE  Stands(kind, c2, B2, v2, q, sd[c2[t]], m, t)
  <2>1. Over(ch, m, t)
    <3> SUFFICES ASSUME NEW i \in m + 1 .. t - 1 PROVE ch[i] \notin Fibers
      BY DEF Over
    <3>1. i \in 1 .. n
      OBVIOUS
    <3> QED BY <1>2, <1>7, <3>1 DEF Over
  <2>2. Stands(kind, ch, B, v, p, sd[ch[t]], m, t)
    BY <1>1, <1>2, <1>7, <2>1, LiveAside
  <2>3. Alike(ch, B, v, p, c2, B2, v2, q, t - 1)
    <3>1. \A i \in 1 .. t - 1 : i \in 1 .. n - 1 /\ i \in 1 .. n
      OBVIOUS
    <3> QED BY <1>2, <1>3, <3>1 DEF Alike
  <2>4. m \in Nat /\ t \in Nat /\ 1 <= m
    OBVIOUS
  <2> QED BY <1>2, <1>7, <2>2, <2>3, <2>4, StandsAlike
<1>8. ASSUME NEW m \in 1 .. Len(c2), NEW t \in Tops(c2), m < t, Over(c2, m, t)
      PROVE  Stands(kind, c2, B2, v2, q, StackAt(c2, y, sd, t), m, t)
  <2>1. m \in 1 .. n /\ t \in 1 .. n + 1 /\ (t = n + 1 \/ c2[t] \in Fibers)
    BY <1>2, <1>8 DEF Tops
  <2>2. CASE t = n + 1
    BY <1>2, <1>6, <1>8, <2>1, <2>2 DEF StackAt
  <2>3. CASE t # n + 1
    <3>1. t \in 1 .. n /\ c2[t] \in Fibers
      BY <2>1, <2>3
    <3> QED BY <1>2, <1>7, <1>8, <2>1, <2>3, <3>1 DEF StackAt
  <2> QED BY <2>2, <2>3
<1> QED BY <1>8 DEF Live, c2

LEMMA LiveCutAt ==
  ASSUME NEW kind, NEW ch, NEW B, NEW v, NEW p, NEW x, NEW sd,
         Forms(ch, B, v), Live(kind, ch, B, v, p, x, sd),
         NEW n \in 1 .. Len(ch), Over(ch, n, Len(ch) + 1),
         NEW B2, NEW v2, NEW q, NEW y, Forms(ch, B2, v2), Len(y) \in Nat,
         NEW h, h = n - 1, Alike(ch, B, v, p, ch, B2, v2, q, h), B2[ch[n]] = B[ch[n]],
         Owns(kind, y, B[ch[n]], Len(y), ch[n], v2, q),
         \A i \in 1 .. B[ch[n]] : y[i] = x[i]
  PROVE  Live(kind, SubSeq(ch, 1, n), B2, v2, q, y, sd)
<1>1. Alike(ch, B, v, p, ch, B2, v2, q, n - 1)
  OBVIOUS
<1> QED BY <1>1, LiveCut

(* The fiber that is the n-th has left: the stack it put aside is back.    *)
LEMMA LiveLeave ==
  ASSUME NEW kind, NEW ch, NEW B, NEW v, NEW p, NEW x, NEW sd,
         Forms(ch, B, v), Live(kind, ch, B, v, p, x, sd),
         NEW n \in 1 .. Len(ch), ch[n] \in Fibers, n > 1,
         NEW B2, NEW q, NEW sd2, Alike(ch, B, v, p, ch, B2, v, q, n - 1),
         \A i \in 1 .. n - 1 : ch[i] \in Fibers => sd2[ch[i]] = sd[ch[i]]
  PROVE  Live(kind, SubSeq(ch, 1, n - 1), B2, v, q, sd[ch[n]], sd2)
<1> DEFINE c2 == SubSeq(ch, 1, n - 1)
<1>1. /\ Len(ch) \in Nat /\ n \in Nat /\ n <= Len(ch) /\ n - 1 \in 0 .. Len(ch)
      /\ \A i \in 1 .. n : i \in 1 .. Len(ch)
  BY DEF Forms
<1>2. Len(c2) = n - 1 /\ \A i \in 1 .. n - 1 : c2[i] = ch[i]
  BY <1>1, PrefixIs DEF Forms
<1> HIDE DEF c2
<1>3. ASSUME NEW m \in 1 .. Len(c2), NEW t \in Tops(c2), m < t, Over(c2, m, t)
      PROVE  Stands(kind, c2, B2, v, q, StackAt(c2, sd[ch[n]], sd2, t), m, t)
  <2>1. m \in 1 .. n - 1 /\ t \in 1 .. n /\ t <= n /\ (t = n \/ (t # n /\ c2[t] \in Fibers)) /\ m \in Nat /\ t \in Nat /\ 1 <= m
    BY <1>1, <1>2, <1>3 DEF Tops
  <2>2. t \in 1 .. Len(ch) /\ m \in 1 .. Len(ch)
    BY <1>1, <2>1
  <2>3. t # n => t \in 1 .. n - 1
    BY <1>1, <2>1
  <2>4. ch[t] \in Fibers /\ StackAt(c2, sd[ch[n]], sd2, t) = sd[ch[t]]
    <3>1. n = Len(c2) + 1
      BY <1>1, <1>2
    <3>2. t = n => StackAt(c2, sd[ch[n]], sd2, t) = sd[ch[n]]
      BY <3>1 DEF StackAt
    <3>3. t # n => StackAt(c2, sd[ch[n]], sd2, t) = sd2[c2[t]]
      BY <3>1 DEF StackAt
    <3>4. t # n => c2[t] = ch[t] /\ ch[t] \in Fibers
      BY <1>2, <2>1, <2>3
    <3> QED BY <2>1, <2>3, <3>2, <3>3, <3>4
  <2>5. Over(ch, m, t)
    <3> SUFFICES ASSUME NEW i \in m + 1 .. t - 1 PROVE ch[i] \notin Fibers
      BY DEF Over
    <3>1. i \in 1 .. n - 1
      BY <1>1, <2>1
    <3> QED BY <1>2, <1>3, <3>1 DEF Over
  <2>6. Stands(kind, ch, B, v, p, sd[ch[t]], m, t)
    BY <1>3, <2>2, <2>4, <2>5, LiveAside
  <2>7. Alike(ch, B, v, p, c2, B2, v, q, t - 1)
    <3>1. \A i \in 1 .. t - 1 : i \in 1 .. n - 1
      BY <1>1, <2>1
    <3> QED BY <1>2, <3>1 DEF Alike
  <2>8. Stands(kind, c2, B2, v, q, sd[ch[t]], m, t)
    BY <1>3, <2>1, <2>6, <2>7, StandsAlike
  <2> QED BY <2>4, <2>8
<1> QED BY <1>3 DEF Live, c2

LEMMA LastOfAppend ==
  ASSUME NEW ch \in Seq(Bodies), NEW c \in Bodies
  PROVE  /\ Len(Append(ch, c)) = Len(ch) + 1 /\ Append(ch, c)[Len(ch) + 1] = c
         /\ \A i \in 1 .. Len(ch) : Append(ch, c)[i] = ch[i]
OBVIOUS

(* A generator is entered: what it had parked is put on top.               *)
LEMMA LiveEnterGenerator ==
  ASSUME NEW kind, NEW ch, NEW B, NEW v, NEW p, NEW T, NEW x \in Seq(T), NEW sd,
         Forms(ch, B, v), Live(kind, ch, B, v, p, x, sd),
         NEW g \in Bodies, g \notin Fibers, NEW k \in Seq(T), Owns(kind, k, 0, Len(k), g, v, p),
         NEW B2, Forms(ch, B2, v), \A i \in 1 .. Len(ch) : B2[ch[i]] = B[ch[i]], B2[g] = Len(x)
  PROVE  Live(kind, Append(ch, g), B2, v, p, x \o k, sd)
<1> DEFINE c2 == Append(ch, g)
           L == Len(ch)
           y == x \o k
<1>1. /\ L \in Nat /\ ch \in Seq(Bodies) /\ B \in [Bodies -> Nat] /\ v \in [Bodies -> Leftover]
      /\ \A i \in 1 .. L : ch[i] \in Bodies /\ B[ch[i]] \in Nat /\ v[ch[i]] \in Leftover
      /\ v[g] \in Leftover
  BY DEF Forms
<1>2. Len(c2) = L + 1 /\ c2[L + 1] = g /\ \A i \in 1 .. L : c2[i] = ch[i]
  BY <1>1, LastOfAppend
<1>3. /\ Len(x) \in Nat /\ Len(k) \in Nat /\ Len(y) = Len(x) + Len(k)
      /\ \A i \in 1 .. Len(x) : y[i] = x[i]
      /\ \A i \in 1 .. Len(k) : y[Len(x) + i] = k[i]
  BY ConcatIs
<1> HIDE DEF c2, L, y
<1>8. PICK N \in Nat : N = L + 2
  BY <1>1
<1>9. PICK M \in Nat : M = L + 1
  BY <1>1
<1>10. M = Len(ch) + 1
  BY <1>9 DEF L
<1>4. ASSUME NEW m \in 1 .. L, Over(c2, m, N)
      PROVE  Stands(kind, c2, B2, v, p, y, m, N)
  <2>1. Over(ch, m, M)
    <3> SUFFICES ASSUME NEW i \in m + 1 .. M - 1 PROVE ch[i] \notin Fibers
      BY DEF Over
    <3>1. i \in m + 1 .. N - 1 /\ i \in 1 .. L
      BY <1>1, <1>8, <1>9
    <3> QED BY <1>2, <1>4, <3>1 DEF Over
  <2>2. Stands(kind, ch, B, v, p, x, m, M)
    BY <1>10, <2>1, LiveOnTop DEF L
  <2>3. c2[m] = ch[m] /\ B2[c2[m]] = B[ch[m]] /\ B[ch[m]] \in Nat /\ v[ch[m]] \in Leftover
    BY <1>1, <1>2 DEF L
  <2>4. Rise(c2, B2, y, m, N)
    <3> SUFFICES ASSUME NEW i \in m .. N - 1
                 PROVE  B2[c2[m]] <= B2[c2[i]] /\ B2[c2[i]] <= Len(y)
      BY DEF Rise
    <3>1. CASE i = M
      <4>1. m \in m .. M - 1
        BY <1>1, <1>9
      <4>2. B[ch[m]] <= Len(x)
        BY <2>2, <4>1 DEF Stands, Rise
      <4> QED BY <1>2, <1>3, <1>9, <2>3, <3>1, <4>2
    <3>2. CASE i # M
      <4>1. i \in m .. M - 1 /\ i \in 1 .. L
        BY <1>1, <1>8, <1>9, <3>2
      <4>2. B[ch[m]] <= B[ch[i]] /\ B[ch[i]] <= Len(x)
        BY <2>2, <4>1 DEF Stands, Rise
      <4>3. c2[i] = ch[i] /\ B2[c2[i]] = B[ch[i]] /\ B[ch[i]] \in Nat
        BY <1>1, <1>2, <4>1 DEF L
      <4> QED BY <1>3, <2>3, <4>2, <4>3
    <3> QED BY <3>1, <3>2
  <2> DEFINE hi == Roof(ch, B, x, m, M)
  <2>5. Roof(c2, B2, y, m, N) = hi
    <3>1. CASE m = L
      BY <1>1, <1>2, <1>8, <1>9, <3>1 DEF Roof
    <3>2. CASE m # L
      <4>1. m + 1 \in 1 .. L /\ m + 1 # M /\ m + 1 # N
        BY <1>1, <1>8, <1>9, <3>2
      <4>2. B2[c2[m + 1]] = B[ch[m + 1]]
        BY <1>2, <4>1 DEF L
      <4> QED BY <4>1, <4>2 DEF Roof
    <3> QED BY <3>1, <3>2
  <2>6. Owns(kind, x, B[ch[m]], hi, ch[m], v, p)
    BY <2>2 DEF Stands
  <2> HIDE DEF hi
  <2>7. hi \in Nat /\ hi <= Len(x)
    BY <2>3, <2>6, OwnsBounds
  <2>8. PICK d \in Int : d = 0
    OBVIOUS
  <2>9. PICK lo \in Nat : lo = B[ch[m]]
    BY <2>3
  <2>10. lo + d >= 0 /\ hi + d <= Len(y) /\ lo + d = lo /\ hi + d = hi
    BY <1>3, <2>7, <2>8
  <2>11. ASSUME NEW i \in lo + 1 .. hi PROVE y[i + d] = x[i]
    <3>1. i \in 1 .. Len(x) /\ i + d = i
      BY <1>3, <2>7, <2>8
    <3> QED BY <1>3, <3>1
  <2>12. Owns(kind, x, lo, hi, ch[m], v, p)
    BY <2>6, <2>9
  <2>13. Owns(kind, y, lo + d, hi + d, ch[m], v, p)
    BY <2>3, <2>7, <2>10, <2>11, <2>12, OwnsMoves
  <2>14. Owns(kind, y, B[ch[m]], hi, ch[m], v, p)
    BY <2>9, <2>10, <2>13
  <2> QED BY <2>3, <2>4, <2>5, <2>14 DEF Stands
<1>5. Stands(kind, c2, B2, v, p, y, M, N)
  <2>1. Roof(c2, B2, y, M, N) = Len(y)
    BY <1>1, <1>8, <1>9 DEF Roof
  <2>2. Rise(c2, B2, y, M, N)
    BY <1>1, <1>2, <1>3, <1>8, <1>9 DEF Rise
  <2>3. PICK d \in Int : d = Len(x)
    BY <1>3
  <2>4. PICK z \in Nat : z = 0
    OBVIOUS
  <2>5. PICK h \in Nat : h = Len(k)
    BY <1>3
  <2>6. z + d >= 0 /\ z + d = Len(x) /\ h + d = Len(y) /\ h + d <= Len(y)
    BY <1>3, <2>3, <2>4, <2>5
  <2>7. ASSUME NEW i \in z + 1 .. h PROVE y[i + d] = k[i]
    <3>1. i \in 1 .. Len(k) /\ i + d = Len(x) + i
      BY <1>3, <2>3, <2>4, <2>5
    <3> QED BY <1>3, <3>1
  <2>8. Owns(kind, k, z, h, g, v, p)
    BY <2>4, <2>5
  <2>11. Owns(kind, y, z + d, h + d, g, v, p)
    <3>1. v[g] \in Leftover
      BY <1>1
    <3>2. z + d >= 0 /\ h + d <= Len(y) /\ \A i \in z + 1 .. h : y[i + d] = k[i]
      BY <2>6, <2>7
    <3> QED BY <2>8, <3>1, <3>2, OwnsMoves
  <2>9. c2[M] = g
    BY <1>2, <1>9
  <2>10. Owns(kind, y, Len(x), Len(y), g, v, p)
    BY <2>6, <2>11
  <2> QED BY <2>1, <2>2, <2>9, <2>10 DEF Stands
<1>6. ASSUME NEW m \in 1 .. L, NEW t \in 1 .. L, ch[t] \in Fibers, m < t, Over(c2, m, t)
      PROVE  Stands(kind, c2, B2, v, p, sd[ch[t]], m, t)
  <2>1. Over(ch, m, t)
    <3> SUFFICES ASSUME NEW i \in m + 1 .. t - 1 PROVE ch[i] \notin Fibers
      BY DEF Over
    <3>1. i \in 1 .. L
      BY <1>1
    <3> QED BY <1>2, <1>6, <3>1 DEF Over
  <2>2. Stands(kind, ch, B, v, p, sd[ch[t]], m, t)
    BY <1>6, <2>1, LiveAside DEF L
  <2>3. Alike(ch, B, v, p, c2, B2, v, p, t - 1)
    <3>1. \A i \in 1 .. t - 1 : i \in 1 .. L
      BY <1>1
    <3> QED BY <1>2, <3>1 DEF Alike, L
  <2>4. m \in Nat /\ t \in Nat /\ 1 <= m
    OBVIOUS
  <2> QED BY <1>6, <2>2, <2>3, <2>4, StandsAlike
<1>7. ASSUME NEW m \in 1 .. Len(c2), NEW t \in Tops(c2), m < t, Over(c2, m, t)
      PROVE  Stands(kind, c2, B2, v, p, StackAt(c2, y, sd, t), m, t)
  <2>1. Len(c2) + 1 = L + 2 /\ m \in 1 .. L + 1 /\ t \in 1 .. L + 2 /\ (t = L + 2 \/ c2[t] \in Fibers)
    BY <1>1, <1>2, <1>7 DEF Tops
  <2>2. CASE t = L + 2
    <3>1. StackAt(c2, y, sd, t) = y
      BY <2>1, <2>2 DEF StackAt
    <3>2. m \in 1 .. L \/ m = L + 1
      BY <1>1, <2>1
    <3> QED BY <1>4, <1>5, <1>7, <1>8, <1>9, <2>2, <3>1, <3>2
  <2>3. CASE t # L + 2
    <3>1. t # L + 1 /\ StackAt(c2, y, sd, t) = sd[c2[t]]
      BY <1>2, <2>1, <2>3 DEF StackAt
    <3>2. t \in 1 .. L /\ m \in 1 .. L
      BY <1>1, <1>7, <2>1, <2>3, <3>1
    <3> QED BY <1>2, <1>6, <1>7, <2>1, <2>3, <3>1, <3>2
  <2> QED BY <2>2, <2>3
<1> QED BY <1>7 DEF Live, c2, y

(* A fiber is entered: it brings its own stack and puts the other aside.   *)
LEMMA LiveEnterFiber ==
  ASSUME NEW kind, NEW ch, NEW B, NEW v, NEW p, NEW x, NEW sd,
         Forms(ch, B, v), Live(kind, ch, B, v, p, x, sd),
         NEW f \in Bodies, f \in Fibers, NEW y, Owns(kind, y, 0, Len(y), f, v, p),
         NEW B2, \A i \in 1 .. Len(ch) : B2[ch[i]] = B[ch[i]], B2[f] = 0,
         NEW sd2, sd2[f] = x, \A i \in 1 .. Len(ch) : ch[i] \in Fibers => sd2[ch[i]] = sd[ch[i]]
  PROVE  Live(kind, Append(ch, f), B2, v, p, y, sd2)
<1> DEFINE c2 == Append(ch, f)
           L == Len(ch)
<1>1. L \in Nat /\ ch \in Seq(Bodies) /\ v[f] \in Leftover
  BY DEF Forms
<1>2. Len(c2) = L + 1 /\ c2[L + 1] = f /\ \A i \in 1 .. L : c2[i] = ch[i]
  BY <1>1, LastOfAppend
<1>3. Len(y) \in Nat
  BY <1>1, OwnsBounds
<1> HIDE DEF c2, L
<1>4. Stands(kind, c2, B2, v, p, y, L + 1, L + 2)
  <2>1. Roof(c2, B2, y, L + 1, L + 2) = Len(y)
    BY <1>1 DEF Roof
  <2>2. Rise(c2, B2, y, L + 1, L + 2)
    BY <1>1, <1>2, <1>3 DEF Rise
  <2> QED BY <1>2, <2>1, <2>2 DEF Stands
<1>5. ASSUME NEW m \in 1 .. L, NEW t \in 1 .. L + 1, m < t, Over(c2, m, t),
             t = L + 1 \/ ch[t] \in Fibers
      PROVE  Stands(kind, c2, B2, v, p, StackAt(ch, x, sd, t), m, t)
  <2>1. Over(ch, m, t)
    <3> SUFFICES ASSUME NEW i \in m + 1 .. t - 1 PROVE ch[i] \notin Fibers
      BY DEF Over
    <3>1. i \in 1 .. L
      BY <1>1
    <3> QED BY <1>2, <1>5, <3>1 DEF Over
  <2>2. t \in Tops(ch)
    BY <1>5 DEF Tops, L
  <2>3. Stands(kind, ch, B, v, p, StackAt(ch, x, sd, t), m, t)
    BY <1>5, <2>1, <2>2 DEF Live, L
  <2>4. Alike(ch, B, v, p, c2, B2, v, p, t - 1)
    <3>1. \A i \in 1 .. t - 1 : i \in 1 .. L
      BY <1>1
    <3> QED BY <1>2, <3>1 DEF Alike, L
  <2>5. m \in Nat /\ t \in Nat /\ 1 <= m
    BY <1>1
  <2> QED BY <1>5, <2>3, <2>4, <2>5, StandsAlike
<1>6. ASSUME NEW m \in 1 .. Len(c2), NEW t \in Tops(c2), m < t, Over(c2, m, t)
      PROVE  Stands(kind, c2, B2, v, p, StackAt(c2, y, sd2, t), m, t)
  <2>1. Len(c2) + 1 = L + 2 /\ m \in 1 .. L + 1 /\ t \in 1 .. L + 2 /\ (t = L + 2 \/ c2[t] \in Fibers)
    BY <1>1, <1>2, <1>6 DEF Tops
  <2>2. CASE t = L + 2
    <3>1. StackAt(c2, y, sd2, t) = y
      BY <2>1, <2>2 DEF StackAt
    <3>2. m = L + 1
      <4> SUFFICES ASSUME m # L + 1 PROVE FALSE
        OBVIOUS
      <4>1. L + 1 \in m + 1 .. t - 1
        BY <1>1, <2>1, <2>2
      <4> QED BY <1>2, <1>6, <4>1 DEF Over
    <3> QED BY <1>4, <2>2, <3>1, <3>2
  <2>3. CASE t # L + 2
    <3>1. t \in 1 .. L + 1 /\ m \in 1 .. L
      BY <1>1, <1>6, <2>1, <2>3
    <3>2. StackAt(c2, y, sd2, t) = sd2[c2[t]]
      BY <2>1, <2>3 DEF StackAt
    <3>3. CASE t = L + 1
      <4>1. StackAt(ch, x, sd, t) = x
        BY <3>3 DEF StackAt, L
      <4> QED BY <1>2, <1>5, <1>6, <3>1, <3>2, <3>3, <4>1
    <3>4. CASE t # L + 1
      <4>1. t \in 1 .. L /\ c2[t] = ch[t] /\ ch[t] \in Fibers
        BY <1>1, <1>2, <2>1, <2>3, <3>1, <3>4
      <4>2. StackAt(ch, x, sd, t) = sd[ch[t]] /\ sd2[ch[t]] = sd[ch[t]]
        BY <3>4, <4>1 DEF StackAt, L
      <4> QED BY <1>5, <1>6, <3>1, <3>2, <4>1, <4>2
    <3> QED BY <3>3, <3>4
  <2> QED BY <2>2, <2>3
<1> QED BY <1>6 DEF Live, c2

(* The foot of the stack whose top is n: its lowest body.                  *)
Foot(ch, n) == Max({1} \cup {i \in 1 .. n - 1 : ch[i] \in Fibers})

LEMMA FootIs ==
  ASSUME NEW ch, NEW n \in Nat, n > 1
  PROVE  /\ Foot(ch, n) \in 1 .. n - 1 /\ Over(ch, Foot(ch, n), n)
         /\ Foot(ch, n) = 1 \/ ch[Foot(ch, n)] \in Fibers
         /\ \A m \in 1 .. n - 1 : Over(ch, m, n) => Foot(ch, n) <= m
<1> DEFINE S == {1} \cup {i \in 1 .. n - 1 : ch[i] \in Fibers}
<1>1. S \in SUBSET (0 .. n) /\ S # {} /\ 1 \in S
  OBVIOUS
<1>2. \A i \in S : i \in 1 .. n - 1 /\ (i = 1 \/ ch[i] \in Fibers)
  OBVIOUS
<1>3. \A i \in 1 .. n - 1 : ch[i] \in Fibers => i \in S
  OBVIOUS
<1>4. Foot(ch, n) = Max(S)
  BY DEF Foot
<1> HIDE DEF S
<1>5. Max(S) \in S /\ \A k \in S : k <= Max(S)
  BY <1>1, MaxIs
<1>6. PICK f \in Nat : f = Max(S)
  BY <1>2, <1>5
<1>7. f \in 1 .. n - 1 /\ (f = 1 \/ ch[f] \in Fibers) /\ \A k \in S : k <= f
  BY <1>2, <1>5, <1>6
<1>8. ASSUME NEW i \in f + 1 .. n - 1 PROVE ch[i] \notin Fibers
  BY <1>3, <1>7
<1>9. ASSUME NEW m \in 1 .. n - 1, Over(ch, m, n) PROVE f <= m
  <2> SUFFICES ASSUME f > m PROVE FALSE
    BY <1>7
  <2>1. f \in m + 1 .. n - 1 /\ f # 1
    BY <1>7
  <2> QED BY <1>7, <1>9, <2>1 DEF Over
<1> QED BY <1>4, <1>6, <1>7, <1>8, <1>9 DEF Over

(* Every entry of a stack is in the part of some body.                     *)
LEMMA Tiles ==
  ASSUME NEW ch, NEW n \in Nat, n > 1, NEW B, NEW s, Len(s) \in Nat,
         \A m \in 1 .. n - 1 : B[ch[m]] \in Nat,
         B[ch[Foot(ch, n)]] = 0, NEW i \in 1 .. Len(s)
  PROVE  \E m \in 1 .. n - 1 : Over(ch, m, n) /\ i \in B[ch[m]] + 1 .. Roof(ch, B, s, m, n)
<1> DEFINE S == {m \in 1 .. n - 1 : Over(ch, m, n) /\ B[ch[m]] < i}
<1>1. Foot(ch, n) \in S
  BY FootIs
<1>2. S \in SUBSET (0 .. n) /\ S # {}
  BY <1>1
<1>3. Max(S) \in S /\ \A k \in S : k <= Max(S)
  BY <1>2, MaxIs
<1>4. PICK m \in S : \A k \in S : k <= m
  BY <1>3
<1>5. m \in 1 .. n - 1 /\ Over(ch, m, n) /\ B[ch[m]] < i /\ B[ch[m]] \in Nat
  OBVIOUS
<1>6. i <= Roof(ch, B, s, m, n) /\ Roof(ch, B, s, m, n) \in Nat
  <2>1. CASE m + 1 = n
    BY <2>1 DEF Roof
  <2>2. CASE m + 1 # n
    <3>1. m + 1 \in 1 .. n - 1 /\ m + 1 \in Nat /\ m <= m + 1 /\ m \in Nat
      BY <1>5, <2>2
    <3>2. Over(ch, m + 1, n)
      BY <1>5, <3>1, OverSome
    <3>3. m + 1 \notin S
      BY <1>4, <3>1
    <3>4. ~(B[ch[m + 1]] < i) /\ B[ch[m + 1]] \in Nat
      BY <3>1, <3>2, <3>3
    <3> QED BY <2>2, <3>4 DEF Roof
  <2> QED BY <2>1, <2>2
<1> QED BY <1>5, <1>6

---------------------------------------------------------------------------
(* What each variable holds                                                *)

LEMMA CutType ==
  ASSUME NEW T, NEW s \in Seq(T), NEW n \in Nat
  PROVE  Cut(s, n) \in Seq(T)
<1>1. CASE n < Len(s)
  BY <1>1, CutIs
<1>2. CASE ~(n < Len(s))
  <2>1. Cut(s, n) = SubSeq(s, 1, Len(s)) /\ Len(s) \in 0 .. Len(s)
    BY <1>2 DEF Cut
  <2> QED BY <2>1, PrefixIs
<1> QED BY <1>1, <1>2

LEMMA AboveType ==
  ASSUME NEW T, NEW s \in Seq(T), NEW n \in Nat
  PROVE  Above(s, n) \in Seq(T)
<1>1. CASE n \in 0 .. Len(s)
  BY <1>1, AboveIs
<1>2. CASE n \notin 0 .. Len(s)
  <2>1. Above(s, n) = << >>
    BY <1>2 DEF Above
  <2> QED BY <2>1
<1> QED BY <1>1, <1>2

LEMMA AtType ==
  ASSUME NEW path \in Seq(Region), NEW r \in {"try", "catch", "finally"}
  PROVE  At(path, r) \in Seq(Region)
<1>1. CASE path = << >>
  <2>1. At(path, r) = << >>
    BY <1>1 DEF At
  <2> QED BY <2>1
<1>2. CASE path # << >>
  BY <1>2, AtIs
<1> QED BY <1>1, <1>2

LEMMA FrontType ==
  ASSUME NEW T, NEW s \in Seq(T)
  PROVE  Front(s) \in Seq(T)
<1>1. CASE s = << >>
  <2>1. Front(s) = << >>
    BY <1>1 DEF Front
  <2> QED BY <2>1
<1>2. CASE s # << >>
  BY <1>2, FrontIs
<1> QED BY <1>1, <1>2

Control ==
  /\ \A i, j \in DOMAIN chain : chain[i] = chain[j] => i = j
  /\ \A c \in Coros : state[c] = "running" <=> \E i \in DOMAIN chain : chain[i] = c
  /\ \A b \in Bodies \ Gens : base[b] = NoBase
  /\ next = "return" => Me \in Coros
  /\ ended => next = "run"

(* A body that is no generator stands in tries only; a generator is in no  *)
(* catch of a try without one.                                             *)
Regions(b) ==
  IF b \in Gens THEN {r \in Region : r.at = "catch" => r.kind # "finally"}
  ELSE {[kind |-> "catch", at |-> "try"]}
Path(b) == Seq(Regions(b))
Fit == {h \in Handler : h.path \in Path(h.owner)}
FitStacks == [exc: Seq(Fit), fin: Seq(Action)]

States == {"created", "running", "suspended", "completed", "closed"}

Typed ==
  /\ state \in [Coros -> States]
  /\ chain \in Seq(Bodies) /\ chain # <<>> /\ chain[1] = Main
  /\ pc \in [Bodies -> Seq(Region)] /\ \A b \in Bodies : pc[b] \in Path(b)
  /\ exc \in Seq(Fit) /\ fin \in Seq(Action)
  /\ base \in [Bodies -> [exc: Nat, fin: Nat]]
  /\ park \in [Gens -> FitStacks] /\ side \in [Fibers -> FitStacks]
  /\ closing \in [Gens -> BOOLEAN]
  /\ next \in {"run", "throw", "return"}
  /\ lost \in BOOLEAN /\ ended \in BOOLEAN

Core == Typed /\ Control

LEMMA Sorts ==
  /\ Bodies = Gens \cup Fibers \cup {Main} /\ Coros = Gens \cup Fibers
  /\ \A c \in Coros : c \in Bodies /\ c # Main
  /\ \A f \in Fibers : f \in Coros /\ f \in Bodies /\ f \notin Gens /\ f # Main
  /\ \A g \in Gens : g \in Coros /\ g \in Bodies /\ g \notin Fibers /\ g # Main
  /\ Main \in Bodies /\ Main \notin Gens /\ Main \notin Fibers /\ Main \notin Coros
BY BodiesAssumption DEF Bodies, Coros

LEMMA TypedTypeOK == Typed => TypeOK
<1> SUFFICES ASSUME Typed PROVE TypeOK
  OBVIOUS
<1>1. Fit \subseteq Handler
  BY DEF Fit
<1>2. Seq(Fit) \subseteq Seq(Handler)
  BY <1>1
<1>3. FitStacks \subseteq Stacks
  BY <1>2 DEF FitStacks, Stacks
<1>4. /\ exc \in Seq(Handler) /\ fin \in Seq(Action)
      /\ park \in [Gens -> Stacks] /\ side \in [Fibers -> Stacks]
  BY <1>2, <1>3 DEF Typed
<1> QED BY <1>4 DEF Typed, TypeOK, States

LEMMA ChainIs ==
  ASSUME Typed
  PROVE  /\ Len(chain) \in Nat /\ Len(chain) >= 1 /\ DOMAIN chain = 1 .. Len(chain)
         /\ Me = chain[Len(chain)] /\ Me \in Bodies /\ chain[1] = Main
         /\ \A i \in 1 .. Len(chain) : chain[i] \in Bodies
         /\ (Me \in Coros => Len(chain) > 1)
         /\ chain \in Seq(Bodies)
<1>1. chain \in Seq(Bodies) /\ chain # << >> /\ chain[1] = Main
  BY DEF Typed
<1>2. Len(chain) \in Nat /\ Len(chain) >= 1 /\ DOMAIN chain = 1 .. Len(chain)
  BY <1>1
<1>3. Me = chain[Len(chain)] /\ Me \in Bodies
  BY <1>1, <1>2 DEF Me, Last
<1>4. Me \in Coros => Len(chain) # 1
  BY <1>1, <1>3, Sorts
<1>5. \A i \in 1 .. Len(chain) : chain[i] \in Bodies
  BY <1>1, <1>2
<1> QED BY <1>1, <1>2, <1>3, <1>4, <1>5

(* The bodies over the n-th end.                                           *)
LEMMA EndedCore ==
  ASSUME Core, NEW n \in 1 .. Len(chain), NEW how \in {"completed", "closed"}, Ended(n, how)
  PROVE  /\ state' \in [Coros -> States]
         /\ chain' \in Seq(Bodies) /\ chain' # << >> /\ chain'[1] = Main
         /\ Len(chain') = n /\ \A i \in 1 .. n : chain'[i] = chain[i]
         /\ base' \in [Bodies -> [exc: Nat, fin: Nat]]
         /\ park' \in [Gens -> FitStacks] /\ closing' \in [Gens -> BOOLEAN]
         /\ \A i, j \in DOMAIN chain' : chain'[i] = chain'[j] => i = j
         /\ \A c \in Coros : state'[c] = "running" <=> \E i \in DOMAIN chain' : chain'[i] = c
         /\ \A b \in Bodies \ Gens : base'[b] = NoBase
         /\ Positions(n) \in [Bodies -> Seq(Region)] /\ \A b \in Bodies : Positions(n)[b] \in Path(b)
         /\ Me' = chain[n]
<1>1. /\ Len(chain) \in Nat /\ n \in Nat /\ n >= 1 /\ n <= Len(chain)
      /\ DOMAIN chain = 1 .. Len(chain) /\ chain \in Seq(Bodies) /\ chain[1] = Main
  BY ChainIs DEF Core
<1>2. chain' = SubSeq(chain, 1, n) /\ chain' \in Seq(Bodies) /\ Len(chain') = n
      /\ \A i \in 1 .. n : chain'[i] = chain[i]
  BY <1>1, PrefixIs DEF Ended
<1>3. DOMAIN chain' = 1 .. n /\ chain' # << >> /\ chain'[1] = Main /\ Me' = chain[n]
  <2>1. DOMAIN chain' = 1 .. n /\ chain' # << >>
    BY <1>1, <1>2
  <2>2. chain'[1] = Main /\ chain'[n] = chain[n]
    BY <1>1, <1>2
  <2> QED BY <1>2, <2>1, <2>2 DEF Me, Last
<1>4. \A c : c \in Ending(n) <=> \E i \in n + 1 .. Len(chain) : chain[i] = c
  BY DEF Ending
<1>5. /\ \A i, j \in 1 .. Len(chain) : chain[i] = chain[j] => i = j
      /\ \A c \in Coros : state[c] = "running" <=> \E i \in 1 .. Len(chain) : chain[i] = c
  BY <1>1 DEF Core, Control
<1>6. \A c \in Coros : (\E i \in 1 .. n : chain[i] = c)
                       <=> c \notin Ending(n) /\ \E i \in 1 .. Len(chain) : chain[i] = c
  <2> TAKE c \in Coros
  <2>1. ASSUME NEW i \in 1 .. n, chain[i] = c PROVE c \notin Ending(n) /\ i \in 1 .. Len(chain)
    <3> SUFFICES ASSUME NEW j \in n + 1 .. Len(chain), chain[j] = c PROVE FALSE
      BY <1>1, <1>4
    <3> QED BY <1>1, <1>5, <2>1
  <2>2. ASSUME c \notin Ending(n), NEW i \in 1 .. Len(chain), chain[i] = c PROVE i \in 1 .. n
    <3>1. i \notin n + 1 .. Len(chain)
      BY <1>4, <2>2
    <3> QED BY <1>1, <3>1
  <2> QED BY <2>1, <2>2
<1>7. state' = [c \in Coros |-> IF c \in Ending(n) THEN how ELSE state[c]]
  BY DEF Ended
<1>8. state \in [Coros -> States] /\ closing \in [Gens -> BOOLEAN]
      /\ base \in [Bodies -> [exc: Nat, fin: Nat]] /\ park \in [Gens -> FitStacks]
      /\ pc \in [Bodies -> Seq(Region)] /\ \A b \in Bodies : pc[b] \in Path(b)
  BY DEF Core, Typed, States
<1>9. state' \in [Coros -> States]
  BY <1>7, <1>8 DEF States
<1>10. \A c \in Coros : state'[c] = "running" <=> \E i \in 1 .. n : chain[i] = c
  BY <1>5, <1>6, <1>7
<1>11. \A c \in Coros : (\E i \in 1 .. n : chain[i] = c) <=> (\E i \in DOMAIN chain' : chain'[i] = c)
  BY <1>2, <1>3
<1>12. \A i, j \in DOMAIN chain' : chain'[i] = chain'[j] => i = j
  BY <1>1, <1>2, <1>3, <1>5
<1>13. NoBase \in [exc: Nat, fin: Nat]
  BY DEF NoBase
<1>14. base' = [b \in Bodies |-> IF b \in Ending(n) THEN NoBase ELSE base[b]]
  BY DEF Ended
<1>15. base' \in [Bodies -> [exc: Nat, fin: Nat]] /\ \A b \in Bodies \ Gens : base'[b] = NoBase
  BY <1>8, <1>13, <1>14 DEF Core, Control
<1>16. park' \in [Gens -> FitStacks] /\ closing' \in [Gens -> BOOLEAN]
  BY <1>8 DEF Ended
<1>17. << >> \in Seq(Region) /\ \A b : << >> \in Path(b)
  BY DEF Path
<1>18. Positions(n) \in [Bodies -> Seq(Region)] /\ \A b \in Bodies : Positions(n)[b] \in Path(b)
  BY <1>8, <1>17 DEF Positions
<1> QED BY <1>2, <1>3, <1>9, <1>10, <1>11, <1>12, <1>15, <1>16, <1>18

(* A coroutine is entered.                                                 *)
LEMMA EnterCore ==
  ASSUME Core, NEW c \in Coros, state[c] \in {"created", "suspended"}, Enter(c)
  PROVE  /\ Typed' <=> next' \in {"run", "throw", "return"} /\ closing' \in [Gens -> BOOLEAN]
         /\ chain' \in Seq(Bodies) /\ Len(chain') = Len(chain) + 1 /\ chain'[Len(chain) + 1] = c
         /\ \A i \in 1 .. Len(chain) : chain'[i] = chain[i] /\ chain[i] # c
         /\ Me' = c
         /\ Control' <=> (ended' => next' = "run")
<1>1. /\ Len(chain) \in Nat /\ Len(chain) >= 1 /\ DOMAIN chain = 1 .. Len(chain)
      /\ chain \in Seq(Bodies) /\ chain[1] = Main
  BY ChainIs DEF Core
<1>2. c \in Bodies /\ (c \notin Fibers => c \in Gens) /\ (c \in Fibers => c \notin Gens)
  BY Sorts
<1>3. chain' = Append(chain, c)
  BY DEF Enter
<1>4. /\ chain' \in Seq(Bodies) /\ Len(chain') = Len(chain) + 1 /\ chain'[Len(chain) + 1] = c
      /\ \A i \in 1 .. Len(chain) : chain'[i] = chain[i]
  BY <1>1, <1>2, <1>3, AppendIs
<1>5. DOMAIN chain' = 1 .. Len(chain) + 1 /\ chain' # << >> /\ chain'[1] = Main /\ Me' = c
  <2>1. DOMAIN chain' = 1 .. Len(chain) + 1 /\ chain' # << >>
    BY <1>1, <1>4
  <2> QED BY <1>1, <1>4, <2>1 DEF Me, Last
<1>6. /\ \A i, j \in 1 .. Len(chain) : chain[i] = chain[j] => i = j
      /\ \A d \in Coros : state[d] = "running" <=> \E i \in 1 .. Len(chain) : chain[i] = d
  BY <1>1 DEF Core, Control
<1>7. \A i \in 1 .. Len(chain) : chain[i] # c
  BY <1>6
<1>8. \A i \in 1 .. Len(chain) + 1 : i \in 1 .. Len(chain) \/ i = Len(chain) + 1
  BY <1>1
<1>9. \A i, j \in 1 .. Len(chain) + 1 : chain'[i] = chain'[j] => i = j
  BY <1>4, <1>6, <1>7, <1>8
<1>10. /\ state \in [Coros -> States] /\ exc \in Seq(Fit) /\ fin \in Seq(Action)
       /\ base \in [Bodies -> [exc: Nat, fin: Nat]]
       /\ pc \in [Bodies -> Seq(Region)] /\ \A b \in Bodies : pc[b] \in Path(b)
       /\ park \in [Gens -> FitStacks] /\ side \in [Fibers -> FitStacks]
       /\ lost \in BOOLEAN /\ ended \in BOOLEAN
  BY DEF Core, Typed, States
<1>11. state' = [state EXCEPT ![c] = "running"]
  BY DEF Enter
<1>12. state' \in [Coros -> States]
  BY <1>10, <1>11 DEF States
<1>13. \A d \in Coros : state'[d] = "running" <=> \E i \in 1 .. Len(chain) + 1 : chain'[i] = d
  <2> TAKE d \in Coros
  <2>1. state'[d] = IF d = c THEN "running" ELSE state[d]
    BY <1>10, <1>11
  <2>2. CASE d = c
    BY <1>1, <1>4, <2>1, <2>2
  <2>3. CASE d # c
    BY <1>1, <1>4, <1>6, <1>8, <2>1, <2>3
  <2> QED BY <2>2, <2>3
<1>14. /\ exc' \in Seq(Fit) /\ fin' \in Seq(Action)
       /\ base' \in [Bodies -> [exc: Nat, fin: Nat]]
       /\ park' \in [Gens -> FitStacks] /\ side' \in [Fibers -> FitStacks]
       /\ \A b \in Bodies \ Gens : base'[b] = NoBase
  <2>1. \A b \in Bodies \ Gens : base[b] = NoBase
    BY DEF Core, Control
  <2>2. CASE c \in Fibers
    <3>1. side[c] \in FitStacks /\ [exc |-> exc, fin |-> fin] \in FitStacks
      BY <1>10, <2>2 DEF FitStacks
    <3>2. /\ exc' = side[c].exc /\ fin' = side[c].fin
          /\ side' = [side EXCEPT ![c] = [exc |-> exc, fin |-> fin]]
          /\ base' = base /\ park' = park
      BY <2>2 DEF Enter
    <3>3. side[c].exc \in Seq(Fit) /\ side[c].fin \in Seq(Action)
      BY <3>1 DEF FitStacks
    <3>4. side' \in [Fibers -> FitStacks]
      BY <1>10, <3>1, <3>2
    <3> QED BY <1>10, <2>1, <3>2, <3>3, <3>4
  <2>3. CASE c \notin Fibers
    <3>1. park[c] \in FitStacks /\ Nothing \in FitStacks /\ Depth \in [exc: Nat, fin: Nat]
      BY <1>2, <1>10, <2>3 DEF FitStacks, Nothing, Depth
    <3>2. /\ base' = [base EXCEPT ![c] = Depth]
          /\ exc' = exc \o park[c].exc /\ fin' = fin \o park[c].fin
          /\ park' = [park EXCEPT ![c] = Nothing] /\ side' = side
      BY <2>3 DEF Enter
    <3>3. park[c].exc \in Seq(Fit) /\ park[c].fin \in Seq(Action)
      BY <3>1 DEF FitStacks
    <3>4. exc' \in Seq(Fit) /\ fin' \in Seq(Action)
      BY <1>10, <3>2, <3>3, ConcatIs
    <3>5. park' \in [Gens -> FitStacks] /\ base' \in [Bodies -> [exc: Nat, fin: Nat]]
      BY <1>10, <3>1, <3>2
    <3>6. \A b \in Bodies \ Gens : base'[b] = NoBase
      BY <1>2, <1>10, <2>1, <2>3, <3>2
    <3> QED BY <1>10, <3>2, <3>4, <3>5, <3>6
  <2> QED BY <2>2, <2>3
<1>15. pc' = pc /\ lost' = lost /\ ended' = ended
  BY DEF Enter
<1>16. Typed' <=> next' \in {"run", "throw", "return"} /\ closing' \in [Gens -> BOOLEAN]
  <2>1. Typed' <=>
          /\ state' \in [Coros -> States]
          /\ chain' \in Seq(Bodies) /\ chain' # <<>> /\ chain'[1] = Main
          /\ pc' \in [Bodies -> Seq(Region)] /\ \A b \in Bodies : pc'[b] \in Path(b)
          /\ exc' \in Seq(Fit) /\ fin' \in Seq(Action)
          /\ base' \in [Bodies -> [exc: Nat, fin: Nat]]
          /\ park' \in [Gens -> FitStacks] /\ side' \in [Fibers -> FitStacks]
          /\ closing' \in [Gens -> BOOLEAN]
          /\ next' \in {"run", "throw", "return"}
          /\ lost' \in BOOLEAN /\ ended' \in BOOLEAN
    BY DEF Typed, States
  <2> QED BY <1>4, <1>5, <1>10, <1>12, <1>14, <1>15, <2>1
<1>17. Control' <=> (ended' => next' = "run")
  <2>1. Me' \in Coros
    BY <1>5
  <2> QED BY <1>5, <1>9, <1>13, <1>14, <2>1 DEF Control
<1> QED BY <1>4, <1>5, <1>7, <1>16, <1>17

LEMMA AppendType ==
  ASSUME NEW T, NEW s \in Seq(T), NEW e \in T
  PROVE  Append(s, e) \in Seq(T)
OBVIOUS

LEMMA PathIs ==
  ASSUME NEW b, NEW path \in Path(b)
  PROVE  path \in Seq(Region) /\ \A i \in 1 .. Len(path) : path[i] \in Regions(b)
<1>1. Regions(b) \subseteq Region
  BY DEF Regions, Region, TryKinds
<1>2. Seq(Regions(b)) \subseteq Seq(Region)
  BY <1>1
<1> QED BY <1>2 DEF Path

LEMMA AtFits ==
  ASSUME NEW b \in Gens, NEW path \in Path(b), NEW r \in {"try", "catch", "finally"},
         path = << >> \/ r # "catch" \/ Last(path).kind # "finally"
  PROVE  At(path, r) \in Path(b)
<1>1. path \in Seq(Region) /\ \A i \in 1 .. Len(path) : path[i] \in Regions(b)
  BY PathIs
<1>2. CASE path = << >>
  <2>1. At(path, r) = << >>
    BY <1>2 DEF At
  <2> QED BY <2>1 DEF Path
<1>3. CASE path # << >>
  <2>1. /\ At(path, r) \in Seq(Region) /\ Len(At(path, r)) = Len(path)
        /\ \A i \in 1 .. Len(path) - 1 : At(path, r)[i] = path[i]
        /\ At(path, r)[Len(path)].kind = path[Len(path)].kind
        /\ At(path, r)[Len(path)].at = r
    BY <1>1, <1>3, AtIs
  <2>2. Len(path) \in Nat /\ Last(path) = path[Len(path)]
    BY <1>1 DEF Last
  <2>3. ASSUME NEW i \in 1 .. Len(path) PROVE At(path, r)[i] \in Regions(b)
    <3>1. CASE i = Len(path)
      <4>1. At(path, r)[i] \in Region
        BY <2>1
      <4> QED BY <1>3, <2>1, <2>2, <3>1, <4>1 DEF Regions
    <3>2. CASE i # Len(path)
      <4>1. i \in 1 .. Len(path) - 1
        BY <2>2, <3>2
      <4> QED BY <1>1, <2>1, <4>1
    <3> QED BY <3>1, <3>2
  <2> QED BY <2>1, <2>3 DEF Path
<1> QED BY <1>2, <1>3

(* A body that is no generator is never in a catch or a finally.           *)
LEMMA PlainPath ==
  ASSUME NEW b, b \notin Gens, NEW path \in Path(b), NEW i \in 1 .. Len(path)
  PROVE  path[i].kind = "catch" /\ path[i].at = "try"
<1>1. path[i] \in Regions(b)
  BY PathIs
<1> QED BY <1>1 DEF Regions

LEMMA LastIs ==
  ASSUME NEW T, NEW s \in Seq(T), s # << >>
  PROVE  Len(s) \in 1 .. Len(s) /\ Last(s) = s[Len(s)] /\ Last(s) \in T
BY DEF Last

(* A step of the running body that changes neither the chain nor where the *)
(* stacks of others are.                                                   *)
LEMMA InPlaceCore ==
  ASSUME Core, UNCHANGED <<state, chain, base, park, side, closing, ended>>, ~ended,
         NEW path \in Path(Me), pc' = [pc EXCEPT ![Me] = path],
         exc' \in Seq(Fit), fin' \in Seq(Action),
         next' \in {"run", "throw", "return"}, lost' = lost, next' = "return" => Me \in Coros
  PROVE  Core'
<1>1. Me' = Me
  BY DEF Me
<1>2. pc \in [Bodies -> Seq(Region)] /\ \A b \in Bodies : pc[b] \in Path(b)
  BY DEF Core, Typed
<1>3. path \in Seq(Region)
  BY PathIs
<1>4. pc' \in [Bodies -> Seq(Region)] /\ \A b \in Bodies : pc'[b] \in Path(b)
  BY <1>2, <1>3
<1>5. Typed'
  BY <1>4 DEF Core, Typed
<1>6. Control'
  BY <1>1 DEF Core, Control
<1> QED BY <1>5, <1>6 DEF Core

LEMMA MineIs ==
  ASSUME Core
  PROVE  /\ Me \in Bodies /\ pc[Me] \in Path(Me) /\ pc[Me] \in Seq(Region)
         /\ exc \in Seq(Fit) /\ fin \in Seq(Action) /\ pc \in [Bodies -> Seq(Region)]
         /\ next \in {"run", "throw", "return"}
BY ChainIs DEF Core, Typed

LEMMA EnterTryCore == Core /\ EnterTry => Core'
<1> SUFFICES ASSUME Core, EnterTry PROVE Core'
  OBVIOUS
<1>1. PICK k \in Kinds[Me] :
        LET path == Append(pc[Me], [kind |-> k, at |-> "try"])
        IN  /\ pc' = [pc EXCEPT ![Me] = path]
            /\ exc' = Append(exc, [owner |-> Me, path |-> path, inCatch |-> FALSE])
  BY DEF EnterTry
<1> DEFINE r == [kind |-> k, at |-> "try"]
           path == Append(pc[Me], r)
           h == [owner |-> Me, path |-> path, inCatch |-> FALSE]
<1>2. k \in TryKinds /\ (Me \notin Gens => k = "catch")
  BY MineIs, KindsAssumption
<1>3. r \in Regions(Me)
  BY <1>2 DEF Regions, Region
<1>4. path \in Path(Me)
  BY <1>3, MineIs, AppendType DEF Path
<1>5. pc' = [pc EXCEPT ![Me] = path] /\ exc' = Append(exc, h)
  BY <1>1
<1> HIDE DEF path
<1>6. h \in Fit
  BY <1>4, MineIs, PathIs DEF Handler, Fit
<1>7. exc' \in Seq(Fit)
  BY <1>5, <1>6, MineIs, AppendType
<1>8. next' = next /\ fin' = fin
  BY DEF EnterTry
<1>9. next' = "return" => Me \in Coros
  BY <1>8 DEF Core, Control
<1> QED BY <1>4, <1>5, <1>7, <1>8, <1>9, MineIs, InPlaceCore DEF EnterTry, Going

LEMMA PoppedType == Core => Popped \in Seq(Fit)
<1> SUFFICES ASSUME Core PROVE Popped \in Seq(Fit)
  OBVIOUS
<1>1. Front(exc) \in Seq(Fit)
  BY MineIs, FrontType
<1> QED BY <1>1, MineIs DEF Popped

LEMMA FrontFits == \A b : \A path \in Path(b) : Front(path) \in Path(b)
BY FrontType DEF Path

LEMMA LeaveTryCore == Core /\ LeaveTry => Core'
<1> SUFFICES ASSUME Core, LeaveTry PROVE Core'
  OBVIOUS
<1>1. exc' \in Seq(Fit)
  BY PoppedType DEF LeaveTry
<1>2. next' = next
  BY DEF LeaveTry
<1>3. next' = "return" => Me \in Coros
  BY <1>2 DEF Core, Control
<1> DEFINE path == At(pc[Me], "finally")
           a == [kind |-> "fall", owner |-> Me, path |-> path]
<1>4. CASE pc' = [pc EXCEPT ![Me] = Front(@)] /\ fin' = fin
  <2>1. pc' = [pc EXCEPT ![Me] = Front(pc[Me])] /\ Front(pc[Me]) \in Path(Me)
    BY <1>4, MineIs, FrontFits
  <2> QED BY <1>1, <1>2, <1>3, <1>4, <2>1, MineIs, InPlaceCore DEF LeaveTry, Going
<1>5. CASE Last(path).kind # "catch" /\ pc' = [pc EXCEPT ![Me] = path] /\ fin' = Append(fin, a)
  <2>1. pc[Me] # << >>
    BY DEF LeaveTry
  <2>2. /\ path \in Seq(Region) /\ Len(path) = Len(pc[Me]) /\ path # << >>
        /\ path[Len(pc[Me])].kind = pc[Me][Len(pc[Me])].kind
    BY <2>1, MineIs, AtIs
  <2> HIDE DEF path
  <2>3. pc[Me][Len(pc[Me])].kind # "catch" /\ Len(pc[Me]) \in 1 .. Len(pc[Me])
    BY <1>5, <2>1, <2>2, MineIs, LastIs
  <2>4. Me \in Gens
    BY <2>3, MineIs, PlainPath
  <2>5. path \in Path(Me)
    BY <2>4, MineIs, AtFits DEF path
  <2>6. a \in Action
    BY <2>2, MineIs DEF Action
  <2>7. fin' \in Seq(Action)
    BY <1>5, <2>6, MineIs, AppendType
  <2> QED BY <1>1, <1>2, <1>3, <1>5, <2>5, <2>7, MineIs, InPlaceCore DEF LeaveTry, Going
<1> QED BY <1>4, <1>5 DEF LeaveTry

LEMMA EndFinallyCore == Core /\ EndFinally => Core'
<1> SUFFICES ASSUME Core, EndFinally PROVE Core'
  OBVIOUS
<1>1. Front(pc[Me]) \in Path(Me) /\ Front(fin) \in Seq(Action)
  BY MineIs, FrontType, FrontFits
<1>2. pc' = [pc EXCEPT ![Me] = Front(pc[Me])] /\ exc' = exc
  BY DEF EndFinally
<1>3. fin' \in Seq(Action) /\ next' \in {"run", "throw", "return"}
  BY <1>1, MineIs DEF EndFinally, Dispatched
<1>4. Me \in Coros
  <2>1. pc[Me] # << >> /\ Last(pc[Me]).at = "finally"
    BY DEF EndFinally
  <2>2. Len(pc[Me]) \in 1 .. Len(pc[Me]) /\ pc[Me][Len(pc[Me])].at = "finally"
    BY <2>1, MineIs, LastIs
  <2>3. Me \in Gens
    BY <2>2, MineIs, PlainPath
  <2> QED BY <2>3, Sorts
<1> QED BY <1>1, <1>2, <1>3, <1>4, MineIs, InPlaceCore DEF EndFinally, Going

(* The actions that enter a coroutine.                                     *)
LEMMA EnteringCore ==
  ASSUME Core, Going, NEW c \in Coros, state[c] \in {"created", "suspended"}, Enter(c),
         next' \in {"run", "throw", "return"}, closing' \in [Gens -> BOOLEAN]
  PROVE  Core'
<1>1. ended' = ended /\ ~ended
  BY DEF Enter, Going
<1>2. Typed' /\ Control'
  BY <1>1, EnterCore
<1> QED BY <1>2 DEF Core

LEMMA DriveIs ==
  ASSUME Core
  PROVE  Drives[Me] \subseteq Coros
BY MineIs, UsesAssumption

LEMMA StartCore == Core /\ (Start \/ Resume \/ ThrowInto \/ Close) => Core'
<1> SUFFICES ASSUME Core, Start \/ Resume \/ ThrowInto \/ Close PROVE Core'
  OBVIOUS
<1>1. closing \in [Gens -> BOOLEAN] /\ next \in {"run", "throw", "return"}
  BY DEF Core, Typed
<1>2. CASE Start
  <2>1. PICK c \in Coros : state[c] = "created" /\ Enter(c)
    BY <1>2, DriveIs DEF Start
  <2> QED BY <1>1, <1>2, <2>1, EnteringCore DEF Start
<1>3. CASE Resume
  <2>1. PICK c \in Coros : state[c] = "suspended" /\ Enter(c)
    BY <1>3, DriveIs DEF Resume
  <2> QED BY <1>1, <1>3, <2>1, EnteringCore DEF Resume
<1>4. CASE ThrowInto
  <2>1. PICK c \in Coros : state[c] = "suspended" /\ Enter(c)
    BY <1>4, DriveIs DEF ThrowInto
  <2> QED BY <1>1, <1>4, <2>1, EnteringCore DEF ThrowInto
<1>5. CASE Close
  <2>1. PICK g \in Drives[Me] \cap Gens :
          state[g] = "suspended" /\ Enter(g) /\ closing' = [closing EXCEPT ![g] = TRUE]
    BY <1>5 DEF Close
  <2>2. g \in Coros /\ next' = "return" /\ Going
    BY <1>5, Sorts DEF Close
  <2> QED BY <1>1, <2>1, <2>2, EnteringCore
<1> QED BY <1>2, <1>3, <1>4, <1>5

(* The running body leaves the chain and may come back.                    *)
LEMMA LeavingChain ==
  ASSUME Core, Me \in Coros
  PROVE  /\ Len(chain) - 1 \in 1 .. Len(chain) /\ Len(chain) - 1 \in Nat
         /\ Front(chain) = SubSeq(chain, 1, Len(chain) - 1)
         /\ Ending(Len(chain) - 1) = {Me}
<1>1. /\ Len(chain) \in Nat /\ Len(chain) > 1 /\ chain \in Seq(Bodies) /\ chain # << >>
      /\ Me = chain[Len(chain)]
  BY ChainIs DEF Core
<1>2. Front(chain) = SubSeq(chain, 1, Len(chain) - 1)
  BY <1>1, FrontIs
<1>3. (Len(chain) - 1) + 1 = Len(chain)
  BY <1>1
<1>4. \A i : i \in Len(chain) .. Len(chain) <=> i = Len(chain)
  BY <1>1
<1>5. Ending(Len(chain) - 1) = {chain[i] : i \in Len(chain) .. Len(chain)}
  BY <1>3 DEF Ending
<1>6. Ending(Len(chain) - 1) = {Me}
  BY <1>1, <1>4, <1>5
<1> QED BY <1>1, <1>2, <1>6

LEMMA SuspendCore ==
  ASSUME Core, Going, Me \in Coros, Suspend
  PROVE  Core'
<1> DEFINE n == Len(chain) - 1
<1>1. n \in 1 .. Len(chain) /\ n \in Nat /\ chain' = SubSeq(chain, 1, n) /\ Len(chain) \in Nat /\ Len(chain) = n + 1
  BY LeavingChain, ChainIs DEF Suspend, Core
<1>2. chain \in Seq(Bodies) /\ chain[1] = Main /\ Me = chain[Len(chain)] /\ Me \in Bodies
  BY ChainIs DEF Core
<1> HIDE DEF n
<1>3. chain' \in Seq(Bodies) /\ Len(chain') = n /\ \A i \in 1 .. n : chain'[i] = chain[i]
  BY <1>1, <1>2, PrefixIs
<1>4. DOMAIN chain' = 1 .. n /\ chain' # << >> /\ chain'[1] = Main
  BY <1>1, <1>2, <1>3
<1>5. /\ \A i, j \in 1 .. n + 1 : chain[i] = chain[j] => i = j
      /\ \A d \in Coros : state[d] = "running" <=> \E i \in 1 .. n + 1 : chain[i] = d
  BY <1>1, ChainIs DEF Core, Control
<1>6. /\ state \in [Coros -> States] /\ exc \in Seq(Fit) /\ fin \in Seq(Action)
      /\ base \in [Bodies -> [exc: Nat, fin: Nat]]
      /\ park \in [Gens -> FitStacks] /\ side \in [Fibers -> FitStacks]
      /\ closing \in [Gens -> BOOLEAN]
  BY DEF Core, Typed
<1>7. PICK how \in {"suspended", "closed"} : state' = [state EXCEPT ![Me] = how]
  <2>1. CASE Me \in Fibers
    BY <2>1 DEF Suspend
  <2>2. CASE Me \notin Fibers
    <3>1. closing[Me] \in BOOLEAN
      BY <1>6, <2>2, Sorts
    <3> QED BY <2>2, <3>1 DEF Suspend
  <2> QED BY <2>1, <2>2
<1>8. state' \in [Coros -> States]
  BY <1>6, <1>7 DEF States
<1>9. \A d \in Coros : state'[d] = "running" <=> \E i \in 1 .. n : chain'[i] = d
  <2> TAKE d \in Coros
  <2>1. state'[d] = IF d = Me THEN how ELSE state[d]
    BY <1>6, <1>7
  <2>2. \A i \in 1 .. n + 1 : i \in 1 .. n \/ i = n + 1
    BY <1>1
  <2>3. CASE d = Me
    <3>1. \A i \in 1 .. n : chain[i] # Me
      BY <1>1, <1>2, <1>5
    <3> QED BY <1>3, <2>1, <2>3, <3>1
  <2>4. CASE d # Me
    <3>1. \A i \in 1 .. n : i \in 1 .. n + 1
      BY <1>1
    <3> QED BY <1>1, <1>2, <1>3, <1>5, <2>1, <2>2, <2>4, <3>1
  <2> QED BY <2>3, <2>4
<1>10. \A i, j \in DOMAIN chain' : chain'[i] = chain'[j] => i = j
  BY <1>1, <1>3, <1>4, <1>5
<1>11. NoBase \in [exc: Nat, fin: Nat] /\ base' = [base EXCEPT ![Me] = NoBase]
  BY DEF NoBase, Suspend
<1>12. base' \in [Bodies -> [exc: Nat, fin: Nat]]
  BY <1>6, <1>11
<1>13. \A b \in Bodies \ Gens : base'[b] = NoBase
  BY <1>6, <1>11 DEF Core, Control
<1>14. /\ exc' \in Seq(Fit) /\ fin' \in Seq(Action)
       /\ park' \in [Gens -> FitStacks] /\ side' \in [Fibers -> FitStacks]
       /\ closing' \in [Gens -> BOOLEAN]
  <2>1. CASE Me \in Fibers
    <3>1. /\ exc' = side[Me].exc /\ fin' = side[Me].fin
          /\ side' = [side EXCEPT ![Me] = [exc |-> exc, fin |-> fin]]
          /\ park' = park /\ closing' = closing
      BY <2>1 DEF Suspend
    <3>2. [exc |-> exc, fin |-> fin] \in FitStacks /\ side[Me] \in FitStacks
      BY <1>6, <2>1 DEF FitStacks
    <3>3. side[Me].exc \in Seq(Fit) /\ side[Me].fin \in Seq(Action)
      BY <3>2 DEF FitStacks
    <3>4. side' \in [Fibers -> FitStacks]
      BY <1>6, <3>1, <3>2
    <3> QED BY <1>6, <3>1, <3>3, <3>4
  <2>2. CASE Me \notin Fibers
    <3> DEFINE A == [exc |-> Above(exc, base[Me].exc), fin |-> Above(fin, base[Me].fin)]
    <3>1. base[Me].exc \in Nat /\ base[Me].fin \in Nat
      BY <1>2, <1>6
    <3>2. Cut(exc, base[Me].exc) \in Seq(Fit) /\ Cut(fin, base[Me].fin) \in Seq(Action)
      BY <1>6, <3>1, CutType
    <3>3. Above(exc, base[Me].exc) \in Seq(Fit) /\ Above(fin, base[Me].fin) \in Seq(Action)
      BY <1>6, <3>1, AboveType
    <3>4. A \in FitStacks /\ Nothing \in FitStacks
      BY <3>3 DEF FitStacks, Nothing
    <3> HIDE DEF A
    <3>5. /\ exc' = Cut(exc, base[Me].exc) /\ fin' = Cut(fin, base[Me].fin)
          /\ park' = [park EXCEPT ![Me] = IF closing[Me] THEN Nothing ELSE A]
          /\ closing' = [closing EXCEPT ![Me] = FALSE] /\ side' = side
      BY <2>2 DEF Suspend, A
    <3>6. park' \in [Gens -> FitStacks] /\ closing' \in [Gens -> BOOLEAN]
      BY <1>6, <3>4, <3>5
    <3> QED BY <1>6, <3>2, <3>5, <3>6
  <2> QED BY <2>1, <2>2
<1>15. /\ pc' = pc /\ next' = next /\ lost' = lost /\ ended' = ended /\ next = "run" /\ ~ended
  BY DEF Suspend, Going
<1>16. Typed'
  BY <1>3, <1>4, <1>8, <1>12, <1>14, <1>15 DEF Core, Typed
<1>17. Control'
  BY <1>4, <1>9, <1>10, <1>13, <1>15 DEF Control
<1> QED BY <1>16, <1>17 DEF Core

LEMMA YieldCore == Core /\ (Yield \/ FiberSuspend) => Core'
BY SuspendCore, Sorts DEF Yield, FiberSuspend

LEMMA SamePosition ==
  ASSUME Core
  PROVE  pc[Me] \in Path(Me) /\ pc = [pc EXCEPT ![Me] = pc[Me]]
BY MineIs

LEMMA ReturnCore == Core /\ (Return \/ Raise \/ RefuseYield) => Core'
<1> SUFFICES ASSUME Core, Return \/ Raise \/ RefuseYield PROVE Core'
  OBVIOUS
<1>1. /\ UNCHANGED <<state, chain, pc, exc, fin, base, park, side, closing, lost, ended>> /\ ~ended
      /\ next' \in {"run", "throw", "return"}
      /\ next' = "return" => Me \in Coros
  BY DEF Return, Raise, RefuseYield, stacks, Going
<1>2. pc' = [pc EXCEPT ![Me] = pc[Me]]
  BY <1>1, SamePosition
<1> QED BY <1>1, <1>2, MineIs, InPlaceCore

LEMMA StopIs ==
  ASSUME Core, Me \in Gens, Stops # {}
  PROVE  /\ Max(Stops) \in DOMAIN exc /\ Max(Stops) \in Crossed /\ HasFinally(exc[Max(Stops)])
         /\ \A i \in Stops : i <= Max(Stops)
<1>1. exc \in Seq(Fit) /\ Len(exc) \in Nat
  BY MineIs
<1>2. Stops \in SUBSET (0 .. Len(exc))
  BY <1>1 DEF Stops, Crossed
<1>3. Max(Stops) \in Stops /\ \A k \in Stops : k <= Max(Stops)
  BY <1>1, <1>2, MaxIs
<1> QED BY <1>1, <1>3 DEF Stops, Crossed

LEMMA ReturnThroughFinallyCore == Core /\ ReturnThroughFinally => Core'
<1> SUFFICES ASSUME Core, ReturnThroughFinally PROVE Core'
  OBVIOUS
<1>1. Me \in Gens /\ Stops # {} /\ next = "return"
  BY DEF ReturnThroughFinally
<1>2. Max(Stops) \in DOMAIN exc /\ Max(Stops) \in Crossed
  BY <1>1, StopIs
<1>3. PICK i \in DOMAIN exc : i = Max(Stops)
  BY <1>2
<1> DEFINE path == At(exc[i].path, "finally")
           a == [kind |-> "return", owner |-> Me, path |-> path]
<1>4. /\ exc' = SubSeq(exc, 1, i - 1) /\ fin' = Append(fin, a) /\ pc' = [pc EXCEPT ![Me] = path]
      /\ next' = "run" /\ UNCHANGED <<state, chain, base, park, side, closing, lost, ended>>
  BY <1>3 DEF ReturnThroughFinally
<1>5. exc \in Seq(Fit) /\ fin \in Seq(Action) /\ exc[i] \in Fit /\ i \in 1 .. Len(exc) /\ Len(exc) \in Nat
  BY MineIs
<1>6. exc[i].owner \in Gens
  BY <1>2, <1>3, <1>5 DEF Crossed, Mine
<1>7. PICK b \in Gens : b = exc[i].owner
  BY <1>6
<1>8. exc[i].path \in Path(b)
  BY <1>5, <1>7 DEF Fit
<1>9. path \in Path(b)
  BY <1>8, AtFits
<1> HIDE DEF path
<1>10. path \in Path(Me) /\ path \in Seq(Region)
  BY <1>1, <1>9, PathIs DEF Path, Regions
<1>11. a \in Action
  BY <1>10, MineIs DEF Action
<1>12. fin' \in Seq(Action)
  BY <1>4, <1>5, <1>11, AppendType
<1>13. exc' \in Seq(Fit)
  <2>1. i - 1 \in 0 .. Len(exc)
    BY <1>5
  <2> QED BY <1>4, <1>5, <2>1, PrefixIs
<1>14. ~ended
  BY <1>1 DEF Core, Control
<1> QED BY <1>4, <1>10, <1>12, <1>13, <1>14, InPlaceCore

(* What is left of the live stacks.                                        *)
LEMMA EndingCore ==
  ASSUME Core, NEW n \in 1 .. Len(chain), NEW how \in {"completed", "closed"}, Ended(n, how),
         pc' \in [Bodies -> Seq(Region)], \A b \in Bodies : pc'[b] \in Path(b),
         exc' \in Seq(Fit), fin' \in Seq(Action), side' \in [Fibers -> FitStacks],
         lost' \in BOOLEAN, ended' \in BOOLEAN, next' \in {"run", "throw"}, ended' => next' = "run"
  PROVE  Core'
<1>1. Typed'
  BY EndedCore DEF Typed
<1>2. Control'
  BY EndedCore DEF Control
<1> QED BY <1>1, <1>2 DEF Core

LEMMA TakenBack ==
  ASSUME Core, NEW f \in Fibers
  PROVE  /\ side[f].exc \in Seq(Fit) /\ side[f].fin \in Seq(Action)
         /\ [side EXCEPT ![f] = Nothing] \in [Fibers -> FitStacks]
<1>1. side \in [Fibers -> FitStacks] /\ side[f] \in FitStacks /\ Nothing \in FitStacks
  BY DEF Core, Typed, FitStacks, Nothing
<1> QED BY <1>1 DEF FitStacks

LEMMA CompleteCore == Core /\ Complete => Core'
<1> SUFFICES ASSUME Core, Complete PROVE Core'
  OBVIOUS
<1>1. Me \in Coros /\ ~ended
  BY DEF Complete, Core, Control
<1>2. PICK n \in 1 .. Len(chain) : n = Len(chain) - 1
  BY <1>1, LeavingChain
<1>3. PICK how \in {"completed", "closed"} : Ended(n, how)
  BY <1>2 DEF Complete
<1>4. pc' = Positions(n) /\ next' = "run" /\ lost' = lost /\ ended' = ended
  BY <1>2 DEF Complete
<1>5. pc' \in [Bodies -> Seq(Region)] /\ \A b \in Bodies : pc'[b] \in Path(b)
  BY <1>3, <1>4, EndedCore
<1>6. exc' \in Seq(Fit) /\ fin' \in Seq(Action) /\ side' \in [Fibers -> FitStacks]
  <2>1. CASE Me \in Fibers
    <3>1. exc' = side[Me].exc /\ fin' = side[Me].fin /\ side' = [side EXCEPT ![Me] = Nothing]
      BY <2>1 DEF Complete
    <3> QED BY <2>1, <3>1, TakenBack
  <2>2. CASE Me \notin Fibers
    <3>1. /\ exc' = SubSeq(exc, 1, Len(exc) - Cardinality(Crossed))
          /\ fin' = Cut(fin, base[Me].fin) /\ side' = side
      BY <2>2 DEF Complete
    <3>2. exc \in Seq(Fit) /\ fin \in Seq(Action) /\ Len(exc) \in Nat /\ base[Me].fin \in Nat
      BY MineIs DEF Core, Typed
    <3>3. Cardinality(Crossed) \in 0 .. Len(exc)
      <4>1. Crossed \subseteq 1 .. Len(exc)
        BY <3>2 DEF Crossed
      <4>2. IsFiniteSet(1 .. Len(exc)) /\ Cardinality(1 .. Len(exc)) = Len(exc)
        <5>1. PICK N \in Int : N = Len(exc)
          BY <3>2
        <5>2. 1 \in Int /\ N >= 0
          BY <3>2, <5>1
        <5>3. IsFiniteSet(1 .. N) /\ Cardinality(1 .. N) = IF 1 > N THEN 0 ELSE N - 1 + 1
          BY <5>2, FS_Interval
        <5>4. Cardinality(1 .. N) = N
          BY <5>2, <5>3
        <5> QED BY <5>1, <5>3, <5>4
      <4>3. IsFiniteSet(Crossed) /\ Cardinality(Crossed) <= Cardinality(1 .. Len(exc))
        BY <4>1, <4>2, FS_Subset
      <4>4. Cardinality(Crossed) \in Nat
        BY <4>3, FS_CardinalityType
      <4> QED BY <3>2, <4>2, <4>3, <4>4
    <3>4. Len(exc) - Cardinality(Crossed) \in 0 .. Len(exc)
      BY <3>2, <3>3
    <3>5. exc' \in Seq(Fit)
      BY <3>1, <3>2, <3>4, PrefixIs
    <3>6. fin' \in Seq(Action)
      BY <3>1, <3>2, CutType
    <3> QED BY <3>1, <3>5, <3>6 DEF Core, Typed
  <2> QED BY <2>1, <2>2
<1>7. lost' \in BOOLEAN /\ ended' \in BOOLEAN
  BY <1>4 DEF Core, Typed
<1> QED BY <1>1, <1>3, <1>4, <1>5, <1>6, <1>7, EndingCore

(* The topmost handler that takes a throw.                                 *)
LEMMA TakerIs ==
  ASSUME Core, Takers # {}
  PROVE  /\ Max(Takers) \in 1 .. Len(exc) /\ Taker \in Fit /\ Taker.path \in Path(Taker.owner)
         /\ HasCatch(Taker) \/ HasFinally(Taker)
         /\ Taker.owner \in Bodies /\ Taker = exc[Max(Takers)]
         /\ \A i \in 1 .. Len(exc) : HasCatch(exc[i]) \/ HasFinally(exc[i]) => i <= Max(Takers)
<1>1. exc \in Seq(Fit) /\ Len(exc) \in Nat /\ DOMAIN exc = 1 .. Len(exc)
  BY MineIs
<1>2. Takers \in SUBSET (0 .. Len(exc))
  BY <1>1 DEF Takers
<1>3. Max(Takers) \in Takers /\ \A k \in Takers : k <= Max(Takers)
  BY <1>1, <1>2, MaxIs
<1>4. PICK i \in 1 .. Len(exc) : i = Max(Takers)
  BY <1>1, <1>3 DEF Takers
<1>5. Taker = exc[i] /\ Taker \in Fit
  BY <1>1, <1>4 DEF Taker
<1>6. HasCatch(Taker) \/ HasFinally(Taker)
  BY <1>3, <1>4, <1>5 DEF Takers
<1>7. Taker.path \in Path(Taker.owner) /\ Taker.owner \in Bodies
  BY <1>5 DEF Fit, Handler
<1>8. \A k \in 1 .. Len(exc) : HasCatch(exc[k]) \/ HasFinally(exc[k]) => k <= Max(Takers)
  BY <1>1, <1>3 DEF Takers
<1> QED BY <1>4, <1>5, <1>6, <1>7, <1>8

LEMMA KeptType ==
  ASSUME Core, NEW n \in 1 .. Len(chain), NEW actions \in Seq(Action)
  PROVE  Kept(n, actions) \in Seq(Action)
<1>1. Len(chain) \in Nat /\ base \in [Bodies -> [exc: Nat, fin: Nat]]
      /\ \A i \in 1 .. Len(chain) : chain[i] \in Bodies
  BY ChainIs DEF Core, Typed
<1>2. n # Len(chain) => base[chain[n + 1]].fin \in Nat
  BY <1>1
<1> QED BY <1>2, CutType DEF Kept

LEMMA LandingFits ==
  ASSUME Core, Takers # {}
  PROVE  Landing \in Path(Taker.owner)
<1>1. Taker.path \in Path(Taker.owner)
  BY TakerIs
<1>2. CASE Taker.owner \notin Gens
  BY <1>1, <1>2, FrontFits DEF Landing
<1>3. CASE Taker.owner \in Gens
  BY <1>1, <1>3, AtFits DEF Landing, HasCatch
<1> QED BY <1>2, <1>3

LEMMA HandledType ==
  ASSUME Core, Takers # {}
  PROVE  Handled \in Seq(Fit)
<1>1. exc \in Seq(Fit) /\ Max(Takers) - 1 \in 0 .. Len(exc) /\ Taker \in Fit
  BY MineIs, TakerIs
<1>2. SubSeq(exc, 1, Max(Takers) - 1) \in Seq(Fit)
  BY <1>1, PrefixIs
<1>3. [Taker EXCEPT !.inCatch = TRUE] \in Fit
  BY <1>1 DEF Fit, Handler
<1>4. Marked \in Seq(Fit) /\ << >> \in Seq(Fit)
  BY <1>3 DEF Marked
<1> QED BY <1>2, <1>4, ConcatIs DEF Handled

LEMMA QueuedType ==
  ASSUME Core, Takers # {}
  PROVE  Queued \in Seq(Action)
<1>1. fin \in Seq(Action) /\ Taker.owner \in Bodies /\ Taker.path \in Path(Taker.owner)
  BY MineIs, TakerIs
<1>2. At(Taker.path, "finally") \in Seq(Region)
  BY <1>1, PathIs, AtType
<1>3. Rethrow \in Action
  BY <1>1, <1>2 DEF Rethrow, Action
<1> QED BY <1>1, <1>3, AppendType DEF Queued

LEMMA BottomIs ==
  ASSUME Core
  PROVE  /\ Bottom = Foot(chain, Len(chain) + 1) /\ Bottom \in 1 .. Len(chain)
         /\ Side \in 0 .. Len(chain) /\ (Side = 0 => Bottom = 1 /\ Over(chain, 1, Len(chain) + 1))
         /\ (Side # 0 => Side = Bottom /\ chain[Side] \in Fibers /\ Side > 1)
         /\ Over(chain, Bottom, Len(chain) + 1)
         /\ \A m \in 1 .. Len(chain) : Over(chain, m, Len(chain) + 1) => Bottom <= m
<1> DEFINE L == Len(chain)
           S == {i \in 1 .. L : chain[i] \in Fibers}
<1>1. L \in Nat /\ L >= 1 /\ DOMAIN chain = 1 .. L /\ chain[1] \notin Fibers
  BY ChainIs, Sorts DEF Core
<1>2. Side = Max({0} \cup S)
  BY <1>1 DEF Side
<1>3. Foot(chain, L + 1) = Max({1} \cup S)
  <2>1. L + 1 - 1 = L
    BY <1>1
  <2> QED BY <2>1 DEF Foot
<1>4. /\ Foot(chain, L + 1) \in 1 .. L /\ Over(chain, Foot(chain, L + 1), L + 1)
      /\ Foot(chain, L + 1) = 1 \/ chain[Foot(chain, L + 1)] \in Fibers
      /\ \A m \in 1 .. L : Over(chain, m, L + 1) => Foot(chain, L + 1) <= m
  <2>1. L + 1 \in Nat /\ L + 1 > 1 /\ L + 1 - 1 = L
    BY <1>1
  <2> QED BY <2>1, FootIs
<1>5. {0} \cup S \in SUBSET (0 .. L) /\ {0} \cup S # {}
  BY <1>1
<1>6. Side \in {0} \cup S /\ \A k \in {0} \cup S : k <= Side
  BY <1>1, <1>2, <1>5, MaxIs
<1>7. {1} \cup S \in SUBSET (0 .. L) /\ {1} \cup S # {}
  BY <1>1
<1>8. Foot(chain, L + 1) \in {1} \cup S /\ \A k \in {1} \cup S : k <= Foot(chain, L + 1)
  BY <1>1, <1>3, <1>7, MaxIs
<1>9. \A i \in S : i \in 1 .. L /\ chain[i] \in Fibers /\ i # 1
  BY <1>1
<1> HIDE DEF S
<1>10. CASE Side = 0
  <2>1. \A k \in S : FALSE
    BY <1>6, <1>9, <1>10
  <2>2. Foot(chain, L + 1) = 1
    BY <1>8, <2>1
  <2> QED BY <1>1, <1>4, <1>10, <2>2 DEF Bottom
<1>11. CASE Side # 0
  <2>1. Side \in S
    BY <1>6, <1>11
  <2>2. Foot(chain, L + 1) = Side
    <3>1. Side <= Foot(chain, L + 1) /\ Side \in 1 .. L /\ Side # 1
      BY <1>8, <1>9, <2>1
    <3>2. Foot(chain, L + 1) \in S
      BY <1>1, <1>8, <3>1
    <3>3. Foot(chain, L + 1) <= Side
      BY <1>6, <3>2
    <3> QED BY <1>4, <3>1, <3>3
  <2> QED BY <1>1, <1>4, <1>9, <1>11, <2>1, <2>2 DEF Bottom
<1> QED BY <1>10, <1>11

LEMMA LandCore == Core /\ Land => Core'
<1> SUFFICES ASSUME Core, Land PROVE Core'
  OBVIOUS
<1>1. Takers # {} /\ ~ended /\ next' = "run" /\ ended' = ended /\ side' = side /\ exc' = Handled
  BY DEF Land, Core, Control
<1>2. PICK n \in Bottom .. Len(chain) :
        /\ chain[n] = Taker.owner
        /\ Ended(n, "closed")
        /\ pc' = [Positions(n) EXCEPT ![Taker.owner] = Landing]
        /\ fin' = Kept(n, Queued)
        /\ lost' = (\/ lost
                    \/ n < Len(chain) /\ ~HasCatch(Taker)
                    \/ \E k \in Len(Taker.path) + 1 .. Len(pc[Taker.owner]) :
                         pc[Taker.owner][k].at = "finally")
  BY DEF Land
<1>3. n \in 1 .. Len(chain)
  BY BottomIs, ChainIs DEF Core
<1>4. Positions(n) \in [Bodies -> Seq(Region)] /\ \A b \in Bodies : Positions(n)[b] \in Path(b)
  BY <1>2, <1>3, EndedCore
<1>5. Landing \in Path(Taker.owner) /\ Landing \in Seq(Region) /\ Taker.owner \in Bodies
  BY <1>1, LandingFits, PathIs, TakerIs
<1>6. pc' \in [Bodies -> Seq(Region)] /\ \A b \in Bodies : pc'[b] \in Path(b)
  BY <1>2, <1>4, <1>5
<1>7. exc' \in Seq(Fit) /\ fin' \in Seq(Action)
  BY <1>1, <1>2, <1>3, HandledType, QueuedType, KeptType
<1>8. side' \in [Fibers -> FitStacks] /\ lost' \in BOOLEAN /\ ended' \in BOOLEAN
  BY <1>1, <1>2 DEF Core, Typed
<1> QED BY <1>1, <1>2, <1>3, <1>6, <1>7, <1>8, EndingCore

LEMMA EscapeCore == Core /\ Escape => Core'
<1> SUFFICES ASSUME Core, Escape PROVE Core'
  OBVIOUS
<1>1. Side > 0 /\ next = "throw" /\ next' = next /\ lost' = lost /\ ended' = ended /\ ~ended
  BY DEF Escape, Core, Control
<1>2. Side \in 1 .. Len(chain) /\ Side > 1 /\ chain[Side] \in Fibers
  BY <1>1, BottomIs
<1>3. PICK n \in 1 .. Len(chain) : n = Side - 1
  BY <1>2, ChainIs DEF Core
<1>4. Ended(n, "closed") /\ pc' = Positions(n)
  BY <1>3 DEF Escape
<1>5. pc' \in [Bodies -> Seq(Region)] /\ \A b \in Bodies : pc'[b] \in Path(b)
  BY <1>4, EndedCore
<1>6. PICK f \in Fibers : f = chain[Side]
  BY <1>2
<1>7. exc' = side[f].exc /\ fin' = side[f].fin /\ side' = [side EXCEPT ![f] = Nothing]
  BY <1>6 DEF Escape
<1>8. exc' \in Seq(Fit) /\ fin' \in Seq(Action) /\ side' \in [Fibers -> FitStacks]
  BY <1>7, TakenBack
<1>9. lost' \in BOOLEAN /\ ended' \in BOOLEAN
  BY <1>1 DEF Core, Typed
<1> QED BY <1>1, <1>4, <1>5, <1>8, <1>9, EndingCore

LEMMA UncaughtCore == Core /\ (Uncaught \/ RefuseYieldInTry) => Core'
<1> SUFFICES ASSUME Core, Uncaught \/ RefuseYieldInTry PROVE Core'
  OBVIOUS
<1>1. /\ Ended(1, "closed") /\ pc' = Positions(1) /\ side' = side /\ lost' = lost
      /\ ended' = TRUE /\ next' = "run"
      /\ \/ exc' = << >> /\ fin' = Kept(1, fin)
         \/ exc' = exc /\ fin' = fin
  BY DEF Uncaught, RefuseYieldInTry, Going
<1>2. 1 \in 1 .. Len(chain)
  BY ChainIs DEF Core
<1>3. pc' \in [Bodies -> Seq(Region)] /\ \A b \in Bodies : pc'[b] \in Path(b)
  BY <1>1, <1>2, EndedCore
<1>4. Kept(1, fin) \in Seq(Action)
  BY <1>2, MineIs, KeptType
<1>5. exc' \in Seq(Fit) /\ fin' \in Seq(Action)
  <2>1. << >> \in Seq(Fit) /\ exc \in Seq(Fit) /\ fin \in Seq(Action)
    BY MineIs
  <2> QED BY <1>1, <1>4, <2>1
<1>6. side' \in [Fibers -> FitStacks] /\ lost' \in BOOLEAN /\ ended' \in BOOLEAN
  BY <1>1 DEF Core, Typed
<1> QED BY <1>1, <1>2, <1>3, <1>5, <1>6, EndingCore

LEMMA DropCore == Core /\ Drop => Core'
<1> SUFFICES ASSUME Core, Drop PROVE Core'
  OBVIOUS
<1>1. PICK c \in Coros :
        /\ state[c] = "created" \/ (state[c] = "suspended" /\ c \in Fibers)
        /\ state' = [state EXCEPT ![c] = "closed"]
        /\ pc' = [pc EXCEPT ![c] = <<>>]
        /\ side' = [f \in Fibers |-> IF f = c THEN Nothing ELSE side[f]]
  BY DriveIs DEF Drop
<1>2. UNCHANGED <<chain, exc, fin, base, park, closing, next, lost, ended>>
  BY DEF Drop
<1>3. /\ state \in [Coros -> States] /\ side \in [Fibers -> FitStacks]
      /\ pc \in [Bodies -> Seq(Region)] /\ \A b \in Bodies : pc[b] \in Path(b)
      /\ Nothing \in FitStacks
  BY DEF Core, Typed, Nothing, FitStacks
<1>4. << >> \in Seq(Region) /\ \A b : << >> \in Path(b)
  BY DEF Path
<1>5. state' \in [Coros -> States] /\ side' \in [Fibers -> FitStacks]
  BY <1>1, <1>3 DEF States
<1>6. pc' \in [Bodies -> Seq(Region)] /\ \A b \in Bodies : pc'[b] \in Path(b)
  BY <1>1, <1>3, <1>4
<1>7. Typed'
  BY <1>2, <1>5, <1>6 DEF Core, Typed
<1>8. state[c] # "running" /\ \A d \in Coros : state'[d] = "running" <=> state[d] = "running"
  BY <1>1, <1>3
<1>9. Me' = Me
  BY <1>2 DEF Me
<1>10. Control'
  BY <1>2, <1>8, <1>9 DEF Core, Control
<1> QED BY <1>7, <1>10 DEF Core

LEMMA CoreInit == Init => Core
<1> SUFFICES ASSUME Init PROVE Core
  OBVIOUS
<1>1. chain = <<Main>> /\ Len(chain) = 1 /\ chain[1] = Main /\ DOMAIN chain = {1} /\ chain \in Seq(Bodies) /\ chain # << >>
  BY Sorts DEF Init
<1>2. << >> \in Seq(Region) /\ (\A b : << >> \in Path(b)) /\ Nothing \in FitStacks
      /\ NoBase \in [exc: Nat, fin: Nat] /\ << >> \in Seq(Fit) /\ << >> \in Seq(Action)
  BY DEF Path, Nothing, FitStacks, NoBase
<1>3. Typed
  BY <1>1, <1>2 DEF Init, Typed, States
<1>4. \A c \in Coros : state[c] = "created" /\ c # Main
  BY Sorts DEF Init
<1>5. \A c \in Coros : ~(\E i \in DOMAIN chain : chain[i] = c)
  BY <1>1, <1>4
<1>6. Control
  BY <1>1, <1>4, <1>5 DEF Init, Control
<1> QED BY <1>3, <1>6 DEF Core

LEMMA CoreNext == Core /\ [Next]_vars => Core'
<1> SUFFICES ASSUME Core, [Next]_vars PROVE Core'
  OBVIOUS
<1>1. CASE EnterTry
  BY <1>1, EnterTryCore
<1>2. CASE LeaveTry
  BY <1>2, LeaveTryCore
<1>3. CASE EndFinally
  BY <1>3, EndFinallyCore
<1>4. CASE Start \/ Resume \/ ThrowInto \/ Close
  BY <1>4, StartCore
<1>5. CASE Yield \/ FiberSuspend
  BY <1>5, YieldCore
<1>6. CASE Return \/ Raise \/ RefuseYield
  BY <1>6, ReturnCore
<1>7. CASE ReturnThroughFinally
  BY <1>7, ReturnThroughFinallyCore
<1>8. CASE Complete
  BY <1>8, CompleteCore
<1>9. CASE Land
  BY <1>9, LandCore
<1>10. CASE Escape
  BY <1>10, EscapeCore
<1>11. CASE Uncaught \/ RefuseYieldInTry
  BY <1>11, UncaughtCore
<1>12. CASE Drop
  BY <1>12, DropCore
<1>13. CASE UNCHANGED vars
  <2>1. /\ UNCHANGED <<state, chain, pc, exc, fin, base, park, side, closing, next, lost, ended>>
    BY <1>13 DEF vars
  <2>2. Typed'
    BY <2>1 DEF Core, Typed
  <2>3. Control'
    BY <2>1 DEF Core, Control, Me
  <2> QED BY <2>2, <2>3 DEF Core
<1> QED BY <1>1, <1>2, <1>3, <1>4, <1>5, <1>6, <1>7, <1>8, <1>9, <1>10, <1>11, <1>12, <1>13 DEF Next

(* Every variable holds what it is meant to, the stacks entries of bodies  *)
(* there are and the chain the script at its foot, whatever the bodies do. *)
THEOREM Typing == Spec => []TypeOK
<1>1. Core /\ [Next]_vars => Core'
  BY CoreNext
<1>2. Core => TypeOK
  BY TypedTypeOK DEF Core
<1> QED BY CoreInit, <1>1, <1>2, PTL DEF Spec

---------------------------------------------------------------------------
(* The inductive invariant                                                 *)

Kind == {"exc", "fin"}
Of(kind, two) == IF kind = "exc" THEN two.exc ELSE two.fin
Stack(kind) == IF kind = "exc" THEN exc ELSE fin
Bases(kind) == [b \in Bodies |-> Of(kind, base[b])]
Sides(kind) == [f \in Fibers |-> Of(kind, side[f])]
Put(kind, c) == IF c \in Fibers THEN Of(kind, side[c]) ELSE Of(kind, park[c])
Idle(c) == state[c] \in {"created", "suspended"}

(* The parts of the bodies that run, and of those that can run again.      *)
Running(kind, v) == Live(kind, chain, Bases(kind), v, pc, Stack(kind), Sides(kind))
Waiting(kind, v) ==
  \A c \in Coros : Idle(c) => Owns(kind, Put(kind, c), 0, Len(Put(kind, c)), c, v, pc)
Whole(kind, v) == v \in [Bodies -> Leftover] /\ Running(kind, v) /\ Waiting(kind, v)

(* Nothing is left behind of the handlers.  Of the actions, those of the   *)
(* tries below a finally that a return has gone to are, while it stands in *)
(* that finally and until the return is over.                              *)
Plain == [b \in Bodies |-> [junk |-> 0, from |-> 0]]
Alive(b) == b = Main \/ (b \in Coros /\ (Idle(b) \/ state[b] = "running"))
Returned(v) ==
  \A b \in Bodies : Alive(b) =>
    \/ v[b].from = 0
    \/ v[b].from \in Waits(pc[b])
    \/ b = Me /\ next = "return"

GenInv ==
  /\ Core
  /\ ~ended => Whole("exc", Plain)
  /\ ~ended /\ ~lost => \E v : Whole("fin", v) /\ Returned(v)

Entry(kind) == IF kind = "exc" THEN Fit ELSE Action

LEMMA KindTypes ==
  ASSUME Core, NEW kind \in Kind
  PROVE  /\ Stack(kind) \in Seq(Entry(kind)) /\ Bases(kind) \in [Bodies -> Nat]
         /\ Sides(kind) \in [Fibers -> Seq(Entry(kind))]
         /\ \A c \in Coros : Put(kind, c) \in Seq(Entry(kind))
         /\ \A b \in Bodies \ Gens : Bases(kind)[b] = 0
<1>1. /\ exc \in Seq(Fit) /\ fin \in Seq(Action) /\ base \in [Bodies -> [exc: Nat, fin: Nat]]
      /\ park \in [Gens -> FitStacks] /\ side \in [Fibers -> FitStacks]
      /\ \A b \in Bodies \ Gens : base[b] = NoBase
  BY DEF Core, Typed, Control
<1>2. \A two \in FitStacks : Of(kind, two) \in Seq(Entry(kind))
  BY DEF FitStacks, Of, Entry
<1>3. \A two \in [exc: Nat, fin: Nat] : Of(kind, two) \in Nat
  BY DEF Of
<1>4. Of(kind, NoBase) = 0
  BY DEF Of, NoBase
<1>5. Stack(kind) \in Seq(Entry(kind))
  BY <1>1 DEF Stack, Entry
<1>6. Bases(kind) \in [Bodies -> Nat] /\ \A b \in Bodies \ Gens : Bases(kind)[b] = 0
  BY <1>1, <1>3, <1>4 DEF Bases
<1>7. Sides(kind) \in [Fibers -> Seq(Entry(kind))]
  BY <1>1, <1>2 DEF Sides
<1>8. ASSUME NEW c \in Coros PROVE Put(kind, c) \in Seq(Entry(kind))
  <2>1. c \in Fibers => side[c] \in FitStacks
    BY <1>1
  <2>2. c \notin Fibers => park[c] \in FitStacks
    BY <1>1, Sorts
  <2> QED BY <1>2, <2>1, <2>2 DEF Put
<1> QED BY <1>5, <1>6, <1>7, <1>8

LEMMA WholeForms ==
  ASSUME Core, NEW kind \in Kind, NEW v, Whole(kind, v)
  PROVE  Forms(chain, Bases(kind), v) /\ chain \in Seq(Bodies) /\ chain # << >>
BY KindTypes, ChainIs DEF Whole, Forms, Core, Typed

(* What waits still waits, or its part is given.                           *)
LEMMA WaitingRest ==
  ASSUME NEW kind \in Kind, NEW v, NEW w, Whole(kind, v),
         \A c \in Coros : Idle(c)' =>
           \/ Idle(c) /\ w[c] = v[c] /\ pc'[c] = pc[c] /\ Put(kind, c)' = Put(kind, c)
           \/ Owns(kind, Put(kind, c)', 0, Len(Put(kind, c)'), c, w, pc')
  PROVE  Waiting(kind, w)'
<1>1. ASSUME NEW c \in Coros, Idle(c)'
      PROVE  Owns(kind, Put(kind, c)', 0, Len(Put(kind, c)'), c, w, pc')
  <2>1. CASE Idle(c) /\ w[c] = v[c] /\ pc'[c] = pc[c] /\ Put(kind, c)' = Put(kind, c)
    <3>1. Owns(kind, Put(kind, c), 0, Len(Put(kind, c)), c, v, pc)
      BY <2>1 DEF Whole, Waiting
    <3> QED BY <2>1, <3>1 DEF Owns
  <2> QED BY <1>1, <2>1
<1> QED BY <1>1 DEF Waiting

(* The parts when the bodies over the n-th end and it has changed its own. *)
TopChange(kind, n, v, w) ==
  /\ Over(chain, n, Len(chain) + 1) /\ chain' = SubSeq(chain, 1, n) /\ side' = side /\ park' = park
  /\ \A c \in Coros : Idle(c)' => Idle(c)
  /\ \A b \in Bodies : b \notin Ending(n) => base'[b] = base[b]
  /\ \A b \in Bodies : b \notin Ending(n) /\ b # chain[n] => pc'[b] = pc[b]
  /\ \A b \in Bodies : b # chain[n] => w[b] = v[b]
  /\ Owns(kind, Stack(kind)', Bases(kind)[chain[n]], Len(Stack(kind)'), chain[n], w, pc')
  /\ \A i \in 1 .. Bases(kind)[chain[n]] : Stack(kind)'[i] = Stack(kind)[i]

LEMMA WholeTopChange ==
  ASSUME Core, Core', NEW kind \in Kind, NEW v, Whole(kind, v), NEW n \in 1 .. Len(chain),
         NEW w \in [Bodies -> Leftover], TopChange(kind, n, v, w)
  PROVE  Whole(kind, w)'
<1> SUFFICES
      ASSUME Over(chain, n, Len(chain) + 1),
             chain' = SubSeq(chain, 1, n), side' = side, park' = park,
             \A c \in Coros : Idle(c)' => Idle(c),
             \A b \in Bodies : b \notin Ending(n) => base'[b] = base[b],
             \A b \in Bodies : b \notin Ending(n) /\ b # chain[n] => pc'[b] = pc[b],
             \A b \in Bodies : b # chain[n] => w[b] = v[b],
             Owns(kind, Stack(kind)', Bases(kind)[chain[n]], Len(Stack(kind)'), chain[n], w, pc'),
             \A i \in 1 .. Bases(kind)[chain[n]] : Stack(kind)'[i] = Stack(kind)[i]
      PROVE  Whole(kind, w)'
  BY DEF TopChange
<1> DEFINE B == Bases(kind)
           B2 == Bases(kind)'
           y == Stack(kind)'
<1>1. /\ Len(chain) \in Nat /\ n \in Nat /\ n <= Len(chain) /\ DOMAIN chain = 1 .. Len(chain)
      /\ \A i \in 1 .. Len(chain) : chain[i] \in Bodies
      /\ \A i, j \in 1 .. Len(chain) : chain[i] = chain[j] => i = j
      /\ \A c \in Coros : state[c] = "running" <=> \E i \in 1 .. Len(chain) : chain[i] = c
  BY ChainIs DEF Core, Control
<1>2. \A i \in 1 .. n : chain[i] \notin Ending(n) /\ chain[i] \in Bodies
  BY <1>1 DEF Ending
<1>3. \A i \in 1 .. n - 1 : i \in 1 .. n /\ chain[i] # chain[n]
  BY <1>1
<1>4. \A i \in 1 .. n : B2[chain[i]] = B[chain[i]]
  BY <1>2 DEF Bases
<1>5. Alike(chain, B, v, pc, chain, B2, w, pc', n - 1)
  BY <1>2, <1>3, <1>4 DEF Alike
<1>6. Forms(chain, B, v) /\ Live(kind, chain, B, v, pc, Stack(kind), Sides(kind))
  BY WholeForms DEF Whole, Running
<1>7. B2 \in [Bodies -> Nat] /\ y \in Seq(Entry(kind)) /\ Sides(kind)' = Sides(kind)
  <2>1. (Bases(kind) \in [Bodies -> Nat] /\ Stack(kind) \in Seq(Entry(kind)))'
    BY KindTypes, PTL
  <2> QED BY <2>1 DEF Sides, Entry
<1>8. Forms(chain, B2, w) /\ Len(y) \in Nat /\ n \in 1 .. n
  BY <1>1, <1>6, <1>7 DEF Forms
<1> HIDE DEF B, B2, y
<1>9. Owns(kind, y, B[chain[n]], Len(y), chain[n], w, pc') /\ \A i \in 1 .. B[chain[n]] : y[i] = Stack(kind)[i]
  BY DEF B, y
<1>10. Live(kind, SubSeq(chain, 1, n), B2, w, pc', y, Sides(kind))
  BY <1>4, <1>5, <1>6, <1>8, <1>9, LiveCut
<1>11. Running(kind, w)'
  BY <1>7, <1>10 DEF Running, B2, y
<1>12. ASSUME NEW c \in Coros, Idle(c)'
       PROVE  Idle(c) /\ w[c] = v[c] /\ pc'[c] = pc[c] /\ Put(kind, c)' = Put(kind, c)
  <2>1. Idle(c) /\ state[c] # "running" /\ c \in Bodies
    BY <1>12, Sorts DEF Idle
  <2>2. \A i \in 1 .. Len(chain) : chain[i] # c
    BY <1>1, <2>1
  <2>3. c # chain[n] /\ c \notin Ending(n)
    BY <1>1, <2>2 DEF Ending
  <2> QED BY <2>1, <2>3 DEF Put
<1>13. Waiting(kind, w)'
  BY <1>12, WaitingRest
<1> QED BY <1>11, <1>13 DEF Whole

(* A coroutine is entered.                                                 *)
LEMMA WholeEnter ==
  ASSUME Core, Core', NEW kind \in Kind, NEW v, Whole(kind, v),
         NEW c \in Coros, Idle(c), Enter(c)
  PROVE  Whole(kind, v)'
<1> DEFINE B == Bases(kind)
           B2 == Bases(kind)'
           x == Stack(kind)
           y == Stack(kind)'
           k == Put(kind, c)
<1>1. /\ chain' = Append(chain, c) /\ pc' = pc /\ state' = [state EXCEPT ![c] = "running"]
      /\ \A i \in 1 .. Len(chain) : chain[i] # c /\ chain[i] \in Bodies
  BY EnterCore, ChainIs DEF Enter, Idle, Core
<1>2. c \in Bodies /\ (c \notin Fibers => c \in Gens) /\ (c \in Fibers => c \notin Gens)
  BY Sorts
<1>3. Forms(chain, B, v) /\ Live(kind, chain, B, v, pc, x, Sides(kind)) /\ v \in [Bodies -> Leftover]
  BY WholeForms DEF Whole, Running
<1>4. /\ x \in Seq(Entry(kind)) /\ k \in Seq(Entry(kind)) /\ B2 \in [Bodies -> Nat]
      /\ (c \in Fibers => B2[c] = 0)
  <2>1. x \in Seq(Entry(kind)) /\ k \in Seq(Entry(kind))
    BY KindTypes
  <2>2. (Bases(kind) \in [Bodies -> Nat] /\ \A b \in Bodies \ Gens : Bases(kind)[b] = 0)'
    BY KindTypes, PTL
  <2> QED BY <1>2, <2>1, <2>2
<1>5. Owns(kind, k, 0, Len(k), c, v, pc)
  BY DEF Whole, Waiting
<1>6. Forms(chain, B2, v)
  BY <1>3, <1>4 DEF Forms
<1>7. \A i \in 1 .. Len(chain) : B2[chain[i]] = B[chain[i]]
  <2>1. \A b \in Bodies : b # c => base'[b] = base[b]
    BY DEF Enter, Core, Typed
  <2> QED BY <1>1, <2>1 DEF Bases
<1>8. Waiting(kind, v)'
  <2>1. ASSUME NEW d \in Coros, Idle(d)'
        PROVE  Idle(d) /\ pc'[d] = pc[d] /\ Put(kind, d)' = Put(kind, d)
    <3>1. state \in [Coros -> States] /\ side \in [Fibers -> FitStacks] /\ park \in [Gens -> FitStacks]
      BY DEF Core, Typed
    <3>2. d # c /\ Idle(d)
      BY <1>1, <2>1, <3>1 DEF Idle
    <3>3. d \in Fibers => side'[d] = side[d]
      BY <3>1, <3>2 DEF Enter
    <3>4. d \notin Fibers => park'[d] = park[d]
      BY <3>1, <3>2, Sorts DEF Enter
    <3> QED BY <1>1, <3>2, <3>3, <3>4 DEF Put
  <2> QED BY <2>1, WaitingRest
<1>9. CASE c \notin Fibers
  <2>1. /\ base' = [base EXCEPT ![c] = Depth] /\ side' = side
        /\ exc' = exc \o park[c].exc /\ fin' = fin \o park[c].fin
    BY <1>9 DEF Enter
  <2>2. y = x \o k /\ Sides(kind)' = Sides(kind)
    BY <1>9, <2>1 DEF Stack, Put, Of, Sides
  <2>3. B2[c] = Len(x)
    <3>1. base'[c] = Depth
      BY <1>2, <2>1 DEF Core, Typed
    <3> QED BY <1>2, <3>1 DEF Bases, Depth, Of, Stack
  <2> HIDE DEF B, B2, x, y, k
  <2>4. Live(kind, Append(chain, c), B2, v, pc, x \o k, Sides(kind))
    BY <1>2, <1>3, <1>4, <1>5, <1>6, <1>7, <1>9, <2>3, LiveEnterGenerator
  <2>5. Running(kind, v)'
    BY <1>1, <2>2, <2>4 DEF Running, B2, y
  <2> QED BY <1>3, <1>8, <2>5 DEF Whole
<1>10. CASE c \in Fibers
  <2>1. /\ exc' = side[c].exc /\ fin' = side[c].fin
        /\ side' = [side EXCEPT ![c] = [exc |-> exc, fin |-> fin]]
    BY <1>10 DEF Enter
  <2>2. side \in [Fibers -> FitStacks]
    BY DEF Core, Typed
  <2>3. y = k
    BY <1>10, <2>1 DEF Stack, Put, Of
  <2>4. Sides(kind)'[c] = x
    BY <1>10, <2>1, <2>2 DEF Sides, Of, Stack
  <2>5. \A i \in 1 .. Len(chain) : chain[i] \in Fibers => Sides(kind)'[chain[i]] = Sides(kind)[chain[i]]
    BY <1>1, <2>1, <2>2 DEF Sides
  <2> DEFINE S2 == Sides(kind)'
  <2> HIDE DEF B, B2, x, y, k, S2
  <2>6. Live(kind, Append(chain, c), B2, v, pc, k, S2)
    <3>1. S2[c] = x /\ \A i \in 1 .. Len(chain) : chain[i] \in Fibers => S2[chain[i]] = Sides(kind)[chain[i]]
      BY <2>4, <2>5 DEF S2
    <3>2. B2[c] = 0
      BY <1>4, <1>10
    <3> QED BY <1>2, <1>3, <1>5, <1>7, <1>10, <3>1, <3>2, LiveEnterFiber
  <2>7. Running(kind, v)'
    BY <1>1, <2>3, <2>6 DEF Running, B2, y, S2
  <2> QED BY <1>3, <1>8, <2>7 DEF Whole
<1> QED BY <1>9, <1>10

(* The parts under and of a running generator.                             *)
LEMMA UnderMe ==
  ASSUME Core, NEW kind \in Kind, NEW v, Whole(kind, v), Me \in Gens,
         NEW n \in 1 .. Len(chain), n = Len(chain) - 1
  PROVE  /\ Over(chain, n, Len(chain) + 1)
         /\ Bases(kind)[Me] \in 0 .. Len(Stack(kind)) /\ Bases(kind)[chain[n]] <= Bases(kind)[Me]
         /\ Bases(kind)[chain[n]] \in Nat
         /\ Owns(kind, Stack(kind), Bases(kind)[Me], Len(Stack(kind)), Me, v, pc)
         /\ Owns(kind, Stack(kind), Bases(kind)[chain[n]], Bases(kind)[Me], chain[n], v, pc)
<1> DEFINE B == Bases(kind)
           x == Stack(kind)
           L == Len(chain)
<1>1. L \in Nat /\ n \in Nat /\ n + 1 = L /\ Me = chain[L] /\ Me \in Bodies /\ chain[n] \in Bodies
  BY ChainIs DEF Core
<1>2. Me \notin Fibers
  BY Sorts
<1>3. Over(chain, n, L + 1)
  <2>1. \A i \in n + 1 .. L + 1 - 1 : i = L
    BY <1>1
  <2> QED BY <1>1, <1>2, <2>1 DEF Over
<1>4. Forms(chain, B, v) /\ Live(kind, chain, B, v, pc, x, Sides(kind)) /\ chain # << >>
  BY WholeForms DEF Whole, Running
<1>5. B \in [Bodies -> Nat] /\ x \in Seq(Entry(kind)) /\ v \in [Bodies -> Leftover]
  BY KindTypes DEF Whole
<1>6. Last(chain) = Me
  BY DEF Me
<1> HIDE DEF B, x
<1>7. Owns(kind, x, B[Me], Len(x), Me, v, pc)
  BY <1>4, <1>6, LiveLast
<1>8. Stands(kind, chain, B, v, pc, x, n, L + 1)
  BY <1>3, <1>4, LiveOnTop
<1>9. Roof(chain, B, x, n, L + 1) = B[Me]
  <2>1. n + 1 # L + 1
    BY <1>1
  <2> QED BY <1>1, <2>1 DEF Roof
<1>10. Owns(kind, x, B[chain[n]], B[Me], chain[n], v, pc)
  BY <1>8, <1>9 DEF Stands
<1>11. B[Me] \in Nat /\ B[chain[n]] \in Nat /\ Len(x) \in Nat
  BY <1>1, <1>5
<1>12. B[Me] <= Len(x) /\ B[chain[n]] <= B[Me]
  <2>1. v[Me] \in Leftover /\ v[chain[n]] \in Leftover
    BY <1>1, <1>5
  <2>2. B[Me] <= Len(x)
    BY <1>7, <1>11, <2>1, OwnsBounds
  <2>3. B[chain[n]] <= B[Me]
    BY <1>10, <1>11, <2>1, OwnsBounds
  <2> QED BY <2>2, <2>3
<1>13. B[Me] \in 0 .. Len(x)
  BY <1>11, <1>12
<1> QED BY <1>3, <1>7, <1>10, <1>11, <1>12, <1>13 DEF B, x

(* A part stays where it is when the stack is cut above it.                *)
LEMMA OwnsCut ==
  ASSUME NEW kind, NEW T, NEW s \in Seq(T), NEW lo \in Nat, NEW hi \in 0 .. Len(s), lo <= hi,
         NEW b, NEW v, NEW p, v[b] \in Leftover, Owns(kind, s, lo, hi, b, v, p),
         NEW t, Len(t) \in Nat, hi <= Len(t), \A i \in 1 .. hi : t[i] = s[i]
  PROVE  Owns(kind, t, lo, hi, b, v, p)
<1>1. PICK d \in Int : d = 0
  OBVIOUS
<1>2. lo + d >= 0 /\ hi + d <= Len(t) /\ lo + d = lo /\ hi + d = hi /\ hi \in Nat
  BY <1>1
<1>3. ASSUME NEW i \in lo + 1 .. hi PROVE t[i + d] = s[i]
  <2>1. i \in 1 .. hi /\ i + d = i
    BY <1>1, <1>2
  <2> QED BY <2>1
<1>4. Owns(kind, t, lo + d, hi + d, b, v, p)
  BY <1>2, <1>3, OwnsMoves
<1> QED BY <1>2, <1>4

LEMMA NotRunning ==
  ASSUME Core, NEW c \in Coros, Idle(c)
  PROVE  \A i \in 1 .. Len(chain) : chain[i] # c
BY ChainIs DEF Core, Control, Idle

LEMMA PrimedKinds ==
  ASSUME Core', NEW kind \in Kind
  PROVE  /\ Stack(kind)' \in Seq(Entry(kind)) /\ Bases(kind)' \in [Bodies -> Nat]
         /\ Sides(kind)' \in [Fibers -> Seq(Entry(kind))]
<1>1. (/\ Stack(kind) \in Seq(Entry(kind)) /\ Bases(kind) \in [Bodies -> Nat]
       /\ Sides(kind) \in [Fibers -> Seq(Entry(kind))])'
  BY KindTypes, PTL
<1>2. Entry(kind)' = Entry(kind)
  BY DEF Entry
<1> QED BY <1>1, <1>2

(* A generator suspends or is over: the body under it runs on.             *)
LEMMA WholePop ==
  ASSUME Core, Core', NEW kind \in Kind, NEW v, Whole(kind, v), NEW g \in Gens, g = Me,
         NEW n \in 1 .. Len(chain), n = Len(chain) - 1,
         chain' = SubSeq(chain, 1, n), side' = side,
         Stack(kind)' = Cut(Stack(kind), Bases(kind)[g]),
         \A b \in Bodies : b # g => pc'[b] = pc[b] /\ base'[b] = base[b],
         \A c \in Coros : Idle(c)' /\ c # g => Idle(c) /\ Put(kind, c)' = Put(kind, c),
         Idle(g)' => /\ pc'[g] = pc[g]
                      /\ Put(kind, g)' = Above(Stack(kind), Bases(kind)[g])
  PROVE  Whole(kind, v)'
<1> DEFINE B == Bases(kind)
           B2 == Bases(kind)'
           x == Stack(kind)
           y == Stack(kind)'
<1>1. /\ Over(chain, n, Len(chain) + 1)
      /\ B[g] \in 0 .. Len(x) /\ B[chain[n]] <= B[g] /\ B[chain[n]] \in Nat
      /\ Owns(kind, x, B[g], Len(x), g, v, pc)
      /\ Owns(kind, x, B[chain[n]], B[g], chain[n], v, pc)
  BY UnderMe
<1>2. /\ Forms(chain, B, v) /\ Live(kind, chain, B, v, pc, x, Sides(kind)) /\ v \in [Bodies -> Leftover]
      /\ x \in Seq(Entry(kind)) /\ Len(x) \in Nat
  BY WholeForms, KindTypes DEF Whole, Running
<1>3. B2 \in [Bodies -> Nat] /\ Sides(kind)' = Sides(kind)
  BY PrimedKinds DEF Sides
<1>4. /\ y \in Seq(Entry(kind)) /\ Len(y) = B[g] /\ \A i \in 1 .. B[g] : y[i] = x[i]
  <2>1. PICK j \in 0 .. Len(x) : j = B[g]
    BY <1>1
  <2>2. y = Cut(x, j)
    BY <2>1
  <2> HIDE DEF x, y
  <2>3. y \in Seq(Entry(kind)) /\ Len(y) = j /\ \A i \in 1 .. j : y[i] = x[i]
    BY <1>2, <2>2, CutIs
  <2> QED BY <2>1, <2>3
<1>5. /\ Len(chain) \in Nat /\ n \in Nat /\ g = chain[Len(chain)] /\ n + 1 = Len(chain)
      /\ \A i \in 1 .. Len(chain) : chain[i] \in Bodies
      /\ \A i, j \in 1 .. Len(chain) : chain[i] = chain[j] => i = j
  BY ChainIs DEF Core, Control
<1>6. \A i \in 1 .. n : chain[i] # g /\ chain[i] \in Bodies
  BY <1>5
<1>7. \A i \in 1 .. n : B2[chain[i]] = B[chain[i]]
  BY <1>6 DEF Bases
<1>8. Alike(chain, B, v, pc, chain, B2, v, pc', n - 1)
  <2>1. \A i \in 1 .. n - 1 : i \in 1 .. n
    BY <1>5
  <2> QED BY <1>6, <1>7, <2>1 DEF Alike
<1>9. Forms(chain, B2, v)
  BY <1>2, <1>3 DEF Forms
<1> HIDE DEF B, B2, x, y
<1>10. Owns(kind, y, B[chain[n]], Len(y), chain[n], v, pc')
  <2>1. v[chain[n]] \in Leftover /\ pc'[chain[n]] = pc[chain[n]]
    BY <1>2, <1>6
  <2>2. Owns(kind, y, B[chain[n]], B[g], chain[n], v, pc)
    <3>1. Len(y) \in Nat /\ B[g] <= Len(y) /\ B[g] \in 0 .. Len(x)
      BY <1>1, <1>4
    <3> QED BY <1>1, <1>2, <1>4, <2>1, <3>1, OwnsCut
  <2> QED BY <1>4, <2>1, <2>2 DEF Owns
<1>11. Live(kind, SubSeq(chain, 1, n), B2, v, pc', y, Sides(kind))
  <2>1. \A i \in 1 .. B[chain[n]] : y[i] = x[i]
    BY <1>1, <1>4
  <2>2. Len(y) \in Nat /\ B2[chain[n]] = B[chain[n]]
    BY <1>1, <1>4, <1>5, <1>7
  <2>3. Over(chain, n, Len(chain) + 1) /\ Forms(chain, B, v) /\ Live(kind, chain, B, v, pc, x, Sides(kind))
    BY <1>1, <1>2
  <2>4. PICK h \in Int : h = n - 1
    BY <1>5
  <2>5. Alike(chain, B, v, pc, chain, B2, v, pc', h)
    BY <1>8, <2>4
  <2> QED BY <1>9, <1>10, <2>1, <2>2, <2>3, <2>4, <2>5, LiveCutAt
<1>12. Running(kind, v)'
  BY <1>3, <1>11 DEF Running, B2, y
<1>13. ASSUME NEW c \in Coros, Idle(c)', c # g
       PROVE  Idle(c) /\ pc'[c] = pc[c] /\ Put(kind, c)' = Put(kind, c)
  BY <1>13, Sorts
<1>14. ASSUME Idle(g)'
       PROVE  Owns(kind, Put(kind, g)', 0, Len(Put(kind, g)'), g, v, pc')
  <2> DEFINE t == Put(kind, g)'
  <2>1. /\ t = Above(x, B[g]) /\ pc'[g] = pc[g]
    BY <1>14 DEF B, x
  <2>2. Len(t) = Len(x) - B[g] /\ \A i \in 1 .. Len(x) - B[g] : t[i] = x[B[g] + i]
    <3>1. PICK j \in 0 .. Len(x) : j = B[g]
      BY <1>1
    <3>2. t = Above(x, j)
      BY <2>1, <3>1
    <3> HIDE DEF t
    <3>3. Len(t) = Len(x) - j /\ \A i \in 1 .. Len(x) - j : t[i] = x[j + i]
      BY <1>2, <3>2, AboveIs
    <3> QED BY <3>1, <3>3
  <2> HIDE DEF t
  <2>3. PICK lo \in Nat : lo = B[g]
    BY <1>1
  <2>4. PICK hi \in Nat : hi = Len(x)
    BY <1>2
  <2>5. PICK d \in Int : d = 0 - lo
    BY <2>3
  <2>6. lo + d >= 0 /\ hi + d <= Len(t) /\ lo + d = 0 /\ hi + d = Len(t) /\ lo <= hi
    BY <1>1, <2>2, <2>3, <2>4, <2>5
  <2>7. ASSUME NEW i \in lo + 1 .. hi PROVE t[i + d] = x[i]
    <3>1. i + d \in 1 .. hi - lo /\ lo + (i + d) = i
      BY <2>5, <2>6
    <3> QED BY <2>2, <2>3, <2>4, <3>1
  <2>8. v[g] \in Leftover /\ Owns(kind, x, lo, hi, g, v, pc)
    BY <1>1, <1>2, <1>5, <2>3, <2>4
  <2>9. Owns(kind, t, lo + d, hi + d, g, v, pc)
    BY <2>6, <2>7, <2>8, OwnsMoves
  <2>10. Owns(kind, t, 0, Len(t), g, v, pc)
    BY <2>6, <2>9
  <2> QED BY <2>1, <2>10 DEF Owns, t
<1>15. Waiting(kind, v)'
  <2>1. ASSUME NEW c \in Coros, Idle(c)'
        PROVE  \/ Idle(c) /\ v[c] = v[c] /\ pc'[c] = pc[c] /\ Put(kind, c)' = Put(kind, c)
               \/ Owns(kind, Put(kind, c)', 0, Len(Put(kind, c)'), c, v, pc')
    <3>1. CASE c = g
      BY <1>14, <2>1, <3>1
    <3>2. CASE c # g
      BY <1>13, <2>1, <3>2
    <3> QED BY <3>1, <3>2
  <2> QED BY <2>1, WaitingRest
<1> QED BY <1>2, <1>12, <1>15 DEF Whole

(* A fiber suspends, is over or lets an exception through: the stacks it   *)
(* put aside are back.                                                     *)
BackChange(kind, n, f, v) ==
  /\ chain[n] = f /\ n > 1
  /\ chain' = SubSeq(chain, 1, n - 1) /\ Stack(kind)' = Of(kind, side[f])
  /\ \A g \in Fibers : g # f => side'[g] = side[g]
  /\ \A b \in Bodies : b \notin {chain[i] : i \in n .. Len(chain)} =>
       pc'[b] = pc[b] /\ base'[b] = base[b]
  /\ \A c \in Coros : Idle(c)' =>
       \/ Idle(c) /\ Put(kind, c)' = Put(kind, c)
       \/ Owns(kind, Put(kind, c)', 0, Len(Put(kind, c)'), c, v, pc')

LEMMA WholeBack ==
  ASSUME Core, Core', NEW kind \in Kind, NEW v, Whole(kind, v),
         NEW n \in 1 .. Len(chain), NEW f \in Fibers, BackChange(kind, n, f, v)
  PROVE  Whole(kind, v)'
<1> SUFFICES
      ASSUME chain[n] = f, n > 1,
             chain' = SubSeq(chain, 1, n - 1), Stack(kind)' = Of(kind, side[f]),
             \A g \in Fibers : g # f => side'[g] = side[g],
             \A b \in Bodies : b \notin {chain[i] : i \in n .. Len(chain)} =>
               pc'[b] = pc[b] /\ base'[b] = base[b],
             \A c \in Coros : Idle(c)' =>
               \/ Idle(c) /\ Put(kind, c)' = Put(kind, c)
               \/ Owns(kind, Put(kind, c)', 0, Len(Put(kind, c)'), c, v, pc')
      PROVE  Whole(kind, v)'
  BY DEF BackChange
<1> DEFINE B == Bases(kind)
           B2 == Bases(kind)'
           S2 == Sides(kind)'
           Out == {chain[i] : i \in n .. Len(chain)}
<1>1. /\ Forms(chain, B, v) /\ Live(kind, chain, B, v, pc, Stack(kind), Sides(kind))
      /\ v \in [Bodies -> Leftover]
  BY WholeForms DEF Whole, Running
<1>2. /\ Len(chain) \in Nat /\ n \in Nat /\ n <= Len(chain)
      /\ \A i \in 1 .. Len(chain) : chain[i] \in Bodies
      /\ \A i, j \in 1 .. Len(chain) : chain[i] = chain[j] => i = j
  BY ChainIs DEF Core, Control
<1>3. \A i \in 1 .. n - 1 : chain[i] \notin Out /\ chain[i] # f /\ chain[i] \in Bodies
  BY <1>2
<1>4. \A i \in 1 .. n - 1 : B2[chain[i]] = B[chain[i]] /\ pc'[chain[i]] = pc[chain[i]]
  BY <1>3 DEF Bases
<1>5. Alike(chain, B, v, pc, chain, B2, v, pc', n - 1)
  BY <1>4 DEF Alike
<1>6. \A i \in 1 .. n - 1 : chain[i] \in Fibers => S2[chain[i]] = Sides(kind)[chain[i]]
  BY <1>3 DEF Sides
<1>7. Stack(kind)' = Sides(kind)[chain[n]]
  BY DEF Sides
<1> HIDE DEF B, B2, S2
<1>8. Live(kind, SubSeq(chain, 1, n - 1), B2, v, pc', Sides(kind)[chain[n]], S2)
  BY <1>1, <1>5, <1>6, LiveLeave
<1>9. Running(kind, v)'
  BY <1>7, <1>8 DEF Running, B2, S2
<1>10. ASSUME NEW c \in Coros, Idle(c) PROVE pc'[c] = pc[c]
  <2>1. \A i \in 1 .. Len(chain) : chain[i] # c
    BY <1>10, NotRunning
  <2>2. c \notin Out /\ c \in Bodies
    BY <1>2, <2>1, Sorts
  <2> QED BY <2>2
<1>11. Waiting(kind, v)'
  BY <1>10, WaitingRest
<1> QED BY <1>1, <1>9, <1>11 DEF Whole

LEMMA WholeSuspend ==
  ASSUME Core, Core', Me \in Coros, Suspend, NEW kind \in Kind, NEW v, Whole(kind, v)
  PROVE  Whole(kind, v)'
<1>1. /\ state \in [Coros -> States] /\ base \in [Bodies -> [exc: Nat, fin: Nat]]
      /\ park \in [Gens -> FitStacks] /\ side \in [Fibers -> FitStacks]
      /\ Me \in Bodies /\ Me = chain[Len(chain)] /\ Len(chain) \in 1 .. Len(chain)
      /\ Len(chain) \in Nat /\ Len(chain) > 1
  <2>1. /\ Me \in Bodies /\ Me = chain[Len(chain)] /\ Len(chain) \in Nat /\ Len(chain) > 1
    BY ChainIs DEF Core
  <2>2. /\ state \in [Coros -> States] /\ base \in [Bodies -> [exc: Nat, fin: Nat]]
        /\ park \in [Gens -> FitStacks] /\ side \in [Fibers -> FitStacks]
    BY DEF Core, Typed
  <2> QED BY <2>1, <2>2
<1>8. PICK me \in Coros : me = Me
  OBVIOUS
<1>2. PICK n \in 1 .. Len(chain) : n = Len(chain) - 1
  BY LeavingChain
<1>3. chain' = SubSeq(chain, 1, n) /\ pc' = pc /\ base' = [base EXCEPT ![Me] = NoBase]
  BY <1>2, LeavingChain DEF Suspend
<1>4. \A b \in Bodies : b # me => pc'[b] = pc[b] /\ base'[b] = base[b]
  BY <1>1, <1>3, <1>8
<1>5. \A c \in Coros : c # me => state'[c] = state[c]
  BY <1>1, <1>8 DEF Suspend
<1>6. CASE Me \in Fibers
  <2>1. /\ exc' = side[Me].exc /\ fin' = side[Me].fin
        /\ side' = [side EXCEPT ![Me] = [exc |-> exc, fin |-> fin]] /\ park' = park
    BY <1>6 DEF Suspend
  <2>2. Stack(kind)' = Of(kind, side[Me])
    BY <2>1 DEF Stack, Of
  <2>3. Put(kind, me)' = Stack(kind)
    BY <1>1, <1>6, <1>8, <2>1 DEF Stack, Of, Put
  <2>4. Owns(kind, Stack(kind), 0, Len(Stack(kind)), Me, v, pc)
    <3>1. Bases(kind)[Me] = 0
      BY <1>1, <1>6, KindTypes, Sorts
    <3>2. Forms(chain, Bases(kind), v) /\ chain # << >> /\ Live(kind, chain, Bases(kind), v, pc, Stack(kind), Sides(kind))
      BY WholeForms DEF Whole, Running
    <3> QED BY <3>1, <3>2, LiveLast DEF Me
  <2>5. ASSUME NEW c \in Coros, Idle(c)'
        PROVE  \/ Idle(c) /\ Put(kind, c)' = Put(kind, c)
               \/ Owns(kind, Put(kind, c)', 0, Len(Put(kind, c)'), c, v, pc')
    <3>1. CASE c = me
      BY <1>3, <1>8, <2>3, <2>4, <3>1
    <3>2. CASE c # me
      BY <1>1, <1>5, <1>8, <2>1, <2>5, <3>2 DEF Idle, Put
    <3> QED BY <3>1, <3>2
  <2>6. \A g \in Fibers : g # me => side'[g] = side[g]
    BY <1>1, <1>8, <2>1
  <2>7. \A b \in Bodies : b \notin {chain[i] : i \in Len(chain) .. Len(chain)} => b # me
    BY <1>1, <1>8
  <2>8. \A b \in Bodies : b \notin {chain[i] : i \in Len(chain) .. Len(chain)} =>
           pc'[b] = pc[b] /\ base'[b] = base[b]
    BY <1>4, <2>7
  <2>9. PICK m \in 1 .. Len(chain) : m = Len(chain)
    BY <1>1
  <2>10. chain' = SubSeq(chain, 1, m - 1) /\ chain[m] = Me /\ m > 1
    BY <1>1, <1>2, <1>3, <2>9
  <2>11. \A b \in Bodies : b \notin {chain[i] : i \in m .. Len(chain)} =>
           pc'[b] = pc[b] /\ base'[b] = base[b]
    BY <2>8, <2>9
  <2>12. me \in Fibers /\ chain[m] = me /\ Stack(kind)' = Of(kind, side[me])
    BY <1>6, <1>8, <2>2, <2>10
  <2>13. BackChange(kind, m, me, v)
    BY <2>5, <2>6, <2>10, <2>11, <2>12 DEF BackChange
  <2> QED BY <2>12, <2>13, WholeBack
<1>7. CASE Me \notin Fibers
  <2> DEFINE A == [exc |-> Above(exc, base[Me].exc), fin |-> Above(fin, base[Me].fin)]
  <2>1. /\ exc' = Cut(exc, base[Me].exc) /\ fin' = Cut(fin, base[Me].fin) /\ side' = side
        /\ park' = [park EXCEPT ![Me] = IF closing[Me] THEN Nothing ELSE A]
        /\ state' = [state EXCEPT ![Me] = IF closing[Me] THEN "closed" ELSE "suspended"]
    BY <1>7 DEF Suspend
  <2>2. Me \in Gens
    BY <1>7, Sorts
  <2>3. Stack(kind)' = Cut(Stack(kind), Bases(kind)[Me])
    BY <1>1, <2>1 DEF Stack, Bases, Of
  <2>4. ASSUME NEW c \in Coros, Idle(c)', c # me
        PROVE  Idle(c) /\ Put(kind, c)' = Put(kind, c)
    BY <1>1, <1>5, <1>8, <2>1, <2>4, Sorts DEF Idle, Put
  <2>5. ASSUME Idle(me)'
        PROVE  Put(kind, me)' = Above(Stack(kind), Bases(kind)[Me])
    <3>1. ~closing[Me]
      BY <1>1, <1>8, <2>1, <2>5 DEF Idle
    <3>2. park'[Me] = A
      BY <1>1, <2>1, <2>2, <3>1
    <3>3. me \notin Fibers /\ park'[me] = A
      BY <1>7, <1>8, <3>2
    <3> QED BY <1>1, <1>8, <3>3 DEF Put, Of, Stack, Bases
  <2>6. \A c \in Coros : Idle(c)' /\ c # me => Idle(c) /\ Put(kind, c)' = Put(kind, c)
    BY <2>4
  <2>7. Idle(me)' => pc'[me] = pc[me] /\ Put(kind, me)' = Above(Stack(kind), Bases(kind)[Me])
    BY <1>3, <1>8, <2>5
  <2>8. me \in Gens /\ me = Me /\ Stack(kind)' = Cut(Stack(kind), Bases(kind)[me]) /\ Bases(kind)[Me] = Bases(kind)[me]
    BY <1>8, <2>2, <2>3
  <2>9. Idle(me)' => pc'[me] = pc[me] /\ Put(kind, me)' = Above(Stack(kind), Bases(kind)[me])
    BY <2>7, <2>8
  <2> QED BY <1>2, <1>3, <1>4, <2>1, <2>6, <2>8, <2>9, WholePop
<1> QED BY <1>6, <1>7

(* Nothing changes for the bodies of the chain.                            *)
LEMMA LiveSame ==
  ASSUME NEW kind, NEW ch, NEW B, NEW v, NEW p, NEW x, NEW sd,
         Forms(ch, B, v), Live(kind, ch, B, v, p, x, sd),
         NEW B2, NEW p2, NEW sd2, Alike(ch, B, v, p, ch, B2, v, p2, Len(ch)),
         \A i \in 1 .. Len(ch) : ch[i] \in Fibers => sd2[ch[i]] = sd[ch[i]]
  PROVE  Live(kind, ch, B2, v, p2, x, sd2)
<1> DEFINE L == Len(ch)
<1>1. L \in Nat
  BY DEF Forms
<1>2. ASSUME NEW m \in 1 .. L, NEW n \in Tops(ch), m < n, Over(ch, m, n)
      PROVE  Stands(kind, ch, B2, v, p2, StackAt(ch, x, sd2, n), m, n)
  <2>1. n \in 1 .. L + 1 /\ (n = L + 1 \/ (n \in 1 .. L /\ ch[n] \in Fibers))
    BY <1>1 DEF Tops
  <2>2. StackAt(ch, x, sd2, n) = StackAt(ch, x, sd, n)
    <3>1. CASE n = L + 1
      BY <3>1 DEF StackAt
    <3>2. CASE n # L + 1
      <4>1. sd2[ch[n]] = sd[ch[n]]
        BY <2>1, <3>2
      <4> QED BY <3>2, <4>1 DEF StackAt
    <3> QED BY <3>1, <3>2
  <2>3. Stands(kind, ch, B, v, p, StackAt(ch, x, sd, n), m, n)
    BY <1>2 DEF Live
  <2>4. Alike(ch, B, v, p, ch, B2, v, p2, n - 1)
    <3>1. \A i \in 1 .. n - 1 : i \in 1 .. L
      BY <1>1, <2>1
    <3> QED BY <3>1 DEF Alike
  <2>5. m \in Nat /\ n \in Nat /\ 1 <= m
    BY <1>1, <2>1
  <2> QED BY <1>2, <2>2, <2>3, <2>4, <2>5, StandsAlike
<1> QED BY <1>2 DEF Live

LEMMA WholeSame ==
  ASSUME Core, NEW kind \in Kind, NEW v, Whole(kind, v),
         chain' = chain, Stack(kind)' = Stack(kind), base' = base,
         \A i \in 1 .. Len(chain) :
           /\ pc'[chain[i]] = pc[chain[i]]
           /\ chain[i] \in Fibers => side'[chain[i]] = side[chain[i]],
         \A c \in Coros : Idle(c)' => Idle(c) /\ pc'[c] = pc[c] /\ Put(kind, c)' = Put(kind, c)
  PROVE  Whole(kind, v)'
<1> DEFINE S2 == Sides(kind)'
<1>1. /\ Forms(chain, Bases(kind), v) /\ v \in [Bodies -> Leftover]
      /\ Live(kind, chain, Bases(kind), v, pc, Stack(kind), Sides(kind))
  BY WholeForms DEF Whole, Running
<1>2. Bases(kind)' = Bases(kind)
  BY DEF Bases
<1>3. Alike(chain, Bases(kind), v, pc, chain, Bases(kind), v, pc', Len(chain))
  BY DEF Alike
<1>4. \A i \in 1 .. Len(chain) : chain[i] \in Fibers => S2[chain[i]] = Sides(kind)[chain[i]]
  BY DEF Sides
<1> HIDE DEF S2
<1>5. Live(kind, chain, Bases(kind), v, pc', Stack(kind), S2)
  BY <1>1, <1>3, <1>4, LiveSame
<1>6. Running(kind, v)'
  BY <1>2, <1>5 DEF Running, S2
<1>7. Waiting(kind, v)'
  BY WaitingRest
<1> QED BY <1>1, <1>6, <1>7 DEF Whole

(* The part of the running body.                                           *)
LEMMA MyPart ==
  ASSUME Core, NEW kind \in Kind, NEW v, Whole(kind, v)
  PROVE  /\ Owns(kind, Stack(kind), Bases(kind)[Me], Len(Stack(kind)), Me, v, pc)
         /\ Bases(kind)[Me] \in 0 .. Len(Stack(kind)) /\ Len(Stack(kind)) \in Nat
         /\ v[Me] \in Leftover /\ v \in [Bodies -> Leftover]
         /\ Bases(kind)[Me] + v[Me].junk \in Nat
         /\ Bases(kind)[Me] + v[Me].junk <= Len(Stack(kind))
<1> DEFINE B == Bases(kind)
           x == Stack(kind)
<1>1. /\ Forms(chain, B, v) /\ chain # << >> /\ v \in [Bodies -> Leftover]
      /\ Live(kind, chain, B, v, pc, x, Sides(kind))
  BY WholeForms DEF Whole, Running
<1>2. B \in [Bodies -> Nat] /\ x \in Seq(Entry(kind)) /\ Me \in Bodies
  BY KindTypes, MineIs
<1> HIDE DEF B, x
<1>3. Owns(kind, x, B[Me], Len(x), Me, v, pc)
  BY <1>1, LiveLast DEF Me
<1>4. B[Me] \in Nat /\ v[Me] \in Leftover /\ Len(x) \in Nat
  BY <1>1, <1>2
<1>5. B[Me] + v[Me].junk \in Nat /\ B[Me] + v[Me].junk <= Len(x) /\ B[Me] <= Len(x)
  BY <1>3, <1>4, OwnsBounds
<1>6. B[Me] \in 0 .. Len(x)
  BY <1>4, <1>5
<1> QED BY <1>1, <1>3, <1>4, <1>5, <1>6 DEF B, x

(* The running body changes its own part.                                  *)
LEMMA WholeInPlace ==
  ASSUME Core, Core', NEW kind \in Kind, NEW v, Whole(kind, v),
         UNCHANGED <<state, chain, base, park, side>>,
         \A b \in Bodies : b # Me => pc'[b] = pc[b],
         NEW w \in [Bodies -> Leftover], \A b \in Bodies : b # Me => w[b] = v[b],
         Owns(kind, Stack(kind)', Bases(kind)[Me], Len(Stack(kind)'), Me, w, pc'),
         \A i \in 1 .. Bases(kind)[Me] : Stack(kind)'[i] = Stack(kind)[i]
  PROVE  Whole(kind, w)'
<1>1. chain \in Seq(Bodies) /\ Len(chain) \in Nat /\ Len(chain) >= 1 /\ Me = chain[Len(chain)]
  BY ChainIs DEF Core
<1>2. PICK n \in 1 .. Len(chain) : n = Len(chain)
  BY <1>1
<1>3. chain[n] = Me /\ Over(chain, n, Len(chain) + 1)
  BY <1>1, <1>2 DEF Over
<1>4. chain' = SubSeq(chain, 1, n)
  <2>1. n \in 0 .. Len(chain)
    BY <1>1
  <2>2. /\ SubSeq(chain, 1, n) \in Seq(Bodies) /\ Len(SubSeq(chain, 1, n)) = n
        /\ \A i \in 1 .. n : SubSeq(chain, 1, n)[i] = chain[i]
    BY <1>1, <2>1, PrefixIs
  <2>3. SubSeq(chain, 1, n) = chain
    BY <1>1, <1>2, <2>2
  <2> QED BY <2>3
<1>5. \A c \in Coros : Idle(c)' => Idle(c)
  BY DEF Idle
<1>6. TopChange(kind, n, v, w)
  BY <1>3, <1>4, <1>5 DEF TopChange
<1> QED BY <1>6, WholeTopChange

OwnChange(kind, v, w) ==
  /\ UNCHANGED <<state, chain, base, park, side>>
  /\ \A b \in Bodies : b # Me => pc'[b] = pc[b]
  /\ \A b \in Bodies : b # Me => w[b] = v[b]
  /\ Owns(kind, Stack(kind)', Bases(kind)[Me], Len(Stack(kind)'), Me, w, pc')
  /\ \A i \in 1 .. Bases(kind)[Me] : Stack(kind)'[i] = Stack(kind)[i]

LEMMA WholeOwnChange ==
  ASSUME Core, Core', NEW kind \in Kind, NEW v, Whole(kind, v),
         NEW w \in [Bodies -> Leftover], OwnChange(kind, v, w)
  PROVE  Whole(kind, w)'
BY WholeInPlace DEF OwnChange

(* Every entry of the live stack of handlers is in the part of the body it *)
(* names.                                                                  *)
Level(i, m) ==
  /\ Over(chain, m, Len(chain) + 1) /\ exc[i].owner = chain[m]
  /\ i \in Bases("exc")[chain[m]] + 1 .. Roof(chain, Bases("exc"), exc, m, Len(chain) + 1)

LEMMA StackIs == Stack("exc") = exc /\ Stack("fin") = fin /\ "exc" \in Kind /\ "fin" \in Kind
BY DEF Stack, Kind

LEMMA PlainIs == Plain \in [Bodies -> Leftover] /\ \A b \in Bodies : Plain[b].junk = 0 /\ Plain[b].from = 0
BY DEF Plain, Leftover

LEMMA HandlerSlice ==
  ASSUME NEW s, NEW lo \in Nat, NEW hi, NEW b \in Bodies, NEW p
  PROVE  Owns("exc", s, lo, hi, b, Plain, p) <=> Slice("exc", s, lo, hi, b, p[b], 0)
BY PlainIs DEF Owns

LEMMA LevelPart ==
  ASSUME Core, Whole("exc", Plain), NEW m \in 1 .. Len(chain), Over(chain, m, Len(chain) + 1)
  PROVE  /\ Slice("exc", exc, Bases("exc")[chain[m]],
                  Roof(chain, Bases("exc"), exc, m, Len(chain) + 1), chain[m], pc[chain[m]], 0)
         /\ Rise(chain, Bases("exc"), exc, m, Len(chain) + 1)
         /\ Bases("exc")[chain[m]] \in Nat
<1> DEFINE B == Bases("exc")
<1>1. Forms(chain, B, Plain) /\ Live("exc", chain, B, Plain, pc, exc, Sides("exc"))
  BY StackIs, WholeForms DEF Whole, Running
<1>2. B \in [Bodies -> Nat] /\ chain[m] \in Bodies
  BY StackIs, KindTypes, ChainIs DEF Core
<1> HIDE DEF B
<1>3. Stands("exc", chain, B, Plain, pc, exc, m, Len(chain) + 1)
  BY <1>1, LiveOnTop
<1>4. B[chain[m]] \in Nat
  BY <1>2
<1> QED BY <1>2, <1>3, <1>4, HandlerSlice DEF Stands, B

LEMMA EveryLevel ==
  ASSUME Core, Whole("exc", Plain), NEW i \in 1 .. Len(exc)
  PROVE  \E m \in 1 .. Len(chain) : Level(i, m)
<1> DEFINE B == Bases("exc")
           L == Len(chain)
<1>1. L \in Nat /\ L >= 1 /\ Len(exc) \in Nat /\ \A k \in 1 .. L : chain[k] \in Bodies
  BY ChainIs, MineIs DEF Core
<1>2. B \in [Bodies -> Nat] /\ \A b \in Bodies \ Gens : B[b] = 0
  BY StackIs, KindTypes
<1>3. PICK N \in Nat : N = L + 1
  BY <1>1
<1>4. N > 1 /\ N - 1 = L
  BY <1>1, <1>3
<1>5. \A k \in 1 .. N - 1 : B[chain[k]] \in Nat
  BY <1>1, <1>2, <1>4
<1>6. B[chain[Foot(chain, N)]] = 0
  <2>1. Bottom = Foot(chain, N) /\ Bottom \in 1 .. L /\ chain[Bottom] \in Bodies
    BY <1>1, <1>3, BottomIs
  <2>2. chain[Bottom] \notin Gens
    BY BottomIs, ChainIs, Sorts DEF Core
  <2> QED BY <1>2, <2>1, <2>2
<1> HIDE DEF B
<1>7. PICK m \in 1 .. N - 1 : Over(chain, m, N) /\ i \in B[chain[m]] + 1 .. Roof(chain, B, exc, m, N)
  BY <1>1, <1>4, <1>5, <1>6, Tiles
<1>8. m \in 1 .. L
  BY <1>4
<1>9. Slice("exc", exc, B[chain[m]], Roof(chain, B, exc, m, N), chain[m], pc[chain[m]], 0)
  BY <1>3, <1>7, <1>8, LevelPart DEF B
<1>10. exc[i].owner = chain[m]
  BY <1>7, <1>9 DEF Slice, Listed
<1> QED BY <1>3, <1>7, <1>8, <1>10 DEF Level, B

(* What an entry says of the position of its body.                         *)
LEMMA LevelEntry ==
  ASSUME Core, Whole("exc", Plain), NEW i \in 1 .. Len(exc), NEW m \in 1 .. Len(chain), Level(i, m)
  PROVE  /\ Len(exc[i].path) \in Asks(pc[chain[m]]) /\ Len(exc[i].path) \in 1 .. Len(pc[chain[m]])
         /\ Right("exc", exc[i], pc[chain[m]], 0)
         /\ \A j \in Bases("exc")[chain[m]] + 1 .. i - 1 : Len(exc[j].path) <= Len(exc[i].path) - 1
         /\ \A j \in i + 1 .. Roof(chain, Bases("exc"), exc, m, Len(chain) + 1) :
              Len(exc[j].path) > Len(exc[i].path)
<1> DEFINE B == Bases("exc")
           hi == Roof(chain, B, exc, m, Len(chain) + 1)
           p == pc[chain[m]]
<1>1. Slice("exc", exc, B[chain[m]], hi, chain[m], p, 0)
  BY LevelPart DEF Level
<1>2. i \in B[chain[m]] + 1 .. hi
  BY DEF Level
<1>3. p \in Seq(Region)
  BY ChainIs DEF Core, Typed
<1> HIDE DEF B, hi, p
<1>4. /\ Len(exc[i].path) \in Wanted("exc", p, 0) /\ Len(exc[i].path) \in 1 .. Len(p)
      /\ Right("exc", exc[i], p, 0)
      /\ \A j \in B[chain[m]] + 1 .. i - 1 : Len(exc[j].path) <= Len(exc[i].path) - 1
      /\ \A j \in i + 1 .. hi : Len(exc[j].path) > Len(exc[i].path)
  BY <1>1, <1>2, <1>3, SliceEntry
<1> QED BY <1>4 DEF Wanted, B, hi, p

(* What is still pending of a return.                                      *)
LEMMA ReturnedRest ==
  ASSUME NEW v, Returned(v), NEW w,
         \A b \in Bodies : Alive(b)' =>
           \/ /\ Alive(b) /\ w[b].from = v[b].from /\ pc'[b] = pc[b]
              /\ b # Me \/ next # "return"
           \/ w[b].from = 0
           \/ w[b].from \in Waits(pc'[b])
           \/ b = Me' /\ next' = "return"
  PROVE  Returned(w)'
<1> SUFFICES ASSUME NEW b \in Bodies, Alive(b)'
             PROVE  w[b].from = 0 \/ w[b].from \in Waits(pc'[b]) \/ (b = Me' /\ next' = "return")
  BY DEF Returned, Waits
<1>1. CASE Alive(b) /\ w[b].from = v[b].from /\ pc'[b] = pc[b] /\ (b # Me \/ next # "return")
  BY <1>1 DEF Returned
<1> QED BY <1>1

---------------------------------------------------------------------------
(* Steps of the running body in place                                      *)

LEMMA SliceNone ==
  ASSUME NEW kind \in {"exc", "fin"}, NEW w, NEW s, NEW n \in Nat, n <= Len(s), Len(s) \in Nat,
         NEW b, NEW q, Wanted(kind, q, w) = {}
  PROVE  Slice(kind, s, n, n, b, q, w)
BY DEF Slice, Listed

LEMMA AtSame ==
  ASSUME NEW path \in Seq(Region), path # << >>, NEW r \in {"try", "catch", "finally"},
         NEW q \in Seq(Region), Len(q) = Len(path), \A i \in 1 .. Len(path) - 1 : q[i] = path[i],
         q[Len(path)].kind = path[Len(path)].kind, q[Len(path)].at = r
  PROVE  At(path, r) = q
<1>1. Len(path) \in 1 .. Len(path) /\ path[Len(path)] \in Region /\ q[Len(path)] \in Region
  OBVIOUS
<1>2. /\ At(path, r) \in Seq(Region) /\ Len(At(path, r)) = Len(path)
      /\ \A i \in 1 .. Len(path) - 1 : At(path, r)[i] = path[i]
      /\ At(path, r)[Len(path)].kind = path[Len(path)].kind /\ At(path, r)[Len(path)].at = r
  BY AtIs
<1>3. At(path, r)[Len(path)] \in Region
  BY <1>1, <1>2
<1>4. \A x, y \in Region : x.kind = y.kind /\ x.at = y.at => x = y
  BY DEF Region
<1>5. At(path, r)[Len(path)] = q[Len(path)]
  BY <1>1, <1>2, <1>3, <1>4
<1>6. \A i \in 1 .. Len(path) : At(path, r)[i] = q[i]
  <2> TAKE i \in 1 .. Len(path)
  <2>1. i = Len(path) \/ i \in 1 .. Len(path) - 1
    OBVIOUS
  <2> QED BY <1>2, <1>5, <2>1
<1> QED BY <1>2, <1>6

LEMMA AtAt ==
  ASSUME NEW path \in Seq(Region), path # << >>,
         NEW r \in {"try", "catch", "finally"}, NEW r2 \in {"try", "catch", "finally"}
  PROVE  At(At(path, r2), r) = At(path, r)
<1> DEFINE p2 == At(path, r2)
           p1 == At(path, r)
<1>0. /\ p2 \in Seq(Region) /\ Len(p2) = Len(path)
      /\ \A i \in 1 .. Len(path) - 1 : p2[i] = path[i]
      /\ p2[Len(path)].kind = path[Len(path)].kind
  BY AtIs
<1>2. /\ p1 \in Seq(Region) /\ Len(p1) = Len(path)
      /\ \A i \in 1 .. Len(path) - 1 : p1[i] = path[i]
      /\ p1[Len(path)].kind = path[Len(path)].kind /\ p1[Len(path)].at = r
  BY AtIs
<1> HIDE DEF p1, p2
<1>1. p2 # << >>
  BY <1>0
<1>3. At(p2, r) = p1
  BY <1>0, <1>1, <1>2, AtSame
<1> QED BY <1>3 DEF p1, p2

LEMMA WholePrefix ==
  ASSUME NEW T, NEW s \in Seq(T)
  PROVE  SubSeq(s, 1, Len(s)) = s
<1>1. Len(s) \in 0 .. Len(s)
  OBVIOUS
<1> QED BY <1>1, PrefixIs

(* The actions of a body over its base, while it runs: those a return left *)
(* and those of the tries from the one it went to on.                      *)
Pending(s, lo, b, path, doing) ==
  \E j \in Nat, f \in Nat :
    /\ Slice("fin", s, lo + j, Len(s), b, path, f)
    /\ f = 0 \/ f \in Waits(path) \/ doing = "return"

LEMMA MyParts ==
  ASSUME GenInv, ~ended
  PROVE  /\ Core /\ base[Me].exc \in 0 .. Len(exc) /\ Me \in Bodies /\ pc[Me] \in Seq(Region)
         /\ exc \in Seq(Fit) /\ fin \in Seq(Action) /\ base[Me].fin \in Nat
         /\ Slice("exc", exc, base[Me].exc, Len(exc), Me, pc[Me], 0)
         /\ ~lost => Pending(fin, base[Me].fin, Me, pc[Me], next)
<1>1. Core /\ Whole("exc", Plain) /\ (~lost => \E v : Whole("fin", v) /\ Returned(v))
  BY DEF GenInv
<1>2. /\ Me \in Bodies /\ pc[Me] \in Seq(Region) /\ exc \in Seq(Fit) /\ fin \in Seq(Action)
      /\ base[Me] \in [exc: Nat, fin: Nat]
  BY <1>1, MineIs DEF Core, Typed
<1>3. Bases("exc")[Me] = base[Me].exc /\ Bases("fin")[Me] = base[Me].fin
  BY <1>2 DEF Bases, Of
<1>4. /\ Owns("exc", exc, base[Me].exc, Len(exc), Me, Plain, pc)
      /\ base[Me].exc \in 0 .. Len(exc)
  BY <1>1, <1>3, MyPart, StackIs
<1>5. Slice("exc", exc, base[Me].exc, Len(exc), Me, pc[Me], 0)
  <2>1. base[Me].exc \in Nat
    BY <1>2
  <2> QED BY <1>2, <1>4, <2>1, HandlerSlice
<1>6. ASSUME ~lost PROVE Pending(fin, base[Me].fin, Me, pc[Me], next)
  <2>1. PICK v : Whole("fin", v) /\ Returned(v)
    BY <1>1, <1>6
  <2>2. Owns("fin", fin, base[Me].fin, Len(fin), Me, v, pc) /\ v[Me] \in Leftover
    BY <1>1, <1>3, <2>1, MyPart, StackIs
  <2>3. Alive(Me)
    BY <1>1, <1>2, ChainIs, Sorts DEF Alive, Core, Control
  <2>4. v[Me].from = 0 \/ v[Me].from \in Waits(pc[Me]) \/ next = "return"
    BY <1>2, <2>1, <2>3 DEF Returned
  <2>5. v[Me].junk \in Nat /\ v[Me].from \in Nat
    BY <2>2 DEF Leftover
  <2> QED BY <2>2, <2>4, <2>5 DEF Pending, Owns
<1> QED BY <1>1, <1>2, <1>4, <1>5, <1>6

LEMMA GenInPlace ==
  ASSUME GenInv, Core', ~ended, UNCHANGED <<state, chain, base, park, side, lost, ended>>,
         NEW path \in Seq(Region), pc' = [pc EXCEPT ![Me] = path],
         Slice("exc", exc', base[Me].exc, Len(exc'), Me, path, 0),
         \A i \in 1 .. base[Me].exc : exc'[i] = exc[i],
         ~lost => /\ Pending(fin', base[Me].fin, Me, path, next')
                  /\ \A i \in 1 .. base[Me].fin : fin'[i] = fin[i]
  PROVE  GenInv'
<1>1. Core /\ Whole("exc", Plain) /\ (~lost => \E v : Whole("fin", v) /\ Returned(v))
  BY DEF GenInv
<1>2. /\ Me \in Bodies /\ pc \in [Bodies -> Seq(Region)] /\ base[Me] \in [exc: Nat, fin: Nat]
  BY <1>1, MineIs DEF Core, Typed
<1>3. Bases("exc")[Me] = base[Me].exc /\ Bases("fin")[Me] = base[Me].fin
  BY <1>2 DEF Bases, Of
<1>4. Stack("exc")' = exc' /\ Stack("fin")' = fin'
  BY DEF Stack
<1>5. pc'[Me] = path /\ \A b \in Bodies : b # Me => pc'[b] = pc[b]
  BY <1>2
<1>6. Whole("exc", Plain)'
  <2>1. base[Me].exc \in Nat
    BY <1>2
  <2>2. Owns("exc", exc', base[Me].exc, Len(exc'), Me, Plain, pc')
    BY <1>2, <1>5, <2>1, HandlerSlice
  <2>3. /\ Owns("exc", Stack("exc")', Bases("exc")[Me], Len(Stack("exc")'), Me, Plain, pc')
        /\ \A i \in 1 .. Bases("exc")[Me] : Stack("exc")'[i] = Stack("exc")[i]
    BY <1>3, <1>4, <2>2, StackIs
  <2> QED BY <1>1, <1>5, <2>3, PlainIs, StackIs, WholeInPlace
<1>7. ASSUME ~lost PROVE \E w : Whole("fin", w)' /\ Returned(w)'
  <2>1. PICK v : Whole("fin", v) /\ Returned(v)
    BY <1>1, <1>7
  <2>2. v \in [Bodies -> Leftover]
    BY <2>1 DEF Whole
  <2>3. PICK j \in Nat, f \in Nat :
          /\ Slice("fin", fin', base[Me].fin + j, Len(fin'), Me, path, f)
          /\ f = 0 \/ f \in Waits(path) \/ next' = "return"
    BY <1>7 DEF Pending
  <2>4. PICK l \in Leftover : l.junk = j /\ l.from = f
    <3>1. [junk |-> j, from |-> f] \in Leftover
      BY DEF Leftover
    <3> QED BY <3>1
  <2>5. PICK w \in [Bodies -> Leftover] : w[Me] = l /\ \A b \in Bodies : b # Me => w[b] = v[b]
    <3>1. [v EXCEPT ![Me] = l] \in [Bodies -> Leftover]
      BY <2>2
    <3>2. /\ [v EXCEPT ![Me] = l][Me] = l
          /\ \A b \in Bodies : b # Me => [v EXCEPT ![Me] = l][b] = v[b]
      BY <1>2, <2>2
    <3> QED BY <3>1, <3>2
  <2>6. Owns("fin", fin', base[Me].fin, Len(fin'), Me, w, pc')
    BY <1>5, <2>3, <2>4, <2>5 DEF Owns
  <2>7. /\ Owns("fin", Stack("fin")', Bases("fin")[Me], Len(Stack("fin")'), Me, w, pc')
        /\ \A i \in 1 .. Bases("fin")[Me] : Stack("fin")'[i] = Stack("fin")[i]
    BY <1>3, <1>4, <1>7, <2>6, StackIs
  <2>8. Whole("fin", w)'
    <3>1. Core /\ "fin" \in Kind /\ Whole("fin", v)
      BY <1>1, <2>1, StackIs
    <3>2. OwnChange("fin", v, w)
      BY <1>5, <2>5, <2>7 DEF OwnChange
    <3> QED BY <2>5, <3>1, <3>2, WholeOwnChange
  <2>9. Returned(w)'
    <3> SUFFICES ASSUME NEW b \in Bodies, Alive(b)'
                 PROVE  \/ /\ Alive(b) /\ w[b].from = v[b].from /\ pc'[b] = pc[b]
                           /\ b # Me \/ next # "return"
                        \/ w[b].from = 0
                        \/ w[b].from \in Waits(pc'[b])
                        \/ b = Me' /\ next' = "return"
      BY <2>1, ReturnedRest
    <3>1. CASE b = Me
      <4>1. Me' = Me
        BY DEF Me
      <4> QED BY <1>5, <2>3, <2>4, <2>5, <3>1, <4>1
    <3>2. CASE b # Me
      <4>1. Alive(b)
        BY DEF Alive, Idle
      <4> QED BY <1>5, <2>5, <3>2, <4>1
    <3> QED BY <3>1, <3>2
  <2> QED BY <2>8, <2>9
<1>8. (~lost)' <=> ~lost
  OBVIOUS
<1> QED BY <1>6, <1>7, <1>8 DEF GenInv

(* Two positions with the same m outer tries, the innermost of which is or *)
(* is not among them.                                                      *)
Fork(p, q, m) ==
  m \in Nat /\ m <= Len(p) /\ m <= Len(q) /\ \A k \in 1 .. m : q[k] = p[k]
Inmost(p, m) == m + 1 = Len(p)

(* The entry of the innermost try.                                         *)
Tip(kind, e, b, p, w) == e.owner = b /\ Len(e.path) = Len(p) /\ Right(kind, e, p, w)
TakenOff(kind, s, lo, b, p, q, w) ==
  /\ Len(s) \in lo + 1 .. Len(s) /\ lo \in Nat /\ s # << >> /\ Last(s) = s[Len(s)]
  /\ Tip(kind, Last(s), b, p, w)
  /\ Slice(kind, Front(s), lo, Len(Front(s)), b, q, w)
  /\ \A i \in 1 .. lo : Front(s)[i] = s[i]

(* The position changes above the entries of a slice; or at the innermost  *)
(* try of all, whose entry is taken off.                                   *)
LEMMA SliceKeeps ==
  ASSUME NEW kind \in {"exc", "fin"}, NEW w, NEW s, NEW lo, NEW hi, NEW b,
         NEW p \in Seq(Region), NEW q \in Seq(Region), Slice(kind, s, lo, hi, b, p, w),
         NEW m, Fork(p, q, m),
         \A k \in Wanted(kind, p, w) : k <= m, \A k \in Wanted(kind, q, w) : k <= m
  PROVE  Slice(kind, s, lo, hi, b, q, w)
<1>1. lo \in Nat /\ hi \in Nat /\ lo <= hi
  BY SliceBounds
<1>2. \A i \in lo + 1 .. hi : Len(s[i].path) <= m
  BY DEF Slice, Listed
<1>3. hi \in lo .. hi /\ \A i \in hi + 1 .. hi : Len(s[i].path) > m
  BY <1>1
<1> QED BY <1>2, <1>3, SliceRewrites DEF Fork

LEMMA SlicePops ==
  ASSUME NEW kind \in {"exc", "fin"}, NEW w, NEW T, NEW s \in Seq(T), NEW lo, NEW b,
         NEW p \in Seq(Region), NEW q \in Seq(Region),
         Slice(kind, s, lo, Len(s), b, p, w), Len(p) \in Wanted(kind, p, w),
         NEW m, Fork(p, q, m), Inmost(p, m), \A k \in Wanted(kind, q, w) : k <= m
  PROVE  TakenOff(kind, s, lo, b, p, q, w)
<1>1. /\ Len(s) \in lo + 1 .. Len(s) /\ Len(s[Len(s)].path) = Len(p)
      /\ \A i \in lo + 1 .. Len(s) - 1 : Len(s[i].path) <= Len(p) - 1
  BY SliceTop
<1>2. /\ lo \in Nat /\ Len(s) \in Nat /\ lo <= Len(s) /\ Len(p) \in 1 .. Len(p) /\ Len(p) \in Nat
      /\ m \in Nat /\ m = Len(p) - 1 /\ m <= Len(q) /\ \A k \in 1 .. m : q[k] = p[k]
  BY SliceBounds, WantedIn DEF Fork, Inmost
<1>3. s # << >> /\ Last(s) = s[Len(s)] /\ lo <= Len(s) - 1 /\ Len(s) - 1 \in Nat
  BY <1>1, <1>2, LastIs
<1>4. s[Len(s)].owner = b /\ Right(kind, s[Len(s)], p, w)
  BY <1>1, SliceEntry
<1>5. PICK h \in Nat : h = Len(s) - 1
  BY <1>3
<1>6. Slice(kind, s, lo, h, b, q, w)
  <2>1. m \in Nat /\ m <= Len(p) /\ m <= Len(q) /\ h \in lo .. Len(s)
    BY <1>2, <1>3, <1>5
  <2>2. \A i \in lo + 1 .. h : Len(s[i].path) <= m
    BY <1>1, <1>2, <1>5
  <2>3. \A i \in h + 1 .. Len(s) : Len(s[i].path) > m
    <3> TAKE i \in h + 1 .. Len(s)
    <3>1. i = Len(s)
      BY <1>5, <1>2
    <3> QED BY <1>1, <1>2, <3>1
  <2> QED BY <1>2, <2>1, <2>2, <2>3, SliceRewrites
<1>7. /\ Front(s) \in Seq(T) /\ Len(Front(s)) = h
      /\ \A i \in 1 .. h : Front(s)[i] = s[i]
  BY <1>3, <1>5, FrontIs
<1>9. Slice(kind, Front(s), lo, h, b, q, w)
  <2>1. \A i \in lo + 1 .. h : Front(s)[i] = s[i]
    BY <1>2, <1>7
  <2> QED BY <1>6, <1>7, <2>1, SliceSame
<1>10. \A i \in 1 .. lo : Front(s)[i] = s[i]
  <2> TAKE i \in 1 .. lo
  <2>1. i \in 1 .. h
    BY <1>2, <1>3, <1>5
  <2> QED BY <1>7, <2>1
<1>11. Tip(kind, Last(s), b, p, w)
  BY <1>1, <1>3, <1>4 DEF Tip
<1> QED BY <1>1, <1>2, <1>3, <1>7, <1>9, <1>10, <1>11 DEF TakenOff

(* The same of the pending actions.                                        *)
LEMMA PendingKeeps ==
  ASSUME NEW s, NEW lo \in Nat, NEW b, NEW p \in Seq(Region), NEW q \in Seq(Region),
         Pending(s, lo, b, p, "run"), NEW r,
         NEW m, Fork(p, q, m), Waits(p) \subseteq 1 .. m, Waits(q) \subseteq 1 .. m
  PROVE  Pending(s, lo, b, q, r)
<1>1. PICK j \in Nat, f \in Nat :
        Slice("fin", s, lo + j, Len(s), b, p, f) /\ (f = 0 \/ f \in Waits(p))
  BY DEF Pending
<1>2. /\ \A k \in Wanted("fin", p, f) : k <= m
      /\ \A k \in Wanted("fin", q, f) : k <= m
  BY DEF Wanted, Fork
<1>3. Slice("fin", s, lo + j, Len(s), b, q, f)
  BY <1>1, <1>2, SliceKeeps
<1>4. f \in Waits(p) => f \in Waits(q)
  BY DEF Waits, Fork
<1> QED BY <1>1, <1>3, <1>4 DEF Pending

PutOn(s, e, lo, b, q, r) ==
  Pending(Append(s, e), lo, b, q, r) /\ \A i \in 1 .. lo : Append(s, e)[i] = s[i]

LEMMA PendingPushes ==
  ASSUME NEW s \in Seq(Action), NEW lo \in Nat, NEW b, NEW p \in Seq(Region), NEW q \in Seq(Region),
         Pending(s, lo, b, p, "run"), NEW r, NEW e \in Action,
         NEW m, Fork(p, q, m), Inmost(q, m),
         Waits(p) \subseteq 1 .. m, Len(q) \in Waits(q), e.owner = b, e.path = q
  PROVE  PutOn(s, e, lo, b, q, r)
<1>1. PICK j \in Nat, f \in Nat :
        Slice("fin", s, lo + j, Len(s), b, p, f) /\ (f = 0 \/ f \in Waits(p))
  BY DEF Pending
<1>2. PICK l \in Nat : l = lo + j
  OBVIOUS
<1>3. /\ Slice("fin", s, l, Len(s), b, p, f) /\ l <= Len(s) /\ Len(s) \in Nat /\ Len(q) \in Nat
      /\ m = Len(q) - 1 /\ q # << >> /\ Len(q) - 1 <= Len(p)
      /\ \A k \in 1 .. Len(q) - 1 : q[k] = p[k] /\ m \in Nat
  BY <1>1, <1>2, SliceBounds DEF Fork, Inmost
<1>4. f < Len(q)
  <2>1. f \in 1 .. m => f < Len(q)
    BY <1>3
  <2> QED BY <1>1, <1>3, <2>1
<1>5. \A k \in Wanted("fin", p, f) : k < Len(q)
  BY <1>3 DEF Wanted
<1>6. Len(q) \in Wanted("fin", q, f)
  BY <1>3, <1>4 DEF Wanted
<1>7. Right("fin", e, q, f)
  BY <1>3, <1>4, WholePrefix DEF Right
<1>8. Slice("fin", Append(s, e), l, Len(s) + 1, b, q, f)
  BY <1>3, <1>5, <1>6, <1>7, SlicePushes
<1>9. Len(Append(s, e)) = Len(s) + 1 /\ \A i \in 1 .. Len(s) : Append(s, e)[i] = s[i]
  BY AppendIs
<1>10. f = 0 \/ f \in Waits(q)
  BY <1>1, <1>3 DEF Waits
<1>11. \A i \in 1 .. lo : Append(s, e)[i] = s[i]
  <2> TAKE i \in 1 .. lo
  <2>1. i \in 1 .. Len(s)
    BY <1>2, <1>3
  <2> QED BY <1>9, <2>1
<1> QED BY <1>2, <1>8, <1>9, <1>10, <1>11 DEF Pending, PutOn

LEMMA FrontPath ==
  ASSUME NEW p \in Seq(Region), p # << >>
  PROVE  /\ Front(p) \in Seq(Region) /\ Len(Front(p)) = Len(p) - 1
         /\ \A k \in 1 .. Len(p) - 1 : Front(p)[k] = p[k]
         /\ Len(p) \in Nat /\ Len(p) \in 1 .. Len(p) /\ Last(p) = p[Len(p)]
         /\ Len(p) - 1 \in Nat
BY FrontIs, LastIs

LEMMA EnterTryGen == GenInv /\ EnterTry => GenInv'
<1> SUFFICES ASSUME GenInv, EnterTry PROVE GenInv'
  OBVIOUS
<1>1. PICK k \in Kinds[Me] :
        LET path == Append(pc[Me], [kind |-> k, at |-> "try"])
        IN  /\ pc' = [pc EXCEPT ![Me] = path]
            /\ exc' = Append(exc, [owner |-> Me, path |-> path, inCatch |-> FALSE])
  BY DEF EnterTry
<1> DEFINE p == pc[Me]
           r == [kind |-> k, at |-> "try"]
           path == Append(pc[Me], r)
           h == [owner |-> Me, path |-> path, inCatch |-> FALSE]
           n == Len(path)
<1>2. pc' = [pc EXCEPT ![Me] = path] /\ exc' = Append(exc, h)
  BY <1>1
<1>3. /\ ~ended /\ next = "run"
      /\ UNCHANGED <<state, chain, fin, base, park, side, lost, ended>> /\ next' = "run"
  BY DEF EnterTry, Going
<1>4. /\ Core /\ base[Me].exc \in 0 .. Len(exc) /\ Me \in Bodies /\ p \in Seq(Region)
      /\ exc \in Seq(Fit) /\ fin \in Seq(Action) /\ base[Me].fin \in Nat
      /\ Slice("exc", exc, base[Me].exc, Len(exc), Me, p, 0)
      /\ ~lost => Pending(fin, base[Me].fin, Me, p, "run")
  BY <1>3, MyParts
<1>5. Core'
  BY EnterTryCore DEF GenInv
<1>6. k \in TryKinds /\ r \in Region
  BY <1>4, KindsAssumption DEF Region
<1>7. /\ path \in Seq(Region) /\ n = Len(p) + 1 /\ Len(p) \in Nat
      /\ \A i \in 1 .. Len(p) : path[i] = p[i]
      /\ path[n].at = "try" /\ path # << >> /\ Last(path).at = "try"
  <2>1. /\ path \in Seq(Region) /\ n = Len(p) + 1 /\ Len(p) \in Nat
        /\ \A i \in 1 .. Len(p) : path[i] = p[i]
        /\ path[n] = r
    BY <1>4, <1>6, AppendIs
  <2>2. r.at = "try"
    OBVIOUS
  <2> HIDE DEF path, r
  <2>3. path # << >> /\ Last(path) = path[n]
    BY <2>1, LastIs
  <2> QED BY <2>1, <2>2, <2>3
<1> HIDE DEF path, n, r
<1>8. h \in Handler
  BY <1>4, <1>7 DEF Handler
<1> HIDE DEF p
<1>9. /\ Slice("exc", exc', base[Me].exc, Len(exc'), Me, path, 0)
      /\ \A i \in 1 .. base[Me].exc : exc'[i] = exc[i]
  <2>1. exc \in Seq(Handler)
    BY <1>4 DEF Fit
  <2>2. At(path, "try") = path
    BY <1>7, AtSame DEF n
  <2>3. SubSeq(path, 1, n) = path
    BY <1>7, WholePrefix DEF n
  <2>4. h.owner = Me /\ h.path = path /\ Len(h.path) = n /\ h.inCatch = FALSE
    BY DEF n
  <2> HIDE DEF h
  <2>5. Right("exc", h, path, 0)
    BY <1>7, <2>2, <2>3, <2>4 DEF Right
  <2>6. \A j \in Wanted("exc", p, 0) : j < n
    BY <1>4, <1>7, WantedIn
  <2>7. n \in Wanted("exc", path, 0)
    BY <1>7 DEF Wanted, Asks, n
  <2>8. Slice("exc", Append(exc, h), base[Me].exc, Len(exc) + 1, Me, path, 0)
    <3>1. Len(path) - 1 <= Len(p) /\ \A i \in 1 .. Len(path) - 1 : path[i] = p[i]
      BY <1>7 DEF n
    <3> QED BY <1>4, <1>7, <1>8, <2>1, <2>4, <2>5, <2>6, <2>7, <3>1, SlicePushes DEF n
  <2>9. Len(exc') = Len(exc) + 1 /\ \A i \in 1 .. Len(exc) : exc'[i] = exc[i]
    BY <1>2, <1>8, <2>1, AppendIs DEF h
  <2>10. \A i \in 1 .. base[Me].exc : exc'[i] = exc[i]
    BY <1>4, <2>9
  <2> QED BY <1>2, <2>8, <2>9, <2>10 DEF h
<1>10. ASSUME ~lost PROVE Pending(fin, base[Me].fin, Me, path, "run")
  <2>1. /\ Pending(fin, base[Me].fin, Me, p, "run") /\ Waits(p) \subseteq 1 .. Len(p)
        /\ Waits(path) \subseteq 1 .. Len(p)
    <3>1. Waits(p) \subseteq 1 .. Len(p)
      BY <1>4 DEF Waits
    <3>2. Waits(path) \subseteq 1 .. Len(p)
      <4> SUFFICES ASSUME NEW i \in Waits(path) PROVE i \in 1 .. Len(p)
        OBVIOUS
      <4>1. i \in 1 .. n /\ i # n
        BY <1>7 DEF Waits, n
      <4> QED BY <1>7, <4>1
    <3> QED BY <1>4, <1>10, <3>1, <3>2
  <2>2. PICK m \in Nat : m = Len(p)
    BY <1>7
  <2>3. Fork(p, path, m)
    BY <1>7, <2>2 DEF n, Fork
  <2>4. Waits(p) \subseteq 1 .. m /\ Waits(path) \subseteq 1 .. m
    BY <2>1, <2>2
  <2> QED BY <1>4, <1>7, <2>1, <2>3, <2>4, PendingKeeps
<1>11. ~lost => /\ Pending(fin', base[Me].fin, Me, path, next')
                /\ \A i \in 1 .. base[Me].fin : fin'[i] = fin[i]
  BY <1>3, <1>10
<1> QED BY <1>2, <1>3, <1>5, <1>7, <1>9, <1>11, GenInPlace

LEMMA PoppedIs ==
  ASSUME GenInv, ~ended, pc[Me] # << >>, Last(pc[Me]).at # "finally",
         NEW q \in Seq(Region), NEW m, Fork(pc[Me], q, m), Inmost(pc[Me], m),
         Asks(q) \subseteq 1 .. m
  PROVE  /\ Slice("exc", Popped, base[Me].exc, Len(Popped), Me, q, 0)
         /\ \A i \in 1 .. base[Me].exc : Popped[i] = exc[i]
<1> DEFINE p == pc[Me]
<1>1. /\ p \in Seq(Region) /\ exc \in Seq(Fit)
      /\ Slice("exc", exc, base[Me].exc, Len(exc), Me, p, 0)
  BY MyParts
<1>2. Len(p) \in 1 .. Len(p) /\ p[Len(p)].at # "finally"
  BY <1>1, FrontPath
<1> HIDE DEF p
<1>3. Len(p) \in Wanted("exc", p, 0)
  BY <1>2 DEF Wanted, Asks
<1>4. \A k \in Wanted("exc", q, 0) : k <= m
  BY DEF Wanted, Fork
<1>5. Fork(p, q, m) /\ Inmost(p, m)
  BY DEF p
<1>6. /\ exc # << >> /\ Tip("exc", Last(exc), Me, p, 0)
      /\ Slice("exc", Front(exc), base[Me].exc, Len(Front(exc)), Me, q, 0)
      /\ \A i \in 1 .. base[Me].exc : Front(exc)[i] = exc[i]
  <2>1. TakenOff("exc", exc, base[Me].exc, Me, p, q, 0)
    BY <1>1, <1>3, <1>4, <1>5, SlicePops
  <2> QED BY <2>1 DEF TakenOff
<1>7. Last(exc).path = At(p, "try")
  BY <1>1, <1>6, WholePrefix DEF Right, Tip
<1>8. Popped = Front(exc)
  BY <1>6, <1>7 DEF Popped, p, Tip
<1> QED BY <1>6, <1>8

LEMMA LeaveTryGen == GenInv /\ LeaveTry => GenInv'
<1> SUFFICES ASSUME GenInv, LeaveTry PROVE GenInv'
  OBVIOUS
<1> DEFINE p == pc[Me]
           path == At(p, "finally")
           a == [kind |-> "fall", owner |-> Me, path |-> path]
<1>1. /\ ~ended /\ next = "run" /\ next' = next /\ p # << >> /\ Last(p).at # "finally"
      /\ UNCHANGED <<state, chain, base, park, side, lost, ended>> /\ exc' = Popped
      /\ \/ pc' = [pc EXCEPT ![Me] = Front(p)] /\ fin' = fin
         \/ pc' = [pc EXCEPT ![Me] = path] /\ fin' = Append(fin, a)
  BY DEF LeaveTry, Going
<1>2. /\ Core /\ Me \in Bodies /\ p \in Seq(Region) /\ fin \in Seq(Action) /\ base[Me].fin \in Nat
      /\ ~lost => Pending(fin, base[Me].fin, Me, p, "run")
  BY <1>1, MyParts
<1>3. Core'
  BY LeaveTryCore DEF GenInv
<1>4. /\ Front(p) \in Seq(Region) /\ Len(Front(p)) = Len(p) - 1
      /\ \A k \in 1 .. Len(p) - 1 : Front(p)[k] = p[k]
      /\ Len(p) \in Nat /\ Len(p) \in 1 .. Len(p) /\ p[Len(p)].at # "finally" /\ Len(p) - 1 \in Nat
  BY <1>1, <1>2, FrontPath
<1>5. /\ path \in Seq(Region) /\ Len(path) = Len(p)
      /\ \A k \in 1 .. Len(p) - 1 : path[k] = p[k]
      /\ path[Len(p)].at = "finally"
  BY <1>1, <1>2, AtIs
<1> HIDE DEF path
<1>6. PICK m \in Nat : m = Len(p) - 1
  BY <1>4
<1> HIDE DEF p
<1>7. Waits(p) \subseteq 1 .. m
  <2> SUFFICES ASSUME NEW k \in Waits(p) PROVE k \in 1 .. m
    OBVIOUS
  <2>1. k \in 1 .. Len(p) /\ k # Len(p)
    BY <1>2, <1>4 DEF Waits
  <2> QED BY <1>4, <1>6, <2>1
<1>8. CASE pc' = [pc EXCEPT ![Me] = Front(p)] /\ fin' = fin
  <2> DEFINE q == Front(p)
  <2>1. q \in Seq(Region) /\ Len(q) = m /\ \A k \in 1 .. m : q[k] = p[k]
    BY <1>4, <1>6
  <2> HIDE DEF q
  <2>2. Asks(q) \subseteq 1 .. m /\ Waits(q) \subseteq 1 .. m
    BY <2>1 DEF Asks, Waits
  <2>3. /\ Slice("exc", exc', base[Me].exc, Len(exc'), Me, q, 0)
        /\ \A i \in 1 .. base[Me].exc : exc'[i] = exc[i]
    <3>1. Fork(pc[Me], q, m) /\ Inmost(pc[Me], m)
      BY <1>4, <1>6, <2>1 DEF p, Fork, Inmost
    <3> QED BY <1>1, <2>1, <2>2, <3>1, PoppedIs DEF p
  <2>4. ASSUME ~lost PROVE Pending(fin, base[Me].fin, Me, q, next')
    <3>1. Fork(p, q, m)
      BY <1>4, <1>6, <2>1 DEF Fork
    <3> QED BY <1>2, <1>7, <2>1, <2>2, <2>4, <3>1, PendingKeeps
  <2>5. ~lost => /\ Pending(fin', base[Me].fin, Me, q, next')
                 /\ \A i \in 1 .. base[Me].fin : fin'[i] = fin[i]
    BY <1>8, <2>4
  <2> QED BY <1>1, <1>3, <1>8, <2>1, <2>3, <2>5, GenInPlace DEF q
<1>9. CASE pc' = [pc EXCEPT ![Me] = path] /\ fin' = Append(fin, a)
  <2>2. Asks(path) \subseteq 1 .. m
    <3> SUFFICES ASSUME NEW k \in Asks(path) PROVE k \in 1 .. m
      OBVIOUS
    <3>1. k \in 1 .. Len(path) /\ k # Len(p)
      BY <1>5 DEF Asks
    <3> QED BY <1>4, <1>5, <1>6, <3>1
  <2>3. /\ Slice("exc", exc', base[Me].exc, Len(exc'), Me, path, 0)
        /\ \A i \in 1 .. base[Me].exc : exc'[i] = exc[i]
    <3>1. Fork(pc[Me], path, m) /\ Inmost(pc[Me], m)
      BY <1>4, <1>5, <1>6 DEF p, Fork, Inmost
    <3> QED BY <1>1, <1>5, <2>2, <3>1, PoppedIs DEF p
  <2>4. ASSUME ~lost PROVE /\ Pending(Append(fin, a), base[Me].fin, Me, path, next')
                           /\ \A i \in 1 .. base[Me].fin : Append(fin, a)[i] = fin[i]
    <3>1. a \in Action /\ a.owner = Me /\ a.path = path
      BY <1>2, <1>5 DEF Action
    <3> HIDE DEF a
    <3>2. Fork(p, path, m) /\ Inmost(path, m)
      BY <1>4, <1>5, <1>6 DEF Fork, Inmost
    <3>3. Len(path) \in Waits(path)
      BY <1>4, <1>5 DEF Waits
    <3>4. PutOn(fin, a, base[Me].fin, Me, path, next')
      BY <1>2, <1>5, <1>7, <2>4, <3>1, <3>2, <3>3, PendingPushes
    <3> QED BY <3>4 DEF PutOn
  <2>5. ~lost => /\ Pending(fin', base[Me].fin, Me, path, next')
                 /\ \A i \in 1 .. base[Me].fin : fin'[i] = fin[i]
    BY <1>9, <2>4
  <2> QED BY <1>1, <1>3, <1>5, <1>9, <2>3, <2>5, GenInPlace
<1> QED BY <1>1, <1>8, <1>9

LEMMA EndFinallyGen == GenInv /\ EndFinally => GenInv'
<1> SUFFICES ASSUME GenInv, EndFinally PROVE GenInv'
  OBVIOUS
<1> DEFINE p == pc[Me]
           q == Front(p)
<1>1. /\ ~ended /\ next = "run" /\ p # << >> /\ Last(p).at = "finally"
      /\ UNCHANGED <<state, chain, exc, base, park, side, lost, ended>>
      /\ pc' = [pc EXCEPT ![Me] = q]
      /\ fin # << >> => fin' = Front(fin) /\ next' = Dispatched(Last(fin).kind)
  BY DEF EndFinally, Going
<1>2. /\ Core /\ Me \in Bodies /\ p \in Seq(Region) /\ fin \in Seq(Action) /\ base[Me].fin \in Nat
      /\ Slice("exc", exc, base[Me].exc, Len(exc), Me, p, 0)
      /\ ~lost => Pending(fin, base[Me].fin, Me, p, "run")
  BY <1>1, MyParts
<1>3. Core'
  BY EndFinallyCore DEF GenInv
<1>4. /\ q \in Seq(Region) /\ Len(q) = Len(p) - 1
      /\ \A k \in 1 .. Len(p) - 1 : q[k] = p[k]
      /\ Len(p) \in Nat /\ Len(p) \in 1 .. Len(p) /\ p[Len(p)].at = "finally" /\ Len(p) - 1 \in Nat
  BY <1>1, <1>2, FrontPath
<1>5. PICK m \in Nat : m = Len(p) - 1
  BY <1>4
<1> HIDE DEF q, p
<1>6. Fork(p, q, m) /\ Inmost(p, m)
  BY <1>4, <1>5 DEF Fork, Inmost
<1>7. Asks(p) \subseteq 1 .. m
  <2> SUFFICES ASSUME NEW k \in Asks(p) PROVE k \in 1 .. m
    OBVIOUS
  <2>1. k \in 1 .. Len(p) /\ k # Len(p)
    BY <1>2, <1>4 DEF Asks
  <2> QED BY <1>4, <1>5, <2>1
<1>8. Asks(q) \subseteq 1 .. m /\ Waits(q) \subseteq 1 .. m
  BY <1>4, <1>5 DEF Asks, Waits
<1>9. Slice("exc", exc, base[Me].exc, Len(exc), Me, q, 0)
  <2>1. /\ \A k \in Wanted("exc", p, 0) : k <= m
        /\ \A k \in Wanted("exc", q, 0) : k <= m
    BY <1>7, <1>8 DEF Wanted
  <2> QED BY <1>2, <1>4, <1>6, <2>1, SliceKeeps
<1>10. ASSUME ~lost PROVE /\ Pending(fin', base[Me].fin, Me, q, next')
                          /\ \A i \in 1 .. base[Me].fin : fin'[i] = fin[i]
  <2>1. PICK j \in Nat, f \in Nat :
          Slice("fin", fin, base[Me].fin + j, Len(fin), Me, p, f) /\ (f = 0 \/ f \in Waits(p))
    BY <1>2, <1>10 DEF Pending
  <2>2. PICK l \in Nat : l = base[Me].fin + j
    BY <1>2
  <2>3. Len(p) \in Waits(p) /\ Len(p) \in Wanted("fin", p, f)
    <3>1. Len(p) \in Waits(p)
      BY <1>4 DEF Waits
    <3>2. f \in Waits(p) => f \in 1 .. Len(p)
      BY <1>2 DEF Waits
    <3>3. f <= Len(p)
      BY <1>4, <2>1, <3>2
    <3> QED BY <3>1, <3>3 DEF Wanted
  <2>4. \A k \in Wanted("fin", q, f) : k <= m
    BY <1>8 DEF Wanted
  <2>5. Slice("fin", fin, l, Len(fin), Me, p, f)
    BY <2>1, <2>2
  <2>6. /\ fin # << >> /\ Tip("fin", Last(fin), Me, p, f)
        /\ Slice("fin", Front(fin), l, Len(Front(fin)), Me, q, f)
        /\ \A i \in 1 .. l : Front(fin)[i] = fin[i]
    <3>1. TakenOff("fin", fin, l, Me, p, q, f)
      BY <1>2, <1>4, <1>6, <2>3, <2>4, <2>5, SlicePops
    <3> QED BY <3>1 DEF TakenOff
  <2>7. fin' = Front(fin) /\ next' = Dispatched(Last(fin).kind)
    BY <1>1, <2>6
  <2>8. f = 0 \/ f \in Waits(q) \/ next' = "return"
    <3>1. CASE f = Len(p)
      <4>1. Last(fin).kind = "return"
        BY <2>6, <3>1 DEF Right, Tip
      <4> QED BY <2>7, <4>1 DEF Dispatched
    <3>2. CASE f \in Waits(p) /\ f # Len(p)
      <4>1. f \in 1 .. m /\ p[f].at = "finally"
        BY <1>2, <1>4, <1>5, <3>2 DEF Waits
      <4>2. f \in 1 .. Len(q) /\ q[f].at = "finally"
        BY <1>4, <1>5, <4>1
      <4> QED BY <4>2 DEF Waits
    <3> QED BY <2>1, <3>1, <3>2
  <2>9. Pending(fin', base[Me].fin, Me, q, next')
    BY <2>2, <2>6, <2>7, <2>8 DEF Pending
  <2>10. \A i \in 1 .. base[Me].fin : fin'[i] = fin[i]
    <3> SUFFICES ASSUME NEW i \in 1 .. base[Me].fin PROVE fin'[i] = fin[i]
      OBVIOUS
    <3>1. i \in 1 .. l
      BY <1>2, <2>2
    <3> QED BY <2>6, <2>7, <3>1
  <2> QED BY <2>9, <2>10
<1> QED BY <1>1, <1>3, <1>4, <1>9, <1>10, GenInPlace

LEMMA ReturnGen == GenInv /\ (Return \/ Raise \/ RefuseYield) => GenInv'
<1> SUFFICES ASSUME GenInv, Return \/ Raise \/ RefuseYield PROVE GenInv'
  OBVIOUS
<1>1. /\ UNCHANGED <<state, chain, pc, exc, fin, base, park, side, closing, lost, ended>> /\ ~ended
      /\ next = "run"
  BY DEF Return, Raise, RefuseYield, stacks, Going
<1>2. Core' /\ Core
  BY ReturnCore DEF GenInv
<1>3. /\ pc[Me] \in Seq(Region) /\ Slice("exc", exc, base[Me].exc, Len(exc), Me, pc[Me], 0)
      /\ ~lost => Pending(fin, base[Me].fin, Me, pc[Me], "run")
  BY <1>1, MyParts
<1>4. pc' = [pc EXCEPT ![Me] = pc[Me]]
  BY <1>1, <1>2, SamePosition
<1>5. ~lost => Pending(fin, base[Me].fin, Me, pc[Me], next')
  BY <1>3 DEF Pending
<1> QED BY <1>1, <1>2, <1>3, <1>4, <1>5, GenInPlace

(* The handlers that name the running body are in its part.                *)
LEMMA MineAbove ==
  ASSUME GenInv, ~ended, NEW i \in 1 .. Len(exc), exc[i].owner = Me
  PROVE  i \in base[Me].exc + 1 .. Len(exc)
<1>1. Core /\ Whole("exc", Plain)
  BY DEF GenInv
<1>2. PICK m \in 1 .. Len(chain) : Level(i, m)
  BY <1>1, EveryLevel
<1>3. /\ Len(chain) \in Nat /\ Len(chain) >= 1 /\ DOMAIN chain = 1 .. Len(chain)
      /\ Me = chain[Len(chain)] /\ Me \in Bodies
      /\ \A j, k \in DOMAIN chain : chain[j] = chain[k] => j = k
  BY <1>1, ChainIs DEF Core, Control
<1>4. exc[i].owner = chain[m]
  BY <1>2 DEF Level
<1>5. m = Len(chain)
  <2>1. m \in DOMAIN chain /\ Len(chain) \in DOMAIN chain
    BY <1>3
  <2>2. chain[m] = chain[Len(chain)]
    BY <1>3, <1>4
  <2>3. \A j, k \in DOMAIN chain : chain[j] = chain[k] => j = k
    BY <1>3
  <2> QED BY <2>1, <2>2, <2>3
<1>6. i \in Bases("exc")[Me] + 1 .. Len(exc)
  BY <1>2, <1>3, <1>5 DEF Level, Roof
<1>7. Bases("exc")[Me] = base[Me].exc
  BY <1>3 DEF Bases, Of
<1> QED BY <1>6, <1>7

(* No two generators run the same function.                                *)
OwnFunctions == \A g, h \in Gens : Fn[g] = Fn[h] => g = h

(* A handler that the return of a generator crosses is its own.            *)
LEMMA CrossedIsMine ==
  ASSUME OwnFunctions, GenInv, ~ended, Me \in Gens, NEW i \in Crossed
  PROVE  exc[i].owner = Me /\ i \in 1 .. Len(exc) /\ i \in base[Me].exc + 1 .. Len(exc)
<1>1. exc \in Seq(Fit) /\ Len(exc) \in Nat
  BY MyParts
<1>2. i \in 1 .. Len(exc) /\ i \in i .. Len(exc) /\ Mine(i)
  BY <1>1 DEF Crossed
<1>3. exc[i].owner \in Gens /\ Fn[exc[i].owner] = Fn[Me]
  BY <1>2 DEF Mine
<1>4. exc[i].owner = Me
  BY <1>3 DEF OwnFunctions
<1> QED BY <1>2, <1>4, MineAbove

LEMMA ReturnThroughFinallyGen ==
  ASSUME OwnFunctions
  PROVE  GenInv /\ ReturnThroughFinally => GenInv'
<1> SUFFICES ASSUME GenInv, ReturnThroughFinally PROVE GenInv'
  OBVIOUS
<1> DEFINE p == pc[Me]
<1>1. Me \in Gens /\ Stops # {} /\ next = "return" /\ Core /\ ~ended
  BY DEF ReturnThroughFinally, GenInv, Core, Control
<1>2. PICK i \in Crossed : i = Max(Stops)
  BY <1>1, StopIs
<1> DEFINE path == At(exc[i].path, "finally")
           a == [kind |-> "return", owner |-> Me, path |-> path]
           k == Len(exc[i].path)
<1>3. /\ exc' = SubSeq(exc, 1, i - 1) /\ fin' = Append(fin, a) /\ pc' = [pc EXCEPT ![Me] = path]
      /\ next' = "run" /\ UNCHANGED <<state, chain, base, park, side, closing, lost, ended>>
  BY <1>2 DEF ReturnThroughFinally
<1>4. /\ base[Me].exc \in 0 .. Len(exc) /\ Me \in Bodies /\ p \in Seq(Region)
      /\ exc \in Seq(Fit) /\ fin \in Seq(Action) /\ base[Me].fin \in Nat
      /\ Slice("exc", exc, base[Me].exc, Len(exc), Me, p, 0)
      /\ ~lost => Pending(fin, base[Me].fin, Me, p, next)
  BY <1>1, MyParts
<1>5. Core'
  BY <1>1, ReturnThroughFinallyCore
<1>6. i \in base[Me].exc + 1 .. Len(exc) /\ i \in 1 .. Len(exc) /\ Len(exc) \in Nat
  BY <1>1, <1>4, CrossedIsMine
<1>7. /\ k \in Wanted("exc", p, 0) /\ k \in 1 .. Len(p) /\ Right("exc", exc[i], p, 0)
      /\ \A j \in base[Me].exc + 1 .. i - 1 : Len(exc[j].path) <= k - 1
      /\ \A j \in i + 1 .. Len(exc) : Len(exc[j].path) > k
  BY <1>4, <1>6, SliceEntry
<1>8. /\ exc[i].path = At(SubSeq(p, 1, k), "try")
      /\ SubSeq(p, 1, k) \in Seq(Region) /\ Len(SubSeq(p, 1, k)) = k
      /\ \A j \in 1 .. k : SubSeq(p, 1, k)[j] = p[j]
  <2>1. k \in 0 .. Len(p)
    BY <1>7
  <2>2. exc[i].path = At(SubSeq(p, 1, k), "try")
    BY <1>7 DEF Right
  <2> HIDE DEF k
  <2> QED BY <1>4, <2>1, <2>2, PrefixIs
<1>9. path = At(SubSeq(p, 1, k), "finally")
  <2>1. SubSeq(p, 1, k) # << >>
    BY <1>7, <1>8
  <2> QED BY <1>8, <2>1, AtAt
<1> HIDE DEF path, k, p
<1>10. /\ path \in Seq(Region) /\ Len(path) = k /\ path[k].at = "finally" /\ path # << >>
       /\ \A j \in 1 .. k - 1 : path[j] = p[j]
  <2> DEFINE s == SubSeq(p, 1, k)
  <2>1. s \in Seq(Region) /\ Len(s) = k /\ s # << >> /\ \A j \in 1 .. k : s[j] = p[j]
    BY <1>7, <1>8
  <2>2. path = At(s, "finally")
    BY <1>9
  <2> HIDE DEF s
  <2>3. /\ path \in Seq(Region) /\ Len(path) = Len(s) /\ path[Len(s)].at = "finally"
        /\ \A j \in 1 .. Len(s) - 1 : path[j] = s[j]
    BY <2>1, <2>2, AtIs
  <2> QED BY <1>7, <2>1, <2>3
<1>11. PICK m \in Nat : m = k - 1
  BY <1>7
<1>12. PICK up \in Nat : up = i - 1
  BY <1>6
<1>13. /\ Slice("exc", exc', base[Me].exc, Len(exc'), Me, path, 0)
       /\ \A j \in 1 .. base[Me].exc : exc'[j] = exc[j]
  <2>1. m <= Len(p) /\ m <= Len(path) /\ \A j \in 1 .. m : path[j] = p[j]
    BY <1>7, <1>10, <1>11
  <2>2. up \in base[Me].exc .. Len(exc)
    BY <1>4, <1>6, <1>12
  <2>3. \A j \in base[Me].exc + 1 .. up : Len(exc[j].path) <= m
    BY <1>7, <1>11, <1>12
  <2>4. \A j \in up + 1 .. Len(exc) : Len(exc[j].path) > m
    <3> TAKE j \in up + 1 .. Len(exc)
    <3>1. j = i \/ j \in i + 1 .. Len(exc)
      BY <1>6, <1>12
    <3>2. Len(exc[i].path) = k
      BY DEF k
    <3> QED BY <1>7, <1>11, <3>1, <3>2
  <2>5. \A j \in Wanted("exc", path, 0) : j <= m
    <3> TAKE j \in Wanted("exc", path, 0)
    <3>1. j \in 1 .. k /\ j # k
      BY <1>10 DEF Wanted, Asks
    <3> QED BY <1>7, <1>11, <3>1
  <2>6. Slice("exc", exc, base[Me].exc, up, Me, path, 0)
    BY <1>4, <1>10, <2>1, <2>2, <2>3, <2>4, <2>5, SliceRewrites
  <2>7. Len(exc') = up /\ \A j \in 1 .. up : exc'[j] = exc[j]
    <3>1. up \in 0 .. Len(exc) /\ exc' = SubSeq(exc, 1, up)
      BY <1>3, <1>6, <1>12
    <3> QED BY <1>4, <3>1, PrefixIs
  <2>8. \A j \in base[Me].exc + 1 .. up : exc'[j] = exc[j]
    BY <1>4, <2>7
  <2>9. \A j \in 1 .. base[Me].exc : exc'[j] = exc[j]
    BY <1>4, <2>2, <2>7
  <2> QED BY <2>6, <2>7, <2>8, <2>9, SliceSame
<1>14. ASSUME ~lost PROVE /\ Pending(fin', base[Me].fin, Me, path, next')
                          /\ \A j \in 1 .. base[Me].fin : fin'[j] = fin[j]
  <2> DEFINE q == Front(path)
  <2>1. base[Me].fin <= Len(fin) /\ Len(fin) \in Nat
    <3>1. PICK j \in Nat, f \in Nat : Slice("fin", fin, base[Me].fin + j, Len(fin), Me, p, f)
      BY <1>4, <1>14 DEF Pending
    <3>2. base[Me].fin + j <= Len(fin) /\ Len(fin) \in Nat
      BY <3>1, SliceBounds
    <3> QED BY <1>4, <3>2
  <2>2. PICK j \in Nat : base[Me].fin + j = Len(fin)
    <3>1. \A x, y \in Nat : x <= y => \E j \in Nat : x + j = y
      <4> TAKE x, y \in Nat
      <4> HAVE x <= y
      <4>1. y - x \in Nat /\ x + (y - x) = y
        OBVIOUS
      <4> QED BY <4>1
    <3> QED BY <1>4, <2>1, <3>1
  <2>3. a \in Action /\ a.owner = Me /\ a.path = path /\ a.kind = "return"
    BY <1>4, <1>10 DEF Action
  <2> HIDE DEF a
  <2>4. q \in Seq(Region) /\ Len(q) = k - 1 /\ \A l \in 1 .. k - 1 : q[l] = path[l]
    BY <1>10, FrontPath
  <2> HIDE DEF q
  <2>5. Wanted("fin", q, k) = {}
    <3>1. \A l \in Waits(q) : ~(l >= k)
      BY <1>7, <2>4 DEF Waits
    <3> QED BY <3>1 DEF Wanted
  <2>6. Slice("fin", fin, Len(fin), Len(fin), Me, q, k)
    BY <2>1, <2>5, SliceNone
  <2>7. k \in Waits(path) /\ k \in Wanted("fin", path, k) /\ k \in Nat
    BY <1>7, <1>10 DEF Wanted, Waits
  <2>8. Right("fin", a, path, k)
    BY <1>10, <2>3, WholePrefix DEF Right
  <2>9. Slice("fin", Append(fin, a), Len(fin), Len(fin) + 1, Me, path, k)
    <3>1. /\ Len(path) - 1 <= Len(q) /\ \A l \in 1 .. Len(path) - 1 : path[l] = q[l]
          /\ \A l \in Wanted("fin", q, k) : l < Len(path)
          /\ Len(path) \in Wanted("fin", path, k) /\ Len(a.path) = Len(path)
      BY <1>7, <1>10, <2>3, <2>4, <2>5, <2>7
    <3> QED BY <1>4, <1>10, <2>3, <2>4, <2>6, <2>8, <3>1, SlicePushes
  <2>10. Len(fin') = Len(fin) + 1 /\ \A l \in 1 .. Len(fin) : fin'[l] = fin[l]
    BY <1>3, <1>4, <2>3, AppendIs DEF a
  <2>11. Slice("fin", fin', base[Me].fin + j, Len(fin'), Me, path, k)
    BY <1>3, <2>2, <2>9, <2>10 DEF a
  <2>12. \A l \in 1 .. base[Me].fin : fin'[l] = fin[l]
    BY <1>4, <2>1, <2>10
  <2> QED BY <2>7, <2>11, <2>12 DEF Pending
<1> QED BY <1>1, <1>3, <1>5, <1>10, <1>13, <1>14, GenInPlace

---------------------------------------------------------------------------
(* Steps that enter a body or leave one                                    *)

LEMMA GenKeeps ==
  ASSUME GenInv, Core', ~ended, ended' = ended, lost' = lost,
         \A kind \in Kind : \A v : Whole(kind, v) => Whole(kind, v)',
         \A b \in Bodies : Alive(b)' =>
           \/ Alive(b) /\ pc'[b] = pc[b] /\ (b # Me \/ next # "return")
           \/ b = Me' /\ next' = "return"
  PROVE  GenInv'
<1>1. Whole("exc", Plain) /\ (~lost => \E v : Whole("fin", v) /\ Returned(v))
  BY DEF GenInv
<1>2. Whole("exc", Plain)'
  BY <1>1, StackIs
<1>3. ASSUME ~lost PROVE \E w : Whole("fin", w)' /\ Returned(w)'
  <2>1. PICK v : Whole("fin", v) /\ Returned(v)
    BY <1>1, <1>3
  <2>2. Whole("fin", v)'
    BY <2>1, StackIs
  <2>3. Returned(v)'
    BY <2>1, ReturnedRest
  <2> QED BY <2>2, <2>3
<1> QED BY <1>2, <1>3 DEF GenInv

LEMMA EnterGen ==
  ASSUME GenInv, Core', Going, NEW c \in Coros, state[c] \in {"created", "suspended"}, Enter(c)
  PROVE  GenInv'
<1>1. Core /\ Idle(c) /\ ~ended /\ next = "run" /\ ended' = ended /\ lost' = lost /\ pc' = pc
      /\ state' = [state EXCEPT ![c] = "running"]
  BY DEF GenInv, Idle, Going, Enter
<1>2. \A kind \in Kind : \A v : Whole(kind, v) => Whole(kind, v)'
  BY <1>1, WholeEnter
<1>3. \A b \in Bodies : Alive(b)' => Alive(b)
  <2>1. state \in [Coros -> States]
    BY <1>1 DEF Core, Typed
  <2> QED BY <1>1, <2>1 DEF Alive, Idle
<1> QED BY <1>1, <1>2, <1>3, GenKeeps

LEMMA StartGen == GenInv /\ (Start \/ Resume \/ ThrowInto \/ Close) => GenInv'
<1> SUFFICES ASSUME GenInv, Start \/ Resume \/ ThrowInto \/ Close PROVE GenInv'
  OBVIOUS
<1>1. Core /\ Core'
  BY StartCore DEF GenInv
<1>2. PICK c \in Coros : state[c] \in {"created", "suspended"} /\ Enter(c)
  BY <1>1, DriveIs, Sorts DEF Start, Resume, ThrowInto, Close
<1>3. Going
  BY DEF Start, Resume, ThrowInto, Close
<1> QED BY <1>1, <1>2, <1>3, EnterGen

LEMMA YieldGen == GenInv /\ (Yield \/ FiberSuspend) => GenInv'
<1> SUFFICES ASSUME GenInv, Yield \/ FiberSuspend PROVE GenInv'
  OBVIOUS
<1>1. Core /\ Core' /\ Me \in Coros /\ Suspend /\ next = "run" /\ ~ended
  BY YieldCore, Sorts DEF GenInv, Yield, FiberSuspend, Going
<1>2. pc' = pc /\ lost' = lost /\ ended' = ended
  BY <1>1 DEF Suspend
<1>3. \A kind \in Kind : \A v : Whole(kind, v) => Whole(kind, v)'
  BY <1>1, WholeSuspend
<1>4. \A b \in Bodies : Alive(b)' => Alive(b)
  <2>1. state \in [Coros -> States]
    BY <1>1 DEF Core, Typed
  <2>2. \A b \in Coros : b # Me => state'[b] = state[b]
    BY <1>1, <2>1 DEF Suspend
  <2>3. state[Me] = "running"
    <3>1. Len(chain) \in DOMAIN chain /\ chain[Len(chain)] = Me
      BY <1>1, ChainIs DEF Core
    <3>2. state[Me] = "running" <=> \E i \in DOMAIN chain : chain[i] = Me
      BY <1>1 DEF Core, Control
    <3> QED BY <3>1, <3>2
  <2> QED BY <2>2, <2>3 DEF Alive, Idle
<1> QED BY <1>1, <1>2, <1>3, <1>4, GenKeeps

LEMMA DropGen == GenInv /\ Drop => GenInv'
<1> SUFFICES ASSUME GenInv, Drop PROVE GenInv'
  OBVIOUS
<1>1. Core /\ Core' /\ next = "run" /\ ~ended
  BY DropCore DEF GenInv, Drop, Going
<1>2. PICK c \in Coros :
        /\ Idle(c)
        /\ state' = [state EXCEPT ![c] = "closed"]
        /\ pc' = [pc EXCEPT ![c] = <<>>]
        /\ side' = [f \in Fibers |-> IF f = c THEN Nothing ELSE side[f]]
  BY <1>1, DriveIs DEF Drop, Idle
<1>3. UNCHANGED <<chain, exc, fin, base, park, closing, next, lost, ended>>
  BY DEF Drop
<1>4. state \in [Coros -> States] /\ pc \in [Bodies -> Seq(Region)]
      /\ \A i \in 1 .. Len(chain) : chain[i] \in Bodies /\ chain[i] # c
  BY <1>1, <1>2, ChainIs, NotRunning DEF Core, Typed
<1>5. \A d \in Coros : Idle(d)' => Idle(d) /\ d # c
  BY <1>2, <1>4 DEF Idle
<1>6. \A b \in Bodies : b # c => pc'[b] = pc[b]
  BY <1>2, <1>4
<1>7. \A f \in Fibers : f # c => side'[f] = side[f]
  BY <1>2
<1>8. ASSUME NEW kind \in Kind, NEW v, Whole(kind, v) PROVE Whole(kind, v)'
  <2>1. Stack(kind)' = Stack(kind)
    BY <1>3 DEF Stack
  <2>2. \A i \in 1 .. Len(chain) :
          /\ pc'[chain[i]] = pc[chain[i]]
          /\ chain[i] \in Fibers => side'[chain[i]] = side[chain[i]]
    BY <1>4, <1>6, <1>7
  <2>3. ASSUME NEW d \in Coros, Idle(d)'
        PROVE  Idle(d) /\ pc'[d] = pc[d] /\ Put(kind, d)' = Put(kind, d)
    <3>1. Idle(d) /\ d # c /\ d \in Bodies
      BY <1>5, <2>3, Sorts
    <3>2. Put(kind, d)' = Put(kind, d)
      BY <1>3, <1>7, <3>1 DEF Put
    <3> QED BY <1>6, <3>1, <3>2
  <2> QED BY <1>1, <1>3, <1>8, <2>1, <2>2, <2>3, WholeSame
<1>9. \A b \in Bodies : Alive(b)' => Alive(b) /\ pc'[b] = pc[b]
  <2> SUFFICES ASSUME NEW b \in Bodies, Alive(b)' PROVE Alive(b) /\ pc'[b] = pc[b]
    OBVIOUS
  <2>1. b # c /\ (b \in Coros => state'[b] = state[b])
    BY <1>2, <1>4, Sorts DEF Alive, Idle
  <2> QED BY <1>6, <2>1 DEF Alive, Idle
<1> QED BY <1>1, <1>3, <1>8, <1>9, GenKeeps

LEMMA OverGen == GenInv /\ (Uncaught \/ RefuseYieldInTry) => GenInv'
<1> SUFFICES ASSUME GenInv, Uncaught \/ RefuseYieldInTry PROVE GenInv'
  OBVIOUS
<1>1. Core' /\ ended'
  BY UncaughtCore DEF GenInv, Uncaught, RefuseYieldInTry
<1> QED BY <1>1 DEF GenInv

(* What the bodies that go on keep when others end.                        *)
LEMMA EndedIs ==
  ASSUME Core, NEW n \in 1 .. Len(chain), NEW how \in {"completed", "closed"}, Ended(n, how)
  PROVE  /\ \A c \in Coros : Idle(c)' => Idle(c) /\ c \notin Ending(n)
         /\ \A c \in Coros : c \in Ending(n) => ~Idle(c)'
         /\ \A b \in Bodies : b \notin Ending(n) => base'[b] = base[b] /\ Positions(n)[b] = pc[b]
         /\ \A b \in Bodies : Alive(b)' => Alive(b) /\ b \notin Ending(n)
         /\ park' = park /\ chain' = SubSeq(chain, 1, n)
<1>1. /\ Len(chain) \in Nat /\ chain[1] = Main /\ DOMAIN chain = 1 .. Len(chain)
      /\ \A i, j \in DOMAIN chain : chain[i] = chain[j] => i = j
  BY ChainIs DEF Core, Control
<1>2. Main \notin Ending(n)
  <2> SUFFICES ASSUME NEW i \in n + 1 .. Len(chain), chain[i] = Main PROVE FALSE
    BY DEF Ending
  <2>1. i \in DOMAIN chain /\ 1 \in DOMAIN chain /\ i # 1
    BY <1>1
  <2> QED BY <1>1, <2>1
<1>3. \A c \in Coros : state'[c] = IF c \in Ending(n) THEN how ELSE state[c]
  BY DEF Ended
<1>4. \A b \in Bodies : base'[b] = IF b \in Ending(n) THEN NoBase ELSE base[b]
  BY DEF Ended
<1>5. \A b \in Bodies : Positions(n)[b] = IF b \in Ending(n) THEN << >> ELSE pc[b]
  BY DEF Positions
<1>6. \A c \in Coros : Idle(c)' => Idle(c) /\ c \notin Ending(n)
  BY <1>3 DEF Idle
<1>7. \A b \in Bodies : Alive(b)' => Alive(b) /\ b \notin Ending(n)
  BY <1>2, <1>3 DEF Alive, Idle
<1>8. park' = park /\ chain' = SubSeq(chain, 1, n)
  BY DEF Ended
<1> QED BY <1>4, <1>5, <1>6, <1>7, <1>8

(* A fiber is over or an exception leaves it: the stacks that were put     *)
(* aside when it was entered are back.                                     *)
LEMMA FiberLeaves ==
  ASSUME GenInv, Core', ~ended, ended' = ended, lost' = lost,
         NEW n \in 1 .. Len(chain), NEW h \in 1 .. Len(chain), h = n - 1,
         NEW f \in Fibers, chain[n] = f,
         NEW how \in {"completed", "closed"}, Ended(h, how), pc' = Positions(h),
         exc' = side[f].exc, fin' = side[f].fin, side' = [side EXCEPT ![f] = Nothing],
         next = "return" => Len(chain) = n
  PROVE  GenInv'
<1>1. /\ Core /\ Len(chain) \in Nat /\ n > 1 /\ h + 1 = n /\ Me = chain[Len(chain)]
      /\ side \in [Fibers -> FitStacks] /\ \A c \in Coros : c \in Bodies
  <2>1. Core
    BY DEF GenInv
  <2>2. Len(chain) \in Nat /\ Me = chain[Len(chain)]
    BY <2>1, ChainIs DEF Core
  <2>3. n > 1 /\ h + 1 = n
    BY <2>2
  <2>4. side \in [Fibers -> FitStacks]
    BY <2>1 DEF Core, Typed
  <2> QED BY <2>1, <2>2, <2>3, <2>4, Sorts
<1>2. Ending(h) = {chain[i] : i \in n .. Len(chain)}
  BY <1>1 DEF Ending
<1>3. f \in Ending(h) /\ Me \in Ending(h)
  BY <1>1, <1>2
<1>4. /\ \A c \in Coros : Idle(c)' => Idle(c) /\ c \notin Ending(h)
      /\ \A b \in Bodies : b \notin Ending(h) => base'[b] = base[b] /\ pc'[b] = pc[b]
      /\ \A b \in Bodies : Alive(b)' => Alive(b) /\ b \notin Ending(h)
      /\ park' = park /\ chain' = SubSeq(chain, 1, h)
  BY <1>1, EndedIs
<1>5. \A g \in Fibers : g # f => side'[g] = side[g]
  BY <1>1
<1>6. ASSUME NEW kind \in Kind, NEW v, Whole(kind, v) PROVE Whole(kind, v)'
  <2>1. Stack(kind)' = Of(kind, side[f])
    BY DEF Stack, Of
  <2>2. chain' = SubSeq(chain, 1, n - 1)
    BY <1>4
  <2>3. \A b \in Bodies : b \notin {chain[i] : i \in n .. Len(chain)} =>
          pc'[b] = pc[b] /\ base'[b] = base[b]
    BY <1>2, <1>4
  <2>4. \A c \in Coros : Idle(c)' => Idle(c) /\ Put(kind, c)' = Put(kind, c)
    <3> SUFFICES ASSUME NEW c \in Coros, Idle(c)' PROVE Idle(c) /\ Put(kind, c)' = Put(kind, c)
      OBVIOUS
    <3>1. Idle(c) /\ c # f
      BY <1>3, <1>4
    <3> QED BY <1>4, <1>5, <3>1 DEF Put
  <2>5. BackChange(kind, n, f, v)
    BY <1>1, <1>5, <2>1, <2>2, <2>3, <2>4 DEF BackChange
  <2> QED BY <1>1, <1>6, <2>5, WholeBack
<1>7. \A b \in Bodies : Alive(b)' => Alive(b) /\ pc'[b] = pc[b] /\ b # Me
  BY <1>3, <1>4
<1> QED BY <1>6, <1>7, GenKeeps

(* The handlers a generator that completes takes off are all it has.       *)
LEMMA CrossedAll ==
  ASSUME OwnFunctions, GenInv, ~ended, Me \in Gens
  PROVE  SubSeq(exc, 1, Len(exc) - Cardinality(Crossed)) = Cut(exc, base[Me].exc)
<1>1. /\ base[Me].exc \in 0 .. Len(exc) /\ exc \in Seq(Fit) /\ Len(exc) \in Nat
      /\ Slice("exc", exc, base[Me].exc, Len(exc), Me, pc[Me], 0)
  BY MyParts
<1>2. PICK B \in Nat : B = base[Me].exc
  BY <1>1
<1>3. PICK L \in Nat : L = Len(exc)
  BY <1>1
<1>4. Crossed = B + 1 .. L
  <2>1. \A i \in Crossed : i \in B + 1 .. L
    BY <1>2, <1>3, CrossedIsMine
  <2>2. \A i \in B + 1 .. L : exc[i].owner = Me
    BY <1>1, <1>2, <1>3 DEF Slice, Listed
  <2>3. ASSUME NEW i \in B + 1 .. L PROVE i \in Crossed
    <3>1. \A j \in i .. Len(exc) : j \in B + 1 .. L
      BY <1>3
    <3>2. Mine(i)
      BY <2>2, <3>1 DEF Mine
    <3>3. i \in DOMAIN exc
      BY <1>1, <1>3
    <3> QED BY <3>2, <3>3 DEF Crossed
  <2> QED BY <2>1, <2>3
<1>5. Cardinality(Crossed) = L - B
  <2>1. B <= L /\ B + 1 \in Int /\ L \in Int
    BY <1>1, <1>2, <1>3
  <2>2. Cardinality(B + 1 .. L) = IF B + 1 > L THEN 0 ELSE L - (B + 1) + 1
    BY <2>1, FS_Interval
  <2> QED BY <1>4, <2>1, <2>2
<1>6. L - (L - B) = B
  OBVIOUS
<1>7. Cut(exc, B) = SubSeq(exc, 1, B)
  <2>1. B < L \/ B = L
    BY <1>1, <1>2, <1>3
  <2> QED BY <1>3, <2>1 DEF Cut
<1> QED BY <1>2, <1>3, <1>5, <1>6, <1>7

LEMMA CompleteGen ==
  ASSUME OwnFunctions
  PROVE  GenInv /\ Complete => GenInv'
<1> SUFFICES ASSUME GenInv, Complete PROVE GenInv'
  OBVIOUS
<1>1. Core /\ Core' /\ Me \in Coros /\ ~ended /\ next = "return"
  BY CompleteCore DEF GenInv, Core, Control, Complete
<1>2. PICK n \in 1 .. Len(chain) : n = Len(chain) - 1
  BY <1>1, LeavingChain
<1>3. PICK how \in {"completed", "closed"} : Ended(n, how)
  BY <1>2 DEF Complete
<1>4. pc' = Positions(n) /\ next' = "run" /\ lost' = lost /\ ended' = ended
  BY <1>2 DEF Complete
<1>5. /\ Len(chain) \in 1 .. Len(chain) /\ Me = chain[Len(chain)] /\ Len(chain) \in Nat
      /\ \A c \in Coros : c \in Bodies
  BY <1>1, ChainIs, Sorts DEF Core
<1>6. CASE Me \in Fibers
  <2>1. exc' = side[Me].exc /\ fin' = side[Me].fin /\ side' = [side EXCEPT ![Me] = Nothing]
    BY <1>6 DEF Complete
  <2>2. PICK f \in Fibers : f = Me
    BY <1>6
  <2>3. PICK N \in 1 .. Len(chain) : N = Len(chain)
    BY <1>5
  <2>4. n = N - 1 /\ chain[N] = f
    BY <1>2, <1>5, <2>2, <2>3
  <2> QED BY <1>1, <1>3, <1>4, <2>1, <2>2, <2>3, <2>4, FiberLeaves
<1>7. CASE Me \in Gens
  <2>1. PICK g \in Gens : g = Me
    BY <1>7
  <2>2. /\ exc' = SubSeq(exc, 1, Len(exc) - Cardinality(Crossed))
        /\ fin' = Cut(fin, base[Me].fin) /\ side' = side
    BY <1>7, Sorts DEF Complete
  <2>3. exc' = Cut(exc, base[Me].exc)
    BY <1>1, <1>7, <2>2, CrossedAll
  <2>4. Ending(n) = {g}
    BY <1>1, <1>2, <2>1, LeavingChain
  <2>5. /\ \A c \in Coros : Idle(c)' => Idle(c) /\ c \notin Ending(n)
        /\ \A b \in Bodies : b \notin Ending(n) => base'[b] = base[b] /\ pc'[b] = pc[b]
        /\ \A b \in Bodies : Alive(b)' => Alive(b) /\ b \notin Ending(n)
        /\ park' = park /\ chain' = SubSeq(chain, 1, n)
    BY <1>1, <1>3, <1>4, EndedIs
  <2>6. ASSUME NEW kind \in Kind, NEW v, Whole(kind, v) PROVE Whole(kind, v)'
    <3>1. Bases(kind)[g] = Of(kind, base[g])
      BY <1>5, <2>1, <1>1 DEF Bases
    <3>2. Stack(kind)' = Cut(Stack(kind), Bases(kind)[g])
      BY <2>1, <2>2, <2>3, <3>1 DEF Stack, Of
    <3>3. \A b \in Bodies : b # g => pc'[b] = pc[b] /\ base'[b] = base[b]
      BY <2>4, <2>5
    <3>4. \A c \in Coros : Idle(c)' /\ c # g => Idle(c) /\ Put(kind, c)' = Put(kind, c)
      BY <2>2, <2>5 DEF Put
    <3>5. ~Idle(g)'
      BY <1>1, <2>1, <2>4, <2>5
    <3> QED BY <1>1, <1>2, <2>1, <2>2, <2>5, <2>6, <3>2, <3>3, <3>4, <3>5, WholePop
  <2>7. \A b \in Bodies : Alive(b)' => Alive(b) /\ pc'[b] = pc[b] /\ b # Me
    BY <2>1, <2>4, <2>5
  <2> QED BY <1>1, <1>4, <2>6, <2>7, GenKeeps
<1> QED BY <1>1, <1>6, <1>7, Sorts

LEMMA EscapeGen == GenInv /\ Escape => GenInv'
<1> SUFFICES ASSUME GenInv, Escape PROVE GenInv'
  OBVIOUS
<1>1. Core /\ Core' /\ ~ended /\ next = "throw" /\ ended' = ended /\ lost' = lost
  BY EscapeCore DEF GenInv, Core, Control, Escape
<1>2. Side \in 0 .. Len(chain) /\ Side # 0 /\ chain[Side] \in Fibers /\ Side > 1
  BY <1>1, BottomIs DEF Escape
<1>3. PICK n \in 1 .. Len(chain) : n = Side
  BY <1>2
<1>4. PICK h \in 1 .. Len(chain) : h = n - 1
  BY <1>2, <1>3
<1>5. PICK f \in Fibers : chain[n] = f
  BY <1>2, <1>3
<1>6. /\ exc' = side[f].exc /\ fin' = side[f].fin /\ side' = [side EXCEPT ![f] = Nothing]
      /\ Ended(h, "closed") /\ pc' = Positions(h)
  BY <1>3, <1>4, <1>5 DEF Escape
<1> QED BY <1>1, <1>4, <1>5, <1>6, FiberLeaves

(* What a body of the live stack has pending, without the bodies over it.  *)
LEMMA PartsUnder ==
  ASSUME GenInv, ~ended, ~lost, next # "return",
         NEW n \in 1 .. Len(chain), Over(chain, n, Len(chain) + 1)
  PROVE  /\ Pending(Kept(n, fin), base[chain[n]].fin, chain[n], pc[chain[n]], "run")
         /\ Kept(n, fin) \in Seq(Action) /\ base[chain[n]].fin \in Nat
         /\ \A i \in 1 .. base[chain[n]].fin : Kept(n, fin)[i] = fin[i]
<1> DEFINE o == chain[n]
           B == Bases("fin")
           hi == Roof(chain, B, fin, n, Len(chain) + 1)
           s == Kept(n, fin)
<1>1. Core
  BY DEF GenInv
<1>2. PICK v : Whole("fin", v) /\ Returned(v)
  BY DEF GenInv
<1>3. /\ Len(chain) \in Nat /\ o \in Bodies /\ fin \in Seq(Action) /\ base \in [Bodies -> [exc: Nat, fin: Nat]]
      /\ \A i \in 1 .. Len(chain) : chain[i] \in Bodies
      /\ DOMAIN chain = 1 .. Len(chain)
  BY <1>1, ChainIs DEF Core, Typed
<1>4. \A b \in Bodies : B[b] = base[b].fin /\ B[b] \in Nat
  BY <1>3 DEF Bases, Of
<1>5. Forms(chain, B, v) /\ Live("fin", chain, B, v, pc, fin, Sides("fin"))
  BY <1>1, <1>2, StackIs, WholeForms DEF Whole, Running
<1>6. v[o] \in Leftover
  BY <1>2, <1>3 DEF Whole
<1> HIDE DEF B
<1>7. Stands("fin", chain, B, v, pc, fin, n, Len(chain) + 1)
  BY <1>5, LiveOnTop
<1>8. Owns("fin", fin, B[o], hi, o, v, pc)
  BY <1>7 DEF Stands
<1>9. B[o] \in Nat /\ hi \in Nat /\ B[o] <= hi /\ hi <= Len(fin) /\ Len(fin) \in Nat
  <2>1. B[o] \in Nat
    BY <1>3, <1>4
  <2> HIDE DEF o, hi
  <2> QED BY <1>3, <1>6, <1>8, <2>1, OwnsBounds
<1>10. s \in Seq(Action) /\ Len(s) = hi /\ \A i \in 1 .. hi : s[i] = fin[i]
  <2>1. CASE n = Len(chain)
    <3>1. hi = Len(fin) /\ s = fin
      BY <1>3, <2>1 DEF Roof, Kept
    <3> QED BY <1>3, <3>1
  <2>2. CASE n # Len(chain)
    <3>0. Len(chain) \in Nat /\ n # Len(chain)
      BY <1>3, <2>2
    <3>1. n + 1 \in 1 .. Len(chain) /\ n + 1 # Len(chain) + 1
      BY <3>0
    <3>2. hi = B[chain[n + 1]]
      BY <3>1 DEF Roof
    <3>3. hi = base[chain[n + 1]].fin
      BY <1>3, <1>4, <3>1, <3>2
    <3>4. s = Cut(fin, hi)
      BY <2>2, <3>3 DEF Kept
    <3> HIDE DEF hi, s
    <3>5. hi \in 0 .. Len(fin)
      BY <1>9
    <3> QED BY <1>3, <3>4, <3>5, CutIs
  <2> QED BY <2>1, <2>2
<1> HIDE DEF s, hi
<1>11. Owns("fin", s, B[o], Len(s), o, v, pc)
  <2>1. B[o] \in Nat /\ hi \in 0 .. Len(fin) /\ B[o] <= hi
    BY <1>9
  <2>2. Len(s) \in Nat /\ hi <= Len(s) /\ \A i \in 1 .. hi : s[i] = fin[i]
    BY <1>9, <1>10
  <2>3. Owns("fin", s, B[o], hi, o, v, pc)
    BY <1>3, <1>6, <1>8, <2>1, <2>2, OwnsCut
  <2> QED BY <1>10, <2>3
<1>12. v[o].junk \in Nat /\ v[o].from \in Nat
  BY <1>6 DEF Leftover
<1>13. Alive(o)
  <2>1. n \in DOMAIN chain /\ chain[n] = o
    BY <1>3
  <2> QED BY <1>1, <1>3, <2>1, Sorts DEF Alive, Core, Control
<1>14. v[o].from = 0 \/ v[o].from \in Waits(pc[o])
  BY <1>2, <1>3, <1>13 DEF Returned
<1>15. Pending(s, B[o], o, pc[o], "run")
  BY <1>11, <1>12, <1>14 DEF Pending, Owns
<1>16. \A i \in 1 .. B[o] : s[i] = fin[i]
  BY <1>9, <1>10
<1> QED BY <1>3, <1>4, <1>9, <1>10, <1>15, <1>16 DEF s

(* An exception is taken by the n-th body: those over it end.              *)
LEMMA GenCut ==
  ASSUME GenInv, Core', ~ended, ended' = ended, lost => lost', next # "return",
         NEW n \in 1 .. Len(chain), Over(chain, n, Len(chain) + 1), Ended(n, "closed"),
         side' = side, NEW q \in Seq(Region), pc' = [Positions(n) EXCEPT ![chain[n]] = q],
         Slice("exc", exc', base[chain[n]].exc, Len(exc'), chain[n], q, 0),
         \A i \in 1 .. base[chain[n]].exc : exc'[i] = exc[i],
         ~lost' => /\ Pending(fin', base[chain[n]].fin, chain[n], q, "run")
                   /\ \A i \in 1 .. base[chain[n]].fin : fin'[i] = fin[i]
  PROVE  GenInv'
<1> DEFINE o == chain[n]
<1>1. Core /\ Whole("exc", Plain) /\ (~lost => \E v : Whole("fin", v) /\ Returned(v))
  BY DEF GenInv
<1>2. /\ o \in Bodies /\ base[o] \in [exc: Nat, fin: Nat] /\ Len(chain) \in Nat
      /\ DOMAIN chain = 1 .. Len(chain) /\ \A i, j \in DOMAIN chain : chain[i] = chain[j] => i = j
  BY <1>1, ChainIs DEF Core, Typed, Control
<1>3. Bases("exc")[o] = base[o].exc /\ Bases("fin")[o] = base[o].fin
  BY <1>2 DEF Bases, Of
<1>4. Stack("exc")' = exc' /\ Stack("fin")' = fin'
  BY DEF Stack
<1>5. /\ \A c \in Coros : Idle(c)' => Idle(c) /\ c \notin Ending(n)
      /\ \A b \in Bodies : b \notin Ending(n) => base'[b] = base[b] /\ Positions(n)[b] = pc[b]
      /\ \A b \in Bodies : Alive(b)' => Alive(b) /\ b \notin Ending(n)
      /\ park' = park /\ chain' = SubSeq(chain, 1, n)
  BY <1>1, EndedIs
<1>6. pc'[o] = q /\ \A b \in Bodies : b \notin Ending(n) /\ b # o => pc'[b] = pc[b]
  <2>1. Positions(n) \in [Bodies -> Seq(Region)]
    BY <1>1, EndedCore
  <2> QED BY <1>2, <1>5, <2>1
<1>7. Whole("exc", Plain)'
  <2>1. base[o].exc \in Nat
    BY <1>2
  <2>2. Owns("exc", exc', base[o].exc, Len(exc'), o, Plain, pc')
    BY <1>2, <1>6, <2>1, HandlerSlice
  <2>3. /\ Owns("exc", Stack("exc")', Bases("exc")[chain[n]], Len(Stack("exc")'), chain[n], Plain, pc')
        /\ \A i \in 1 .. Bases("exc")[chain[n]] : Stack("exc")'[i] = Stack("exc")[i]
    BY <1>3, <1>4, <2>2, StackIs
  <2>4. TopChange("exc", n, Plain, Plain)
    BY <1>5, <1>6, <2>3 DEF TopChange
  <2> QED BY <1>1, <2>4, PlainIs, StackIs, WholeTopChange
<1>8. ASSUME ~lost' PROVE \E w : Whole("fin", w)' /\ Returned(w)'
  <2>1. PICK v : Whole("fin", v) /\ Returned(v)
    BY <1>1, <1>8
  <2>2. v \in [Bodies -> Leftover]
    BY <2>1 DEF Whole
  <2>3. PICK j \in Nat, f \in Nat :
          /\ Slice("fin", fin', base[o].fin + j, Len(fin'), o, q, f)
          /\ f = 0 \/ f \in Waits(q)
    BY <1>8 DEF Pending
  <2>4. PICK l \in Leftover : l.junk = j /\ l.from = f
    <3>1. [junk |-> j, from |-> f] \in Leftover
      BY DEF Leftover
    <3> QED BY <3>1
  <2>5. PICK w \in [Bodies -> Leftover] : w[o] = l /\ \A b \in Bodies : b # o => w[b] = v[b]
    <3>1. [v EXCEPT ![o] = l] \in [Bodies -> Leftover]
      BY <2>2
    <3>2. /\ [v EXCEPT ![o] = l][o] = l
          /\ \A b \in Bodies : b # o => [v EXCEPT ![o] = l][b] = v[b]
      BY <1>2, <2>2
    <3> QED BY <3>1, <3>2
  <2>6. Owns("fin", fin', base[o].fin, Len(fin'), o, w, pc')
    BY <1>6, <2>3, <2>4, <2>5 DEF Owns
  <2>7. /\ Owns("fin", Stack("fin")', Bases("fin")[o], Len(Stack("fin")'), o, w, pc')
        /\ \A i \in 1 .. Bases("fin")[o] : Stack("fin")'[i] = Stack("fin")[i]
    BY <1>3, <1>4, <1>8, <2>6, StackIs
  <2>8. Whole("fin", w)'
    <3>1. TopChange("fin", n, v, w)
      BY <1>5, <1>6, <2>5, <2>7 DEF TopChange
    <3> QED BY <1>1, <2>1, <2>5, <3>1, StackIs, WholeTopChange
  <2>9. Returned(w)'
    <3> SUFFICES ASSUME NEW b \in Bodies, Alive(b)'
                 PROVE  \/ /\ Alive(b) /\ w[b].from = v[b].from /\ pc'[b] = pc[b]
                           /\ b # Me \/ next # "return"
                        \/ w[b].from = 0
                        \/ w[b].from \in Waits(pc'[b])
                        \/ b = Me' /\ next' = "return"
      BY <2>1, ReturnedRest
    <3>1. CASE b = o
      BY <1>6, <2>3, <2>4, <2>5, <3>1
    <3>2. CASE b # o
      BY <1>5, <1>6, <2>5, <3>2
    <3> QED BY <3>1, <3>2
  <2> QED BY <2>8, <2>9
<1> QED BY <1>7, <1>8 DEF GenInv

(* The body a throw lands in: the handler is in its part.                  *)
LEMMA TakerLevel ==
  ASSUME GenInv, ~ended, Takers # {}, NEW n \in 1 .. Len(chain), chain[n] = Taker.owner
  PROVE  Level(Max(Takers), n) /\ Over(chain, n, Len(chain) + 1)
<1>1. Core /\ Whole("exc", Plain)
  BY DEF GenInv
<1>2. Max(Takers) \in 1 .. Len(exc) /\ Taker = exc[Max(Takers)]
  BY <1>1, TakerIs
<1>3. PICK m \in 1 .. Len(chain) : Level(Max(Takers), m)
  BY <1>1, <1>2, EveryLevel
<1>4. chain[m] = chain[n]
  BY <1>2, <1>3 DEF Level
<1>5. DOMAIN chain = 1 .. Len(chain) /\ \A j, k \in DOMAIN chain : chain[j] = chain[k] => j = k
  BY <1>1, ChainIs DEF Core, Control
<1>6. m = n
  BY <1>4, <1>5
<1> QED BY <1>3, <1>6 DEF Level

LEMMA TakerPlace ==
  ASSUME GenInv, ~ended, Takers # {}, NEW o, o = Taker.owner, NEW n \in 1 .. Len(chain), chain[n] = o,
         NEW k, k = Len(Taker.path)
  PROVE  /\ pc[o] \in Seq(Region) /\ k \in 1 .. Len(pc[o]) /\ k \in Asks(pc[o])
         /\ Taker.path = At(SubSeq(pc[o], 1, k), "try")
         /\ Taker.inCatch = (pc[o][k].at = "catch")
         /\ Taker.path \in Seq(Region) /\ Taker.path # << >>
         /\ \A j \in 1 .. k - 1 : Taker.path[j] = pc[o][j]
         /\ Taker.path[k].kind = pc[o][k].kind /\ Taker.path[k].at = "try"
<1>1. Core /\ Whole("exc", Plain)
  BY DEF GenInv
<1>2. Max(Takers) \in 1 .. Len(exc) /\ Taker = exc[Max(Takers)]
  BY <1>1, TakerIs
<1>3. PICK i \in 1 .. Len(exc) : i = Max(Takers)
  BY <1>2
<1>4. Level(i, n) /\ exc[i] = Taker
  BY <1>2, <1>3, TakerLevel
<1>5. /\ k \in Asks(pc[o]) /\ k \in 1 .. Len(pc[o]) /\ Right("exc", Taker, pc[o], 0)
  BY <1>1, <1>4, LevelEntry
<1>6. pc[o] \in Seq(Region)
  BY <1>1, ChainIs DEF Core, Typed
<1>7. PICK p \in Seq(Region) : p = pc[o]
  BY <1>6
<1>8. /\ k \in Asks(p) /\ k \in 1 .. Len(p)
      /\ Taker.path = At(SubSeq(p, 1, k), "try") /\ Taker.inCatch = (p[k].at = "catch")
  BY <1>5, <1>7 DEF Right
<1> DEFINE s == SubSeq(p, 1, k)
<1>9. s \in Seq(Region) /\ Len(s) = k /\ s # << >> /\ \A j \in 1 .. k : s[j] = p[j]
  <2>1. k \in 0 .. Len(p)
    BY <1>8
  <2>2. s \in Seq(Region) /\ Len(s) = k /\ \A j \in 1 .. k : s[j] = p[j]
    BY <2>1, PrefixIs
  <2> HIDE DEF s
  <2>3. k \in Nat /\ k # 0
    BY <1>8
  <2>4. s # << >>
    <3> SUFFICES ASSUME s = << >> PROVE FALSE
      OBVIOUS
    <3>1. Len(s) = 0
      OBVIOUS
    <3> QED BY <2>2, <2>3, <3>1
  <2> QED BY <2>2, <2>4
<1>10. Taker.path = At(s, "try")
  BY <1>8
<1> HIDE DEF s
<1>11. /\ Taker.path \in Seq(Region) /\ Len(Taker.path) = k
       /\ \A j \in 1 .. k - 1 : Taker.path[j] = s[j]
       /\ Taker.path[k].kind = s[k].kind /\ Taker.path[k].at = "try"
  <2>1. /\ At(s, "try") \in Seq(Region) /\ Len(At(s, "try")) = Len(s)
        /\ \A j \in 1 .. Len(s) - 1 : At(s, "try")[j] = s[j]
        /\ At(s, "try")[Len(s)].kind = s[Len(s)].kind /\ At(s, "try")[Len(s)].at = "try"
    BY <1>9, AtIs
  <2> QED BY <1>9, <1>10, <2>1
<1>12. \A j \in 1 .. k - 1 : Taker.path[j] = p[j]
  <2> TAKE j \in 1 .. k - 1
  <2>1. j \in 1 .. k
    BY <1>8
  <2> QED BY <1>9, <1>11, <2>1
<1>13. Taker.path # << >> /\ s[k] = p[k]
  BY <1>8, <1>9, <1>11
<1>14. Taker.path = At(SubSeq(pc[o], 1, k), "try") /\ Taker.inCatch = (pc[o][k].at = "catch")
  BY <1>7, <1>8
<1> QED BY <1>6, <1>7, <1>8, <1>11, <1>12, <1>13, <1>14

(* What stays of its part under the handler.                               *)
UnderTaker(h, o, q) ==
  /\ SubSeq(exc, 1, h) \in Seq(Handler) /\ Len(SubSeq(exc, 1, h)) = h
  /\ base[o].exc \in 0 .. h
  /\ Slice("exc", SubSeq(exc, 1, h), base[o].exc, h, o, q, 0)
  /\ \A j \in 1 .. base[o].exc : SubSeq(exc, 1, h)[j] = exc[j]

LEMMA TakerUnder ==
  ASSUME GenInv, ~ended, Takers # {}, NEW o, o = Taker.owner, NEW n \in 1 .. Len(chain), chain[n] = o,
         NEW m, m + 1 = Len(Taker.path), NEW q \in Seq(Region), Fork(pc[o], q, m),
         Asks(q) \subseteq 1 .. m, NEW h, h = Max(Takers) - 1
  PROVE  UnderTaker(h, o, q)
<1>1. Core /\ Whole("exc", Plain)
  BY DEF GenInv
<1>2. Max(Takers) \in 1 .. Len(exc) /\ Taker = exc[Max(Takers)]
  BY <1>1, TakerIs
<1>3. PICK i \in 1 .. Len(exc) : i = Max(Takers)
  BY <1>2
<1>4. Level(i, n) /\ exc[i] = Taker /\ Over(chain, n, Len(chain) + 1)
  BY <1>2, <1>3, TakerLevel
<1>5. o \in Bodies /\ base \in [Bodies -> [exc: Nat, fin: Nat]] /\ exc \in Seq(Fit) /\ pc[o] \in Seq(Region)
  BY <1>1, ChainIs DEF Core, Typed
<1>6. PICK B \in Nat : B = base[o].exc /\ B = Bases("exc")[o]
  BY <1>5 DEF Bases, Of
<1> DEFINE R == Roof(chain, Bases("exc"), exc, n, Len(chain) + 1)
<1>7. Slice("exc", exc, B, R, o, pc[o], 0)
  BY <1>1, <1>4, <1>6, LevelPart
<1>8. i \in B + 1 .. R
  BY <1>4, <1>6 DEF Level
<1>9. /\ \A j \in B + 1 .. i - 1 : Len(exc[j].path) <= Len(exc[i].path) - 1
      /\ \A j \in i + 1 .. R : Len(exc[j].path) > Len(exc[i].path)
  BY <1>1, <1>4, <1>6, LevelEntry
<1>10. Len(exc[i].path) \in Nat /\ m \in Nat /\ m + 1 = Len(exc[i].path)
  BY <1>4 DEF Fork
<1> HIDE DEF R
<1>11. R \in Nat /\ R <= Len(exc) /\ Len(exc) \in Nat
  BY <1>5, <1>7, SliceBounds
<1>12. h \in B .. R /\ h \in 0 .. Len(exc) /\ h + 1 = i /\ h \in Nat
  BY <1>3, <1>8, <1>11
<1>13. \A j \in B + 1 .. h : Len(exc[j].path) <= m
  BY <1>9, <1>10, <1>12
<1>14. \A j \in h + 1 .. R : Len(exc[j].path) > m
  <2> TAKE j \in h + 1 .. R
  <2>1. j = i \/ j \in i + 1 .. R
    BY <1>8, <1>11, <1>12
  <2> QED BY <1>9, <1>10, <2>1
<1>15. \A j \in Wanted("exc", q, 0) : j <= m
  BY <1>10 DEF Wanted
<1>16. m <= Len(pc[o]) /\ m <= Len(q) /\ \A j \in 1 .. m : q[j] = pc[o][j]
  BY DEF Fork
<1>17. Slice("exc", exc, B, h, o, q, 0)
  BY <1>5, <1>7, <1>10, <1>12, <1>13, <1>14, <1>15, <1>16, SliceRewrites
<1> DEFINE s == SubSeq(exc, 1, h)
<1>18. s \in Seq(Fit) /\ Len(s) = h /\ \A j \in 1 .. h : s[j] = exc[j]
  BY <1>5, <1>12, PrefixIs
<1>19. s \in Seq(Handler)
  BY <1>18 DEF Fit
<1> HIDE DEF s
<1>20. Slice("exc", s, B, h, o, q, 0)
  <2>1. \A j \in B + 1 .. h : s[j] = exc[j]
    BY <1>18
  <2>2. h <= Len(s)
    BY <1>12, <1>18
  <2> QED BY <1>17, <2>1, <2>2, SliceSame
<1>21. B \in 0 .. h /\ \A j \in 1 .. B : s[j] = exc[j]
  BY <1>12, <1>18
<1>22. UnderTaker(h, o, q) <=>
         /\ s \in Seq(Handler) /\ Len(s) = h /\ B \in 0 .. h
         /\ Slice("exc", s, B, h, o, q, 0) /\ \A j \in 1 .. B : s[j] = exc[j]
  BY <1>6 DEF UnderTaker, s
<1> QED BY <1>18, <1>19, <1>20, <1>21, <1>22

(* Where the body goes on, and what there is then of handlers.             *)
LandsPlainly(q, m, h) == Asks(q) \subseteq 1 .. m /\ exc' = SubSeq(exc, 1, h)
LandsInCatch(q, m, h) ==
  /\ Taker.owner \in Gens /\ HasCatch(Taker) /\ q = At(Taker.path, "catch")
  /\ exc' = Append(SubSeq(exc, 1, h), [Taker EXCEPT !.inCatch = TRUE])

LandsAt(p, q, k, m, h) ==
  /\ q \in Seq(Region) /\ Fork(p, q, m)
  /\ HasCatch(Taker) => Waits(q) \subseteq 1 .. m
  /\ ~HasCatch(Taker) => /\ Taker.owner \in Gens /\ q = At(Taker.path, "finally")
                         /\ Len(q) = k /\ q[k].at = "finally"
  /\ LandsPlainly(q, m, h) \/ LandsInCatch(q, m, h)

LEMMA LandingIs ==
  ASSUME Core, Takers # {}, exc' = Handled, NEW p, NEW k \in Nat, k = Len(Taker.path), NEW m \in Nat, m + 1 = k,
         NEW h \in 0 .. Len(exc), h = Max(Takers) - 1, k <= Len(p), Taker.path # << >>,
         Taker.path \in Seq(Region), \A j \in 1 .. m : Taker.path[j] = p[j],
         NEW q, q = Landing
  PROVE  LandsAt(p, q, k, m, h)
<1>0. Len(Taker.path) = k /\ m = k - 1 /\ k \in 1 .. k
  OBVIOUS
<1>1. /\ Taker.path \in Path(Taker.owner)
      /\ HasCatch(Taker) \/ HasFinally(Taker)
      /\ exc \in Seq(Fit) /\ Len(exc) \in Nat /\ Taker \in Fit
  BY TakerIs, MineIs
<1>2. SubSeq(exc, 1, h) \in Seq(Fit)
  BY <1>1, PrefixIs
<1>3. SubSeq(exc, 1, h) \o << >> = SubSeq(exc, 1, h)
  BY <1>2
<1>4. Handled = SubSeq(exc, 1, h) \o (IF HasCatch(Taker) THEN Marked ELSE << >>)
  BY DEF Handled
<1>5. CASE Taker.owner \notin Gens
  <2>1. q = Front(Taker.path)
    BY <1>5 DEF Landing
  <2>2. q \in Seq(Region) /\ Len(q) = m /\ \A j \in 1 .. m : q[j] = Taker.path[j]
    <3>1. /\ Front(Taker.path) \in Seq(Region) /\ Len(Front(Taker.path)) = Len(Taker.path) - 1
          /\ \A j \in 1 .. Len(Taker.path) - 1 : Front(Taker.path)[j] = Taker.path[j]
      BY FrontPath
    <3> QED BY <1>0, <2>1, <3>1
  <2>3. Asks(q) \subseteq 1 .. m /\ Waits(q) \subseteq 1 .. m
    BY <2>2 DEF Asks, Waits
  <2>4. Fork(p, q, m)
    <3>1. \A j \in 1 .. m : q[j] = p[j]
      BY <2>2
    <3> QED BY <1>0, <2>2, <3>1 DEF Fork
  <2>5. HasCatch(Taker)
    <3>1. Last(Taker.path) = Taker.path[k] /\ k \in 1 .. Len(Taker.path)
      BY <1>0, LastIs
    <3>2. Last(Taker.path).kind = "catch"
      <4>1. Taker.path \in Path(Taker.owner)
        BY <1>1
      <4> QED BY <1>5, <3>1, <4>1, PlainPath
    <3> QED BY <1>1, <3>2 DEF HasFinally
  <2>6. exc' = SubSeq(exc, 1, h)
    BY <1>3, <1>4, <1>5, <2>5 DEF Marked
  <2> QED BY <2>2, <2>3, <2>4, <2>5, <2>6 DEF LandsPlainly, LandsAt
<1>6. CASE Taker.owner \in Gens /\ HasCatch(Taker)
  <2>1. q = At(Taker.path, "catch")
    BY <1>6 DEF Landing
  <2>2. /\ q \in Seq(Region) /\ Len(q) = k /\ \A j \in 1 .. k - 1 : q[j] = Taker.path[j]
        /\ q[k].at = "catch"
    <3>1. /\ At(Taker.path, "catch") \in Seq(Region) /\ Len(At(Taker.path, "catch")) = Len(Taker.path)
          /\ \A j \in 1 .. Len(Taker.path) - 1 : At(Taker.path, "catch")[j] = Taker.path[j]
          /\ At(Taker.path, "catch")[Len(Taker.path)].at = "catch"
      BY AtIs
    <3> QED BY <1>0, <2>1, <3>1
  <2>3. Fork(p, q, m)
    <3>1. \A j \in 1 .. m : q[j] = p[j]
      BY <2>2
    <3> QED BY <2>2, <3>1 DEF Fork
  <2>4. Waits(q) \subseteq 1 .. m
    <3> SUFFICES ASSUME NEW j \in Waits(q) PROVE j \in 1 .. m
      OBVIOUS
    <3>1. j \in 1 .. k /\ j # k
      BY <2>2 DEF Waits
    <3> QED BY <3>1
  <2>5. Marked = <<[Taker EXCEPT !.inCatch = TRUE]>>
    BY <1>6 DEF Marked
  <2>6. exc' = Append(SubSeq(exc, 1, h), [Taker EXCEPT !.inCatch = TRUE])
    <3> DEFINE s == SubSeq(exc, 1, h)
               e == [Taker EXCEPT !.inCatch = TRUE]
    <3>1. exc' = s \o <<e>> /\ s \in Seq(Fit) /\ e \in Fit
      BY <1>1, <1>2, <1>4, <1>6, <2>5 DEF Fit, Handler
    <3> HIDE DEF s, e
    <3>2. s \o <<e>> = Append(s, e)
      BY <3>1
    <3> QED BY <3>1, <3>2 DEF s, e
  <2> QED BY <1>6, <2>1, <2>2, <2>3, <2>4, <2>6 DEF LandsInCatch, LandsAt
<1>7. CASE Taker.owner \in Gens /\ ~HasCatch(Taker)
  <2>1. q = At(Taker.path, "finally")
    BY <1>7 DEF Landing
  <2>2. /\ q \in Seq(Region) /\ Len(q) = k /\ \A j \in 1 .. k - 1 : q[j] = Taker.path[j]
        /\ q[k].at = "finally"
    <3>1. /\ At(Taker.path, "finally") \in Seq(Region)
          /\ Len(At(Taker.path, "finally")) = Len(Taker.path)
          /\ \A j \in 1 .. Len(Taker.path) - 1 : At(Taker.path, "finally")[j] = Taker.path[j]
          /\ At(Taker.path, "finally")[Len(Taker.path)].at = "finally"
      BY AtIs
    <3> QED BY <1>0, <2>1, <3>1
  <2>3. Fork(p, q, m)
    <3>1. \A j \in 1 .. m : q[j] = p[j]
      BY <2>2
    <3> QED BY <2>2, <3>1 DEF Fork
  <2>4. Asks(q) \subseteq 1 .. m
    <3> SUFFICES ASSUME NEW j \in Asks(q) PROVE j \in 1 .. m
      OBVIOUS
    <3>1. j \in 1 .. k /\ j # k
      BY <2>2 DEF Asks
    <3> QED BY <3>1
  <2>5. exc' = SubSeq(exc, 1, h)
    BY <1>3, <1>4, <1>7
  <2> QED BY <1>7, <2>1, <2>2, <2>3, <2>4, <2>5 DEF LandsPlainly, LandsAt
<1> QED BY <1>5, <1>6, <1>7

LEMMA LandGen == GenInv /\ Land => GenInv'
<1> SUFFICES ASSUME GenInv, Land PROVE GenInv'
  OBVIOUS
<1>1. Core /\ Core' /\ ~ended /\ next = "throw" /\ Takers # {} /\ ended' = ended /\ exc' = Handled
      /\ side' = side /\ next' = "run"
  BY LandCore DEF GenInv, Core, Control, Land
<1>2. PICK n \in 1 .. Len(chain) :
        /\ chain[n] = Taker.owner
        /\ Ended(n, "closed")
        /\ pc' = [Positions(n) EXCEPT ![Taker.owner] = Landing]
        /\ fin' = Kept(n, Queued)
        /\ lost' = (\/ lost
                    \/ n < Len(chain) /\ ~HasCatch(Taker)
                    \/ \E j \in Len(Taker.path) + 1 .. Len(pc[Taker.owner]) :
                         pc[Taker.owner][j].at = "finally")
  <2>1. Bottom \in 1 .. Len(chain) /\ Len(chain) \in Nat
    BY <1>1, BottomIs, ChainIs DEF Core
  <2>2. \A j \in Bottom .. Len(chain) : j \in 1 .. Len(chain)
    BY <2>1
  <2> QED BY <2>2 DEF Land
<1>3. PICK o \in Bodies : o = Taker.owner
  BY <1>1, TakerIs
<1>4. PICK k \in Nat : k = Len(Taker.path)
  <2>1. Taker.path \in Seq(Region)
    BY <1>1, TakerIs, PathIs
  <2> QED BY <2>1
<1>5. PICK p \in Seq(Region) : p = pc[o]
  BY <1>1 DEF Core, Typed
<1>6. /\ k \in 1 .. Len(p) /\ k \in Asks(p)
      /\ Taker.path \in Seq(Region) /\ Taker.path # << >>
      /\ \A j \in 1 .. k - 1 : Taker.path[j] = p[j]
      /\ Taker.path[k].kind = p[k].kind /\ Taker.path[k].at = "try"
  BY <1>1, <1>2, <1>3, <1>4, <1>5, TakerPlace
<1>7. PICK m \in Nat : m + 1 = k
  <2>1. k - 1 \in Nat /\ (k - 1) + 1 = k
    BY <1>6
  <2> QED BY <2>1
<1>8. PICK h \in 0 .. Len(exc) : h = Max(Takers) - 1
  <2>1. Max(Takers) \in 1 .. Len(exc) /\ Len(exc) \in Nat
    BY <1>1, TakerIs, MineIs
  <2>2. Max(Takers) - 1 \in 0 .. Len(exc)
    BY <2>1
  <2> QED BY <2>2
<1>9. PICK q : q = Landing
  OBVIOUS
<1>10. /\ q \in Seq(Region) /\ Fork(p, q, m)
       /\ HasCatch(Taker) => Waits(q) \subseteq 1 .. m
       /\ ~HasCatch(Taker) => Taker.owner \in Gens /\ q = At(Taker.path, "finally")
                              /\ Len(q) = k /\ q[k].at = "finally"
       /\ LandsPlainly(q, m, h) \/ LandsInCatch(q, m, h)
  <2>1. \A j \in 1 .. m : Taker.path[j] = p[j]
    BY <1>6, <1>7
  <2>2. k <= Len(p)
    BY <1>6
  <2>3. LandsAt(p, q, k, m, h)
    BY <1>1, <1>4, <1>6, <1>7, <1>8, <1>9, <2>1, <2>2, LandingIs
  <2> QED BY <2>3 DEF LandsAt
<1>11. Over(chain, n, Len(chain) + 1)
  BY <1>1, <1>2, TakerLevel
<1>12. /\ Slice("exc", exc', base[o].exc, Len(exc'), o, q, 0)
       /\ \A i \in 1 .. base[o].exc : exc'[i] = exc[i]
  <2>1. m + 1 = Len(Taker.path) /\ chain[n] = o
    BY <1>2, <1>3, <1>4, <1>7
  <2>2. CASE LandsPlainly(q, m, h)
    <3>1. UnderTaker(h, o, q)
      BY <1>1, <1>3, <1>5, <1>8, <1>10, <2>1, <2>2, TakerUnder DEF LandsPlainly
    <3> QED BY <2>2, <3>1 DEF LandsPlainly, UnderTaker
  <2>3. CASE LandsInCatch(q, m, h)
    <3> DEFINE q0 == Front(q)
               s == SubSeq(exc, 1, h)
               e == [Taker EXCEPT !.inCatch = TRUE]
    <3>1. q = At(Taker.path, "catch") /\ exc' = Append(s, e)
      BY <2>3 DEF LandsInCatch
    <3>2. Len(q) = k /\ q[k].at = "catch" /\ q # << >>
      <4>1. Len(q) = k /\ q[k].at = "catch"
        BY <1>4, <1>6, <3>1, AtIs
      <4> QED BY <1>6, <1>10, <4>1
    <3>3. q0 \in Seq(Region) /\ Len(q0) = m /\ \A j \in 1 .. m : q0[j] = q[j]
      <4>1. q0 \in Seq(Region) /\ Len(q0) = Len(q) - 1 /\ \A j \in 1 .. Len(q) - 1 : q0[j] = q[j]
        BY <1>10, <3>2, FrontPath
      <4> QED BY <1>7, <3>2, <4>1
    <3> HIDE DEF q0
    <3>4. Fork(p, q0, m) /\ Asks(q0) \subseteq 1 .. m
      BY <1>10, <3>3 DEF Fork, Asks
    <3>5. UnderTaker(h, o, q0)
      BY <1>1, <1>3, <1>5, <1>8, <2>1, <3>3, <3>4, TakerUnder
    <3>6. /\ s \in Seq(Handler) /\ Len(s) = h /\ base[o].exc \in 0 .. h
          /\ Slice("exc", s, base[o].exc, h, o, q0, 0)
          /\ \A j \in 1 .. base[o].exc : s[j] = exc[j]
      BY <3>5 DEF UnderTaker
    <3>7. e \in Handler /\ e.owner = o /\ e.path = Taker.path /\ e.inCatch = TRUE
      <4>1. Taker \in Handler
        BY <1>1, TakerIs DEF Fit
      <4> QED BY <1>3, <4>1 DEF Handler
    <3> HIDE DEF s, e
    <3>8. Right("exc", e, q, 0)
      <4>1. SubSeq(q, 1, k) = q
        BY <1>10, <3>2, WholePrefix
      <4>2. At(q, "try") = At(Taker.path, "try")
        BY <1>6, <3>1, AtAt
      <4>3. At(Taker.path, "try") = Taker.path
        BY <1>4, <1>6, AtSame
      <4> QED BY <1>4, <3>2, <3>7, <4>1, <4>2, <4>3 DEF Right
    <3>9. /\ Len(q) - 1 <= Len(q0) /\ \A j \in 1 .. Len(q) - 1 : q[j] = q0[j]
          /\ \A j \in Wanted("exc", q0, 0) : j < Len(q)
          /\ Len(q) \in Wanted("exc", q, 0) /\ Len(e.path) = Len(q)
      <4>1. Len(q) - 1 = m
        BY <1>7, <3>2
      <4>2. \A j \in Wanted("exc", q0, 0) : j < Len(q)
        BY <3>2, <1>7, <3>4 DEF Wanted
      <4>3. k \in DOMAIN q
        BY <1>6, <1>10, <3>2
      <4>4. Len(q) \in Wanted("exc", q, 0)
        BY <3>2, <4>3 DEF Wanted, Asks
      <4> QED BY <1>4, <3>2, <3>3, <3>7, <4>1, <4>2, <4>4
    <3>10. Slice("exc", s, base[o].exc, Len(s), o, q0, 0)
      BY <3>6
    <3>11. Slice("exc", Append(s, e), base[o].exc, Len(s) + 1, o, q, 0)
      BY <1>10, <3>2, <3>3, <3>6, <3>7, <3>8, <3>9, <3>10, SlicePushes
    <3>12. Len(exc') = Len(s) + 1 /\ \A j \in 1 .. Len(s) : exc'[j] = s[j]
      BY <3>1, <3>6, <3>7, AppendIs
    <3>13. \A j \in 1 .. base[o].exc : exc'[j] = exc[j]
      BY <3>6, <3>12
    <3> QED BY <3>1, <3>11, <3>12, <3>13
  <2> QED BY <1>10, <2>2, <2>3
<1>13. ASSUME ~lost'
       PROVE  /\ Pending(fin', base[o].fin, o, q, "run")
              /\ \A i \in 1 .. base[o].fin : fin'[i] = fin[i]
  <2>1. /\ ~lost /\ (n < Len(chain) => HasCatch(Taker))
        /\ \A j \in k + 1 .. Len(p) : p[j].at # "finally"
    BY <1>2, <1>3, <1>4, <1>5, <1>13
  <2>2. Waits(p) \subseteq 1 .. m
    <3> SUFFICES ASSUME NEW j \in Waits(p) PROVE j \in 1 .. m
      OBVIOUS
    <3>1. j \in 1 .. Len(p) /\ p[j].at = "finally"
      BY DEF Waits
    <3>2. j # k /\ j \notin k + 1 .. Len(p)
      BY <1>6, <2>1, <3>1 DEF Asks
    <3> QED BY <1>7, <3>1, <3>2
  <2> DEFINE s == Kept(n, fin)
  <2>3. /\ Pending(s, base[o].fin, o, p, "run") /\ s \in Seq(Action) /\ base[o].fin \in Nat
        /\ \A i \in 1 .. base[o].fin : s[i] = fin[i]
    BY <1>1, <1>2, <1>3, <1>5, <1>11, <2>1, PartsUnder
  <2>4. CASE HasCatch(Taker)
    <3>1. fin' = s
      BY <1>2, <2>4 DEF Queued
    <3> HIDE DEF s
    <3>2. Waits(q) \subseteq 1 .. m
      BY <1>10, <2>4
    <3>3. Pending(s, base[o].fin, o, q, "run")
      BY <1>10, <2>2, <2>3, <3>2, PendingKeeps
    <3> QED BY <2>3, <3>1, <3>3
  <2>5. CASE ~HasCatch(Taker)
    <3>1. n = Len(chain)
      <4>1. Len(chain) \in Nat /\ n <= Len(chain) /\ ~(n < Len(chain))
        BY <1>1, <2>1, <2>5, ChainIs DEF Core
      <4> QED BY <4>1
    <3>2. s = fin /\ fin' = Append(fin, Rethrow)
      BY <1>2, <2>5, <3>1 DEF Kept, Queued
    <3> HIDE DEF s
    <3>3. Len(q) = k /\ q[k].at = "finally" /\ q # << >> /\ q = At(Taker.path, "finally")
      <4>1. Len(q) = k /\ q[k].at = "finally" /\ q = At(Taker.path, "finally")
        BY <1>10, <2>5
      <4>2. k # 0
        BY <1>6
      <4> QED BY <1>10, <4>1, <4>2
    <3>4. Rethrow \in Action /\ Rethrow.owner = o /\ Rethrow.path = q
      BY <1>3, <1>10, <3>3 DEF Rethrow, Action
    <3>5. Len(q) \in Waits(q)
      BY <1>6, <1>10, <3>3 DEF Waits
    <3>6. Inmost(q, m)
      BY <1>7, <3>3 DEF Inmost
    <3>7. PutOn(fin, Rethrow, base[o].fin, o, q, "run")
      BY <1>10, <2>2, <2>3, <3>2, <3>3, <3>4, <3>5, <3>6, PendingPushes
    <3> QED BY <3>2, <3>7 DEF PutOn
  <2> QED BY <2>4, <2>5
<1>14. lost => lost'
  BY <1>2
<1>15. chain[n] = o /\ pc' = [Positions(n) EXCEPT ![chain[n]] = q]
  BY <1>2, <1>3, <1>9
<1> QED BY <1>1, <1>2, <1>10, <1>11, <1>12, <1>13, <1>14, <1>15, GenCut

---------------------------------------------------------------------------
(* Every step keeps the invariant                                          *)

LEMMA GenInit == Init => GenInv
<1> SUFFICES ASSUME Init PROVE GenInv
  OBVIOUS
<1>1. Core
  BY CoreInit
<1>2. /\ Len(chain) = 1 /\ chain[1] = Main /\ exc = << >> /\ fin = << >>
      /\ \A b \in Bodies : pc[b] = << >> /\ base[b] = NoBase
      /\ \A g \in Gens : park[g] = Nothing
      /\ \A f \in Fibers : side[f] = Nothing
  BY Sorts DEF Init
<1>3. ASSUME NEW kind \in Kind PROVE Whole(kind, Plain)
  <2>1. kind \in {"exc", "fin"} /\ Stack(kind) = << >> /\ Len(Stack(kind)) = 0 /\ Len(<< >>) = 0
    BY <1>2 DEF Kind, Stack
  <2>2. \A b \in Bodies : Bases(kind)[b] = 0
    BY <1>2 DEF Bases, Of, NoBase
  <2>3. \A c \in Coros : Put(kind, c) = << >>
    BY <1>2, Sorts DEF Put, Of, Nothing
  <2>4. \A b \in Bodies : Owns(kind, << >>, 0, 0, b, Plain, pc)
    <3> TAKE b \in Bodies
    <3>1. Slice(kind, << >>, 0, 0, b, << >>, 0)
      BY <2>1, SliceEmpty
    <3>2. pc[b] = << >> /\ Plain[b].junk = 0 /\ Plain[b].from = 0
      BY <1>2, PlainIs
    <3> QED BY <3>1, <3>2 DEF Owns
  <2>5. ASSUME NEW m \in 1 .. Len(chain), NEW n \in Tops(chain), m < n
        PROVE  Stands(kind, chain, Bases(kind), Plain, pc, StackAt(chain, Stack(kind), Sides(kind), n), m, n)
    <3>1. m = 1 /\ n = 2 /\ m + 1 = n
      BY <1>2, <2>5 DEF Tops
    <3>2. StackAt(chain, Stack(kind), Sides(kind), n) = << >>
      BY <1>2, <2>1, <3>1 DEF StackAt
    <3>3. Roof(chain, Bases(kind), << >>, m, n) = 0
      BY <2>1, <3>1 DEF Roof
    <3>4. chain[m] = Main /\ Main \in Bodies /\ Bases(kind)[chain[m]] = 0
      BY <1>2, <2>2, <3>1, Sorts
    <3>5. Rise(chain, Bases(kind), << >>, m, n)
      BY <2>1, <3>1, <3>4 DEF Rise
    <3>6. Owns(kind, << >>, 0, 0, Main, Plain, pc)
      BY <2>4, <3>4
    <3> QED BY <3>2, <3>3, <3>4, <3>5, <3>6 DEF Stands
  <2>6. Running(kind, Plain)
    BY <2>5 DEF Running, Live
  <2>7. Waiting(kind, Plain)
    BY <2>1, <2>3, <2>4, Sorts DEF Waiting
  <2> QED BY <2>6, <2>7, PlainIs DEF Whole
<1>4. Returned(Plain)
  BY PlainIs DEF Returned
<1> QED BY <1>1, <1>3, <1>4, StackIs DEF GenInv

LEMMA GenStutter == GenInv /\ UNCHANGED vars => GenInv'
<1> SUFFICES ASSUME GenInv, UNCHANGED vars PROVE GenInv'
  OBVIOUS
<1>1. Core /\ Core'
  BY CoreNext DEF GenInv
<1>2. UNCHANGED <<state, chain, pc, exc, fin, base, park, side, closing, next, lost, ended>>
  BY DEF vars
<1>3. CASE ended
  BY <1>1, <1>2, <1>3 DEF GenInv
<1>4. CASE ~ended
  <2>1. ASSUME NEW kind \in Kind, NEW v, Whole(kind, v) PROVE Whole(kind, v)'
    <3>1. Stack(kind)' = Stack(kind)
      BY <1>2 DEF Stack
    <3>2. \A c \in Coros : Idle(c)' => Idle(c) /\ pc'[c] = pc[c] /\ Put(kind, c)' = Put(kind, c)
      BY <1>2 DEF Idle, Put
    <3> QED BY <1>1, <1>2, <2>1, <3>1, <3>2, WholeSame
  <2>2. Me' = Me
    BY <1>2 DEF Me
  <2>3. \A b \in Bodies : Alive(b)' => Alive(b) /\ pc'[b] = pc[b]
    BY <1>2 DEF Alive, Idle
  <2> QED BY <1>1, <1>2, <1>4, <2>1, <2>2, <2>3, GenKeeps
<1> QED BY <1>3, <1>4

LEMMA GenNext ==
  ASSUME OwnFunctions
  PROVE  GenInv /\ [Next]_vars => GenInv'
<1> SUFFICES ASSUME GenInv, [Next]_vars PROVE GenInv'
  OBVIOUS
<1>1. CASE EnterTry
  BY <1>1, EnterTryGen
<1>2. CASE LeaveTry
  BY <1>2, LeaveTryGen
<1>3. CASE EndFinally
  BY <1>3, EndFinallyGen
<1>4. CASE Start \/ Resume \/ ThrowInto \/ Close
  BY <1>4, StartGen
<1>5. CASE Yield \/ FiberSuspend
  BY <1>5, YieldGen
<1>6. CASE Return \/ Raise \/ RefuseYield
  BY <1>6, ReturnGen
<1>7. CASE ReturnThroughFinally
  BY <1>7, ReturnThroughFinallyGen
<1>8. CASE Complete
  BY <1>8, CompleteGen
<1>9. CASE Land
  BY <1>9, LandGen
<1>10. CASE Escape
  BY <1>10, EscapeGen
<1>11. CASE Uncaught \/ RefuseYieldInTry
  BY <1>11, OverGen
<1>12. CASE Drop
  BY <1>12, DropGen
<1>13. CASE UNCHANGED vars
  BY <1>13, GenStutter
<1> QED BY <1>1, <1>2, <1>3, <1>4, <1>5, <1>6, <1>7, <1>8, <1>9, <1>10, <1>11, <1>12, <1>13 DEF Next

(* Every stack is the parts of the bodies it is kept for, in their order.  *)
LEMMA GenAlways ==
  ASSUME OwnFunctions
  PROVE  Spec => []GenInv
<1>1. GenInv /\ [Next]_vars => GenInv'
  BY GenNext
<1> QED BY GenInit, <1>1, PTL DEF Spec

---------------------------------------------------------------------------
(* What the handlers are                                                   *)

(* An entry of the part of a body is the handler its position asks for.    *)
IsAsked(e, b) == Len(e.path) \in Asked(b) /\ e = HandlerOf(b, Len(e.path))

LEMMA PartHandler ==
  ASSUME NEW s \in Seq(Handler), NEW lo, NEW hi, NEW b, pc[b] \in Seq(Region),
         Slice("exc", s, lo, hi, b, pc[b], 0), NEW i \in lo + 1 .. hi
  PROVE  IsAsked(s[i], b)
<1>1. lo \in Nat /\ hi \in Nat /\ hi <= Len(s)
  BY SliceBounds
<1>2. i \in 1 .. Len(s)
  BY <1>1
<1>3. s[i] \in Handler
  BY <1>2
<1>4. s[i].owner = b /\ Len(s[i].path) \in Wanted("exc", pc[b], 0) /\ Right("exc", s[i], pc[b], 0)
  BY SliceEntry
<1>5. Len(s[i].path) \in Asked(b)
  BY <1>4 DEF Wanted, Asks, Asked
<1>6. /\ s[i].path = At(SubSeq(pc[b], 1, Len(s[i].path)), "try")
      /\ s[i].inCatch = (pc[b][Len(s[i].path)].at = "catch")
  BY <1>4 DEF Right
<1>7. s[i] = [owner |-> s[i].owner, path |-> s[i].path, inCatch |-> s[i].inCatch]
  BY <1>3 DEF Handler
<1> QED BY <1>4, <1>5, <1>6, <1>7 DEF HandlerOf, IsAsked

(* A stack that is the parts of some bodies, in their order.               *)
Parted(s, bodies, lo, hi) ==
  /\ \A m \in 1 .. Len(bodies) :
       /\ Slice("exc", s, lo[m], hi[m], bodies[m], pc[bodies[m]], 0)
       /\ pc[bodies[m]] \in Seq(Region)
  /\ \A i \in 1 .. Len(s) : \E m \in 1 .. Len(bodies) : i \in lo[m] + 1 .. hi[m]
  /\ \A m, n \in 1 .. Len(bodies) : m < n => hi[m] <= lo[n]

LEMMA PartedLists ==
  ASSUME NEW s \in Seq(Handler), NEW bodies \in Seq(Bodies), NEW lo, NEW hi, Parted(s, bodies, lo, hi)
  PROVE  Lists(s, bodies)
<1>1. /\ Len(s) \in Nat /\ DOMAIN s = 1 .. Len(s)
      /\ Len(bodies) \in Nat /\ DOMAIN bodies = 1 .. Len(bodies)
  OBVIOUS
<1>2. \A p : p \in Places(bodies) <=>
         \E m \in 1 .. Len(bodies) : \E k \in Asked(bodies[m]) : p = <<m, k>>
  BY <1>1 DEF Places
<1>3. \A m \in 1 .. Len(bodies) :
        /\ Slice("exc", s, lo[m], hi[m], bodies[m], pc[bodies[m]], 0)
        /\ pc[bodies[m]] \in Seq(Region)
        /\ lo[m] \in Nat /\ hi[m] \in Nat /\ hi[m] <= Len(s)
  BY SliceBounds DEF Parted
<1>4. ASSUME NEW m \in 1 .. Len(bodies), NEW i \in lo[m] + 1 .. hi[m]
      PROVE  /\ <<m, Len(s[i].path)>> \in Places(bodies)
             /\ s[i] = HandlerAt(bodies, <<m, Len(s[i].path)>>)
  <2>1. Len(s[i].path) \in Asked(bodies[m]) /\ s[i] = HandlerOf(bodies[m], Len(s[i].path))
    <3>1. PICK b, l, h : b = bodies[m] /\ l = lo[m] /\ h = hi[m]
      OBVIOUS
    <3>2. Slice("exc", s, l, h, b, pc[b], 0) /\ pc[b] \in Seq(Region) /\ i \in l + 1 .. h
      BY <1>3, <3>1
    <3>3. IsAsked(s[i], b)
      BY <3>2, PartHandler
    <3> QED BY <3>1, <3>3 DEF IsAsked
  <2> QED BY <1>2, <2>1 DEF HandlerAt
<1>5. \A i \in 1 .. Len(s) : \E m \in 1 .. Len(bodies) : i \in lo[m] + 1 .. hi[m]
  BY DEF Parted
<1>6. Range(s) = {HandlerAt(bodies, p) : p \in Places(bodies)}
  <2>1. ASSUME NEW h \in Range(s) PROVE h \in {HandlerAt(bodies, p) : p \in Places(bodies)}
    <3>1. PICK i \in 1 .. Len(s) : h = s[i]
      BY <1>1 DEF Range
    <3>2. PICK m \in 1 .. Len(bodies) : i \in lo[m] + 1 .. hi[m]
      BY <1>5
    <3> QED BY <1>4, <3>1, <3>2
  <2>2. ASSUME NEW p \in Places(bodies) PROVE HandlerAt(bodies, p) \in Range(s)
    <3>0. PICK m \in 1 .. Len(bodies) : \E k \in Asked(bodies[m]) : p = <<m, k>>
      BY <1>2
    <3>1. PICK k \in Asked(bodies[m]) : p = <<m, k>>
      BY <3>0
    <3>2. k \in Wanted("exc", pc[bodies[m]], 0)
      BY <1>3 DEF Wanted, Asks, Asked
    <3>3. PICK i \in lo[m] + 1 .. hi[m] : Len(s[i].path) = k
      BY <1>3, <3>2, SliceHas
    <3>4. s[i] = HandlerAt(bodies, p)
      BY <1>4, <3>1, <3>3
    <3>5. i \in 1 .. Len(s)
      BY <1>3
    <3> QED BY <1>1, <3>4, <3>5 DEF Range
  <2> QED BY <2>1, <2>2
<1>7. ASSUME NEW i \in 1 .. Len(s), NEW j \in 1 .. Len(s), i < j
      PROVE  \E p, q \in Places(bodies) :
               /\ s[i] = HandlerAt(bodies, p) /\ s[j] = HandlerAt(bodies, q)
               /\ p[1] < q[1] \/ (p[1] = q[1] /\ p[2] < q[2])
  <2>1. PICK m \in 1 .. Len(bodies) : i \in lo[m] + 1 .. hi[m]
    BY <1>5
  <2>2. PICK n \in 1 .. Len(bodies) : j \in lo[n] + 1 .. hi[n]
    BY <1>5
  <2>3. ~(n < m)
    <3> SUFFICES ASSUME n < m PROVE FALSE
      OBVIOUS
    <3>1. hi[n] <= lo[m]
      BY DEF Parted
    <3>2. lo[m] \in Nat /\ hi[n] \in Nat /\ lo[n] \in Nat /\ hi[m] \in Nat
      BY <1>3
    <3> QED BY <1>7, <2>1, <2>2, <3>1, <3>2
  <2>4. m < n \/ (m = n /\ Len(s[i].path) < Len(s[j].path))
    <3>1. CASE m = n
      <4>1. \A x, y \in lo[m] + 1 .. hi[m] : x < y => Len(s[x].path) < Len(s[y].path)
        BY <1>3 DEF Slice, Listed
      <4> QED BY <1>7, <2>1, <2>2, <3>1, <4>1
    <3> QED BY <2>3, <3>1
  <2> DEFINE p == <<m, Len(s[i].path)>>
             q == <<n, Len(s[j].path)>>
  <2>5. /\ p \in Places(bodies) /\ s[i] = HandlerAt(bodies, p)
        /\ q \in Places(bodies) /\ s[j] = HandlerAt(bodies, q)
    BY <1>4, <2>1, <2>2
  <2>6. p[1] = m /\ p[2] = Len(s[i].path) /\ q[1] = n /\ q[2] = Len(s[j].path)
    OBVIOUS
  <2> HIDE DEF p, q
  <2> QED BY <2>4, <2>5, <2>6
<1> QED BY <1>1, <1>6, <1>7 DEF Lists

(* The stack of a coroutine that waits.                                    *)
LEMMA AloneLists ==
  ASSUME Core, NEW c \in Coros, NEW s \in Seq(Fit), Owns("exc", s, 0, Len(s), c, Plain, pc)
  PROVE  Lists(s, <<c>>)
<1>1. c \in Bodies /\ pc[c] \in Seq(Region)
  BY Sorts DEF Core, Typed
<1>2. Slice("exc", s, 0, Len(s), c, pc[c], 0)
  BY <1>1, HandlerSlice
<1>3. s \in Seq(Handler) /\ <<c>> \in Seq(Bodies) /\ Len(<<c>>) = 1 /\ <<c>>[1] = c /\ Len(s) \in Nat
  BY <1>1 DEF Fit
<1>4. PICK l, h : l[1] = 0 /\ h[1] = Len(s)
  <2>1. <<0>>[1] = 0 /\ <<Len(s)>>[1] = Len(s)
    OBVIOUS
  <2> QED BY <2>1
<1>5. Parted(s, <<c>>, l, h)
  BY <1>1, <1>2, <1>3, <1>4 DEF Parted
<1> QED BY <1>3, <1>5, PartedLists

(* The stack whose top is the n-th of the chain.                           *)
LEMMA UnderLists ==
  ASSUME Core, Whole("exc", Plain), NEW n \in Nat, n > 1, n - 1 <= Len(chain), NEW s \in Seq(Fit),
         \A m \in 1 .. n - 1 : Over(chain, m, n) => Stands("exc", chain, Bases("exc"), Plain, pc, s, m, n)
  PROVE  Lists(s, Under(n))
<1> DEFINE B == Bases("exc")
           bodies == Under(n)
<1>1. /\ chain \in Seq(Bodies) /\ Len(chain) \in Nat /\ \A i \in 1 .. Len(chain) : chain[i] \in Bodies
      /\ chain[1] = Main
  BY ChainIs DEF Core
<1>2. B \in [Bodies -> Nat] /\ \A b \in Bodies \ Gens : B[b] = 0
  BY StackIs, KindTypes
<1>3. PICK f \in 1 .. n - 1 : f = Foot(chain, n)
  BY FootIs
<1>4. Over(chain, f, n) /\ (f = 1 \/ chain[f] \in Fibers)
  BY <1>3, FootIs
<1>5. bodies = SubSeq(chain, f, n - 1)
  BY <1>3 DEF Under, Foot
<1> HIDE DEF B, bodies
<1>6. PICK d \in Nat : d = n - f
  BY <1>3
<1>7. /\ bodies \in Seq(Bodies) /\ Len(bodies) = d
      /\ \A m \in 1 .. d : m + f - 1 \in 1 .. n - 1 /\ m + f - 1 \in 1 .. Len(chain)
                           /\ f <= m + f - 1 /\ bodies[m] = chain[m + f - 1]
  <2>1. f \in 1 .. Len(chain) + 1 /\ n - 1 \in f - 1 .. Len(chain)
    BY <1>1, <1>3
  <2>2. /\ SubSeq(chain, f, n - 1) \in Seq(Bodies)
        /\ Len(SubSeq(chain, f, n - 1)) = IF f <= n - 1 THEN (n - 1) - f + 1 ELSE 0
        /\ \A m \in 1 .. (n - 1) - f + 1 : SubSeq(chain, f, n - 1)[m] = chain[f + m - 1]
    BY <1>1, <2>1, SubSeqProperties
  <2>3. (n - 1) - f + 1 = d /\ f <= n - 1
    BY <1>3, <1>6
  <2>4. \A m \in 1 .. d : f + m - 1 = m + f - 1 /\ m + f - 1 \in 1 .. n - 1 /\ f <= m + f - 1
    BY <1>3, <1>6
  <2>5. \A m \in 1 .. n - 1 : m \in 1 .. Len(chain)
    BY <1>1
  <2> QED BY <1>5, <2>2, <2>3, <2>4, <2>5
<1>8. \A m \in 1 .. n - 1 : f <= m =>
        Over(chain, m, n) /\ Stands("exc", chain, B, Plain, pc, s, m, n)
  <2> TAKE m \in 1 .. n - 1
  <2> HAVE f <= m
  <2>1. Over(chain, m, n)
    BY <1>4, OverSome
  <2> QED BY <2>1 DEF B
<1> DEFINE low == [m \in 1 .. d |-> B[chain[m + f - 1]]]
           high == [m \in 1 .. d |-> Roof(chain, B, s, m + f - 1, n)]
<1>9. ASSUME NEW m \in 1 .. Len(bodies)
      PROVE  Slice("exc", s, low[m], high[m], bodies[m], pc[bodies[m]], 0) /\ pc[bodies[m]] \in Seq(Region)
  <2>1. PICK x \in 1 .. n - 1 : x = m + f - 1 /\ f <= x /\ x \in 1 .. Len(chain) /\ bodies[m] = chain[x]
    BY <1>7
  <2>2. low[m] = B[chain[x]] /\ high[m] = Roof(chain, B, s, x, n)
    BY <1>7, <2>1
  <2>3. Owns("exc", s, B[chain[x]], Roof(chain, B, s, x, n), chain[x], Plain, pc)
    BY <1>8, <2>1 DEF Stands
  <2>4. chain[x] \in Bodies /\ B[chain[x]] \in Nat
    BY <1>1, <1>2, <2>1
  <2>5. pc[chain[x]] \in Seq(Region)
    BY <2>4 DEF Core, Typed
  <2> QED BY <2>1, <2>2, <2>3, <2>4, <2>5, HandlerSlice
<1>10. ASSUME NEW i \in 1 .. Len(s) PROVE \E m \in 1 .. Len(bodies) : i \in low[m] + 1 .. high[m]
  <2>1. Len(s) \in Nat /\ \A m \in 1 .. n - 1 : B[chain[m]] \in Nat
    BY <1>1, <1>2
  <2>2. B[chain[Foot(chain, n)]] = 0
    <3>1. chain[f] \in Bodies /\ chain[f] \notin Gens
      BY <1>1, <1>3, <1>4, Sorts
    <3> QED BY <1>2, <1>3, <3>1
  <2>3. PICK x \in 1 .. n - 1 : Over(chain, x, n) /\ i \in B[chain[x]] + 1 .. Roof(chain, B, s, x, n)
    BY <2>1, <2>2, Tiles
  <2>4. f <= x
    BY <1>3, <2>3, FootIs
  <2>5. PICK m \in 1 .. d : x = m + f - 1
    <3>1. x - f + 1 \in 1 .. d /\ x = (x - f + 1) + f - 1
      BY <1>6, <2>4
    <3> QED BY <3>1
  <2>6. low[m] = B[chain[x]] /\ high[m] = Roof(chain, B, s, x, n)
    BY <2>5
  <2> QED BY <1>7, <2>3, <2>5, <2>6
<1>11. ASSUME NEW m \in 1 .. Len(bodies), NEW k \in 1 .. Len(bodies), m < k PROVE high[m] <= low[k]
  <2>1. PICK x \in 1 .. n - 1 : x = m + f - 1 /\ f <= x
    BY <1>7
  <2>2. PICK y \in 1 .. n - 1 : y = k + f - 1 /\ f <= y
    BY <1>7
  <2>3. x + 1 \in 1 .. n - 1 /\ f <= x + 1 /\ x + 1 # n /\ y \in x + 1 .. n - 1
    BY <1>11, <2>1, <2>2
  <2>4. high[m] = B[chain[x + 1]] /\ low[k] = B[chain[y]]
    <3>1. high[m] = Roof(chain, B, s, x, n) /\ low[k] = B[chain[y]]
      BY <1>7, <2>1, <2>2
    <3> QED BY <2>3, <3>1 DEF Roof
  <2>5. Rise(chain, B, s, x + 1, n)
    BY <1>8, <2>3 DEF Stands
  <2> QED BY <2>3, <2>4, <2>5 DEF Rise
<1>12. Parted(s, bodies, low, high)
  BY <1>9, <1>10, <1>11 DEF Parted
<1>13. s \in Seq(Handler)
  BY DEF Fit
<1> QED BY <1>7, <1>12, <1>13, PartedLists DEF bodies

LEMMA GenMatch == GenInv => HandlersMatch
<1> SUFFICES ASSUME GenInv, ~ended PROVE HandlersMatch
  BY DEF HandlersMatch
<1>1. Core /\ Whole("exc", Plain)
  BY DEF GenInv
<1>2. /\ Len(chain) \in Nat /\ Len(chain) >= 1 /\ DOMAIN chain = 1 .. Len(chain) /\ chain[1] = Main
      /\ exc \in Seq(Fit)
  BY <1>1, ChainIs DEF Core, Typed
<1>3. Forms(chain, Bases("exc"), Plain) /\ Live("exc", chain, Bases("exc"), Plain, pc, exc, Sides("exc"))
  BY <1>1, StackIs, WholeForms DEF Whole, Running
<1>4. /\ \A g \in Gens : park[g].exc \in Seq(Fit) /\ Put("exc", g) = park[g].exc
      /\ \A f \in Fibers : side[f].exc \in Seq(Fit) /\ Put("exc", f) = side[f].exc
                           /\ Sides("exc")[f] = side[f].exc
  <2>1. park \in [Gens -> FitStacks] /\ side \in [Fibers -> FitStacks]
    BY <1>1 DEF Core, Typed
  <2> QED BY <2>1, Sorts DEF FitStacks, Put, Of, Sides
<1>5. Lists(exc, Under(Len(chain) + 1))
  <2>1. PICK n \in Nat : n = Len(chain) + 1
    BY <1>2
  <2>2. n > 1 /\ n - 1 <= Len(chain) /\ \A m \in 1 .. n - 1 : m \in 1 .. Len(chain)
    BY <1>2, <2>1
  <2>3. \A m \in 1 .. n - 1 : Over(chain, m, n) => Stands("exc", chain, Bases("exc"), Plain, pc, exc, m, n)
    BY <1>3, <2>1, <2>2, LiveOnTop
  <2> QED BY <1>1, <1>2, <2>1, <2>2, <2>3, UnderLists
<1>6. ASSUME NEW c \in Coros, state[c] = "suspended"
      PROVE  Owns("exc", Put("exc", c), 0, Len(Put("exc", c)), c, Plain, pc)
  BY <1>1, <1>6 DEF Whole, Waiting, Idle
<1>7. \A g \in Gens : state[g] = "suspended" => Lists(park[g].exc, <<g>>)
  BY <1>1, <1>4, <1>6, AloneLists, Sorts
<1>8. \A f \in Fibers : state[f] = "suspended" => Lists(side[f].exc, <<f>>)
  BY <1>1, <1>4, <1>6, AloneLists, Sorts
<1>9. ASSUME NEW n \in DOMAIN chain, chain[n] \in Fibers PROVE Lists(side[chain[n]].exc, Under(n))
  <2>1. n # 1
    BY <1>2, <1>9, Sorts
  <2>2. n \in Nat /\ n > 1 /\ n - 1 <= Len(chain) /\ n \in 1 .. Len(chain)
    BY <1>2, <2>1
  <2>3. \A m \in 1 .. n - 1 : m \in 1 .. Len(chain) /\ m < n
    BY <2>2
  <2>4. \A m \in 1 .. n - 1 : Over(chain, m, n) =>
          Stands("exc", chain, Bases("exc"), Plain, pc, Sides("exc")[chain[n]], m, n)
    BY <1>3, <1>9, <2>2, <2>3, LiveAside
  <2>5. Sides("exc")[chain[n]] = side[chain[n]].exc /\ side[chain[n]].exc \in Seq(Fit)
    BY <1>4, <1>9
  <2>6. \A m \in 1 .. n - 1 : Over(chain, m, n) =>
          Stands("exc", chain, Bases("exc"), Plain, pc, side[chain[n]].exc, m, n)
    BY <2>4, <2>5
  <2> QED BY <1>1, <2>2, <2>5, <2>6, UnderLists
<1> QED BY <1>5, <1>7, <1>8, <1>9 DEF HandlersMatch

(* The action on top when a finally ends.                                  *)
LEMMA GenPending == GenInv => PendingIsOwnUntilLost
<1> SUFFICES ASSUME GenInv, ~lost, Going, pc[Me] # << >>, Last(pc[Me]).at = "finally"
             PROVE  fin # << >> /\ Last(fin).owner = Me /\ Last(fin).path = pc[Me]
  BY DEF PendingIsOwnUntilLost, PendingIsOwn
<1>1. ~ended /\ next = "run"
  BY DEF Going
<1>2. /\ pc[Me] \in Seq(Region) /\ fin \in Seq(Action) /\ base[Me].fin \in Nat
      /\ Pending(fin, base[Me].fin, Me, pc[Me], next)
  BY <1>1, MyParts
<1>3. PICK p \in Seq(Region) : p = pc[Me]
  BY <1>2
<1>4. PICK j \in Nat, f \in Nat :
        /\ Slice("fin", fin, base[Me].fin + j, Len(fin), Me, p, f)
        /\ f = 0 \/ f \in Waits(p)
  BY <1>1, <1>2, <1>3 DEF Pending
<1>5. PICK lo \in Nat : lo = base[Me].fin + j
  BY <1>2
<1>6. PICK hi \in Nat : hi = Len(fin)
  BY <1>2
<1>7. Slice("fin", fin, lo, hi, Me, p, f)
  BY <1>4, <1>5, <1>6
<1>8. Len(p) \in Nat /\ Len(p) \in Wanted("fin", p, f)
  <2>1. Len(p) \in 1 .. Len(p) /\ p[Len(p)].at = "finally"
    BY <1>3 DEF Last
  <2>2. f <= Len(p)
    BY <1>4, <2>1 DEF Waits
  <2> QED BY <2>1, <2>2 DEF Wanted, Waits
<1>9. hi \in lo + 1 .. hi /\ Len(fin[hi].path) = Len(p)
  BY <1>7, <1>8, SliceTop
<1>10. fin[hi].owner = Me /\ Right("fin", fin[hi], p, f)
  BY <1>7, <1>9, SliceEntry
<1>11. fin[hi].path = SubSeq(p, 1, Len(p))
  BY <1>9, <1>10 DEF Right
<1>12. SubSeq(p, 1, Len(p)) = p
  BY WholePrefix
<1>13. fin # << >> /\ Last(fin) = fin[hi]
  <2>1. hi # 0
    BY <1>9
  <2> QED BY <1>2, <1>6, <2>1 DEF Last
<1> QED BY <1>3, <1>10, <1>11, <1>12, <1>13

---------------------------------------------------------------------------
(* Where a throw stops                                                     *)

(* A handler takes a throw if the position of its body has it stop there.  *)
LEMMA StopsThere ==
  ASSUME Core, NEW b \in Bodies, NEW i \in 1 .. Len(exc), Right("exc", exc[i], pc[b], 0),
         NEW k, k = Len(exc[i].path), k \in Asks(pc[b])
  PROVE  i \in Takers <=> k \in Stopping(b)
<1>1. /\ pc[b] \in Path(b) /\ pc[b] \in Seq(Region) /\ exc \in Seq(Fit)
      /\ DOMAIN exc = 1 .. Len(exc)
  BY DEF Core, Typed
<1>2. PICK p \in Seq(Region) : p = pc[b]
  BY <1>1
<1>3. k \in 1 .. Len(p) /\ p[k].at # "finally" /\ p[k] \in Region /\ DOMAIN p = 1 .. Len(p)
  BY <1>2 DEF Asks
<1>4. PICK s : s = SubSeq(p, 1, k)
  OBVIOUS
<1>5. s \in Seq(Region) /\ Len(s) = k /\ s # << >> /\ s[k] = p[k]
  <2>1. k \in 0 .. Len(p) /\ k \in 1 .. k
    BY <1>3
  <2>2. s \in Seq(Region) /\ Len(s) = k /\ \A j \in 1 .. k : s[j] = p[j]
    BY <1>4, <2>1, PrefixIs
  <2>3. s[k] = p[k]
    BY <2>1, <2>2
  <2>4. s # << >>
    BY <2>1, <2>2
  <2> QED BY <2>2, <2>3, <2>4
<1>6. exc[i].path = At(s, "try") /\ exc[i].inCatch = (p[k].at = "catch")
  BY <1>2, <1>4 DEF Right
<1>7. Len(At(s, "try")) = k /\ At(s, "try")[k].kind = p[k].kind
  <2>1. Len(At(s, "try")) = Len(s) /\ At(s, "try")[Len(s)].kind = s[Len(s)].kind
    BY <1>5, AtIs
  <2> QED BY <1>5, <2>1
<1>8. Last(exc[i].path).kind = p[k].kind
  BY <1>6, <1>7 DEF Last
<1>9. p[k].at \in {"try", "catch"} /\ p[k].kind \in {"catch", "finally", "both"}
  BY <1>3 DEF Region, TryKinds
<1>10. p[k].at = "catch" => p[k].kind # "finally"
  <2>1. p[k] \in Regions(b)
    BY <1>1, <1>2, <1>3, PathIs
  <2> QED BY <2>1 DEF Regions
<1>11. HasCatch(exc[i]) \/ HasFinally(exc[i]) <=>
         p[k].at = "try" \/ (p[k].at = "catch" /\ p[k].kind = "both")
  BY <1>6, <1>8, <1>9, <1>10 DEF HasCatch, HasFinally
<1>12. i \in Takers <=> HasCatch(exc[i]) \/ HasFinally(exc[i])
  BY <1>1 DEF Takers
<1>13. k \in Stopping(b) <=> p[k].at = "try" \/ (p[k].at = "catch" /\ p[k].kind = "both")
  BY <1>2, <1>3 DEF Stopping
<1> QED BY <1>11, <1>12, <1>13

(* Where a throw could stop in a body of the live stack there is a handler *)
(* that takes it.                                                          *)
LEMMA StopHandler ==
  ASSUME Core, Whole("exc", Plain), NEW m \in 1 .. Len(chain), Over(chain, m, Len(chain) + 1),
         NEW k \in Stopping(chain[m])
  PROVE  \E i \in Takers : Level(i, m) /\ Len(exc[i].path) = k
<1> DEFINE B == Bases("exc")
           R == Roof(chain, B, exc, m, Len(chain) + 1)
<1>1. chain[m] \in Bodies /\ pc[chain[m]] \in Seq(Region) /\ exc \in Seq(Fit)
  BY ChainIs DEF Core, Typed
<1>2. PICK b \in Bodies : b = chain[m]
  BY <1>1
<1>3. PICK lo \in Nat : lo = B[b]
  BY <1>2, LevelPart
<1>4. PICK hi : hi = R
  OBVIOUS
<1>5. Slice("exc", exc, lo, hi, b, pc[b], 0)
  BY <1>2, <1>3, <1>4, LevelPart
<1>6. k \in Asks(pc[b]) /\ k \in Wanted("exc", pc[b], 0)
  BY <1>1, <1>2 DEF Stopping, Asks, Wanted
<1>7. PICK i \in lo + 1 .. hi : Len(exc[i].path) = k
  BY <1>5, <1>6, SliceHas
<1>8. exc[i].owner = b /\ Right("exc", exc[i], pc[b], 0)
  BY <1>1, <1>2, <1>5, SliceEntry
<1>9. i \in 1 .. Len(exc)
  <2>1. hi \in Nat /\ hi <= Len(exc)
    BY <1>5, SliceBounds
  <2> QED BY <1>1, <2>1
<1>10. i \in Takers
  BY <1>2, <1>6, <1>7, <1>8, <1>9, StopsThere
<1>11. Level(i, m)
  BY <1>2, <1>3, <1>4, <1>7, <1>8 DEF Level
<1> QED BY <1>7, <1>10, <1>11

(* Only these follow a throw.                                              *)
LEMMA ThrowSteps ==
  ASSUME next = "throw", Next
  PROVE  Land \/ Escape \/ Uncaught
BY DEF Next, EnterTry, LeaveTry, EndFinally, Start, Resume, ThrowInto, Yield, FiberSuspend,
       Return, ReturnThroughFinally, Complete, Raise, Drop, Close, RefuseYield, RefuseYieldInTry, Going

(* The body that takes it: what is over it would not have, and its try is  *)
(* the innermost that does.                                                *)
LEMMA TakerInnermost ==
  ASSUME GenInv, ~ended, Takers # {}, NEW n \in 1 .. Len(chain), chain[n] = Taker.owner
  PROVE  /\ \A i \in n + 1 .. Len(chain) : Stopping(chain[i]) = {}
         /\ Stopping(chain[n]) # {} /\ Max(Stopping(chain[n])) = Len(Taker.path)
<1> DEFINE B == Bases("exc")
           N == Len(chain) + 1
<1>1. Core /\ Whole("exc", Plain)
  BY DEF GenInv
<1>2. /\ Max(Takers) \in 1 .. Len(exc) /\ Taker = exc[Max(Takers)]
      /\ \A i \in 1 .. Len(exc) : HasCatch(exc[i]) \/ HasFinally(exc[i]) => i <= Max(Takers)
      /\ HasCatch(Taker) \/ HasFinally(Taker)
  BY <1>1, TakerIs
<1>3. PICK t \in 1 .. Len(exc) : t = Max(Takers)
  BY <1>2
<1>4. /\ exc \in Seq(Fit) /\ DOMAIN exc = 1 .. Len(exc) /\ Len(exc) \in Nat
      /\ Len(chain) \in Nat /\ \A i \in 1 .. Len(chain) : chain[i] \in Bodies
      /\ pc[chain[n]] \in Seq(Region)
  <2>1. exc \in Seq(Fit) /\ pc \in [Bodies -> Seq(Region)]
    BY <1>1 DEF Core, Typed
  <2>2. Len(chain) \in Nat /\ \A i \in 1 .. Len(chain) : chain[i] \in Bodies
    BY <1>1, ChainIs DEF Core
  <2> QED BY <2>1, <2>2
<1>5. t \in Takers /\ exc[t] = Taker /\ \A i \in Takers : i <= t
  BY <1>2, <1>3, <1>4 DEF Takers
<1>6. Level(t, n) /\ Over(chain, n, N)
  BY <1>3, TakerLevel
<1>7. B \in [Bodies -> Nat]
  BY <1>1, StackIs, KindTypes
<1>8. /\ t \in B[chain[n]] + 1 .. Roof(chain, B, exc, n, N)
      /\ Len(Taker.path) \in Asks(pc[chain[n]]) /\ Right("exc", Taker, pc[chain[n]], 0)
      /\ \A j \in B[chain[n]] + 1 .. t - 1 : Len(exc[j].path) <= Len(Taker.path) - 1
      /\ Len(Taker.path) \in 1 .. Len(pc[chain[n]])
  BY <1>1, <1>5, <1>6, LevelEntry DEF Level
<1>9. ASSUME NEW i \in n + 1 .. Len(chain) PROVE Stopping(chain[i]) = {}
  <2> SUFFICES ASSUME NEW k \in Stopping(chain[i]) PROVE FALSE
    OBVIOUS
  <2>1. i \in 1 .. Len(chain) /\ n \in Nat /\ n <= i /\ n + 1 # N
    BY <1>4
  <2>2. Over(chain, i, N)
    BY <1>6, <2>1, OverSome
  <2>3. PICK j \in Takers : Level(j, i)
    BY <1>1, <2>1, <2>2, StopHandler
  <2>4. n + 1 \in 1 .. Len(chain) /\ i \in n + 1 .. N - 1
    BY <1>4, <2>1
  <2>5. Over(chain, n + 1, N)
    BY <1>6, <2>1, OverSome
  <2>6. Rise(chain, B, exc, n + 1, N)
    BY <1>1, <2>4, <2>5, LevelPart
  <2>7. B[chain[n + 1]] <= B[chain[i]]
    BY <2>4, <2>6 DEF Rise
  <2>8. Roof(chain, B, exc, n, N) = B[chain[n + 1]]
    BY <2>1 DEF Roof
  <2>9. j \in B[chain[i]] + 1 .. Roof(chain, B, exc, i, N) /\ j <= t /\ j \in Int
    BY <1>5, <2>3 DEF Level
  <2>10. B[chain[i]] \in Nat /\ B[chain[n + 1]] \in Nat /\ B[chain[n]] \in Nat
    BY <1>4, <1>7, <2>1, <2>4
  <2> QED BY <1>8, <2>7, <2>8, <2>9, <2>10
<1>10. Len(Taker.path) \in Stopping(chain[n])
  BY <1>1, <1>4, <1>5, <1>8, StopsThere
<1>11. ASSUME NEW k \in Stopping(chain[n]) PROVE k <= Len(Taker.path)
  <2>1. PICK j \in Takers : Level(j, n) /\ Len(exc[j].path) = k
    BY <1>1, <1>6, StopHandler
  <2>2. j \in B[chain[n]] + 1 .. Roof(chain, B, exc, n, N) /\ j <= t
    BY <1>5, <2>1 DEF Level
  <2>3. CASE j = t
    <3>1. k = Len(Taker.path) /\ Len(Taker.path) \in Nat
      BY <1>5, <1>8, <2>1, <2>3
    <3> QED BY <3>1
  <2>4. CASE j # t
    <3>1. B[chain[n]] \in Nat
      BY <1>4, <1>7
    <3>2. j \in B[chain[n]] + 1 .. t - 1
      BY <2>2, <2>4, <3>1
    <3>3. Len(exc[j].path) <= Len(Taker.path) - 1
      BY <1>8, <3>2
    <3>4. Len(Taker.path) \in Nat
      BY <1>4, <1>8
    <3>5. k \in Int
      BY <1>4 DEF Stopping
    <3> QED BY <2>1, <3>3, <3>4, <3>5
  <2> QED BY <2>3, <2>4
<1>12. Stopping(chain[n]) \in SUBSET Int
  BY <1>4 DEF Stopping
<1>13. Max(Stopping(chain[n])) = Len(Taker.path)
  BY <1>10, <1>11, <1>12, MaxOf
<1> QED BY <1>9, <1>10, <1>13

(* Where it goes on is where the position says.                            *)
LEMMA LandsThere ==
  ASSUME GenInv, ~ended, Takers # {}, NEW n \in 1 .. Len(chain), chain[n] = Taker.owner
  PROVE  Landing = StopsAt(chain[n])
<1>1. PICK o \in Bodies : o = Taker.owner /\ o = chain[n]
  BY ChainIs DEF GenInv, Core
<1>2. PICK k : k = Len(Taker.path)
  OBVIOUS
<1>3. PICK p : p = pc[o]
  OBVIOUS
<1>4. /\ p \in Seq(Region) /\ k \in 1 .. Len(p) /\ k \in Asks(p) /\ p \in Path(o)
      /\ Taker.path = At(SubSeq(p, 1, k), "try") /\ Taker.inCatch = (p[k].at = "catch")
      /\ Taker.path[k].kind = p[k].kind
  <2>1. /\ p \in Seq(Region) /\ k \in 1 .. Len(p) /\ k \in Asks(p)
        /\ Taker.path = At(SubSeq(p, 1, k), "try") /\ Taker.inCatch = (p[k].at = "catch")
        /\ Taker.path[k].kind = p[k].kind
    BY <1>1, <1>2, <1>3, TakerPlace
  <2>2. p \in Path(o)
    BY <1>1, <1>3 DEF GenInv, Core, Typed
  <2> QED BY <2>1, <2>2
<1>5. PICK s : s = SubSeq(p, 1, k)
  OBVIOUS
<1>6. s \in Seq(Region) /\ Len(s) = k /\ s # << >> /\ s[k] = p[k] /\ Last(s) = p[k]
  <2>1. k \in 0 .. Len(p) /\ k \in 1 .. k
    BY <1>4
  <2>2. s \in Seq(Region) /\ Len(s) = k /\ \A j \in 1 .. k : s[j] = p[j]
    BY <1>4, <1>5, <2>1, PrefixIs
  <2>3. s[k] = p[k]
    BY <2>1, <2>2
  <2>4. s # << >>
    BY <2>1, <2>2
  <2> QED BY <2>2, <2>3, <2>4 DEF Last
<1>7. Max(Stopping(o)) = k
  BY <1>1, <1>2, TakerInnermost
<1>8. StopsAt(o) = IF o \notin Gens THEN Front(s)
                   ELSE IF Last(s).at = "try" /\ Last(s).kind # "finally"
                   THEN At(s, "catch") ELSE At(s, "finally")
  BY <1>3, <1>5, <1>7 DEF StopsAt
<1>9. p[k].at \in {"try", "catch"}
  <2>1. p[k] \in Region /\ p[k].at # "finally"
    BY <1>4 DEF Asks
  <2> QED BY <2>1 DEF Region
<1>10. CASE o \notin Gens
  <2>1. s[k].at = "try"
    BY <1>4, <1>6, <1>10, PlainPath
  <2>2. At(s, "try") = s
    BY <1>6, <2>1, AtSame
  <2> QED BY <1>1, <1>4, <1>5, <1>8, <1>10, <2>2 DEF Landing
<1>11. CASE o \in Gens
  <2>1. At(Taker.path, "catch") = At(s, "catch") /\ At(Taker.path, "finally") = At(s, "finally")
    BY <1>4, <1>5, <1>6, AtAt
  <2>2. Last(Taker.path).kind = p[k].kind
    BY <1>2, <1>4 DEF Last
  <2>3. HasCatch(Taker) <=> Last(s).at = "try" /\ Last(s).kind # "finally"
    BY <1>4, <1>6, <1>9, <2>2 DEF HasCatch
  <2> QED BY <1>1, <1>8, <1>11, <2>1, <2>3 DEF Landing
<1> QED BY <1>1, <1>10, <1>11

(* A step after a throw.                                                   *)
Innermost ==
  next = "throw" =>
    /\ \A i \in Len(chain') + 1 .. Len(chain) : Stopping(chain[i]) = {}
    /\ next' = "run" /\ ~ended' =>
         /\ Stopping(Last(chain')) # {}
         /\ pc'[Last(chain')] = StopsAt(Last(chain'))

LEMMA GenInnermost == GenInv /\ [Next]_vars => [Innermost]_vars
<1> SUFFICES ASSUME GenInv, Next, next = "throw" PROVE Innermost
  BY DEF Innermost
<1>1. Core /\ ~ended /\ Whole("exc", Plain)
  BY DEF GenInv, Core, Control
<1>2. /\ Len(chain) \in Nat /\ Len(chain) >= 1 /\ \A i \in 1 .. Len(chain) : chain[i] \in Bodies
      /\ pc \in [Bodies -> Seq(Region)]
  BY <1>1, ChainIs DEF Core, Typed
<1>3. Land \/ Escape \/ Uncaught
  BY ThrowSteps
<1>4. ASSUME Takers = {}, NEW i \in Bottom .. Len(chain) PROVE Stopping(chain[i]) = {}
  <2>1. Bottom \in 1 .. Len(chain) /\ Over(chain, Bottom, Len(chain) + 1)
    BY <1>1, BottomIs
  <2>2. i \in 1 .. Len(chain) /\ Over(chain, i, Len(chain) + 1)
    <3>1. Bottom \in Nat /\ i \in Nat /\ Bottom <= i /\ Len(chain) + 1 \in Nat /\ i \in 1 .. Len(chain)
      BY <1>2, <2>1
    <3> QED BY <2>1, <3>1, OverSome
  <2> QED BY <1>1, <1>4, <2>2, StopHandler
<1>5. CASE Land
  <2>1. Takers # {}
    BY <1>5 DEF Land
  <2>2. Bottom \in 1 .. Len(chain)
    BY <1>1, BottomIs
  <2>3. PICK n \in 1 .. Len(chain) :
          /\ chain[n] = Taker.owner /\ Ended(n, "closed")
          /\ pc' = [Positions(n) EXCEPT ![Taker.owner] = Landing]
    <3>1. \A j \in Bottom .. Len(chain) : j \in 1 .. Len(chain)
      BY <1>2, <2>2
    <3> QED BY <1>5, <3>1 DEF Land
  <2>4. /\ \A i \in n + 1 .. Len(chain) : Stopping(chain[i]) = {}
        /\ Stopping(chain[n]) # {}
    BY <1>1, <2>1, <2>3, TakerInnermost
  <2>5. Len(chain') = n /\ Last(chain') = chain[n]
    <3>1. Len(chain') = n /\ \A i \in 1 .. n : chain'[i] = chain[i]
      BY <1>1, <2>3, EndedCore
    <3>2. n \in 1 .. n
      BY <1>2
    <3> QED BY <3>1, <3>2 DEF Last
  <2>6. pc'[chain[n]] = Landing
    <3>1. Positions(n) \in [Bodies -> Seq(Region)]
      BY <1>1, <2>3, EndedCore
    <3>2. DOMAIN Positions(n) = Bodies
      BY <3>1
    <3> QED BY <1>2, <2>3, <3>2
  <2>7. Landing = StopsAt(chain[n])
    BY <1>1, <2>1, <2>3, LandsThere
  <2> QED BY <2>4, <2>5, <2>6, <2>7 DEF Innermost
<1>6. CASE Escape
  <2>1. Takers = {} /\ Side > 0 /\ next' = "throw" /\ Ended(Side - 1, "closed")
    BY <1>6 DEF Escape
  <2>2. Side = Bottom /\ Side > 1 /\ Side \in 0 .. Len(chain)
    BY <1>1, <2>1, BottomIs
  <2>3. Len(chain') = Side - 1
    <3>1. Side - 1 \in 1 .. Len(chain)
      BY <1>2, <2>2
    <3> QED BY <1>1, <2>1, <3>1, EndedCore
  <2>4. Len(chain') + 1 = Bottom
    BY <2>2, <2>3
  <2> QED BY <1>4, <2>1, <2>4 DEF Innermost
<1>7. CASE Uncaught
  <2>1. Takers = {} /\ Side = 0 /\ ended' = TRUE /\ Ended(1, "closed")
    BY <1>7 DEF Uncaught
  <2>2. Bottom = 1
    BY <1>1, <2>1, BottomIs
  <2>3. Len(chain') = 1
    <3>1. 1 \in 1 .. Len(chain)
      BY <1>2
    <3> QED BY <1>1, <2>1, <3>1, EndedCore
  <2>4. \A i \in Len(chain') + 1 .. Len(chain) : i \in Bottom .. Len(chain)
    BY <1>2, <2>2, <2>3
  <2> QED BY <1>4, <2>1, <2>4 DEF Innermost
<1> QED BY <1>3, <1>5, <1>6, <1>7

---------------------------------------------------------------------------
(* The theorems                                                            *)

(* Whatever the bodies do, the handlers that are open are those of the     *)
(* tries they stand in, kept in their order on the stack the bodies are    *)
(* kept for: the parks and restores of VmParkCtxState and VmResumeCtx, the *)
(* swaps of VmCoroStateSwap and every way a body is left lose none, leave  *)
(* none and mix none.  The function of a generator must be its own.        *)
THEOREM HandlersKept ==
  ASSUME OwnFunctions
  PROVE  Spec => []HandlersMatch
<1>1. Spec => []GenInv
  BY GenAlways
<1> QED BY <1>1, GenMatch, PTL

(* OP_END_FINALLY takes the action that was queued for that finally, until *)
(* a throw has dropped a rethrow with the body over it or has left a       *)
(* finally for good.                                                       *)
THEOREM PendingKept ==
  ASSUME OwnFunctions
  PROVE  Spec => []PendingIsOwnUntilLost
<1>1. Spec => []GenInv
  BY GenAlways
<1> QED BY <1>1, GenPending, PTL

(* VmThrowException finds the innermost try of the innermost body that has *)
(* one open, ends the bodies over that one and no other, and goes on where *)
(* that body's position says.                                              *)
THEOREM ThrowFindsInnermost ==
  ASSUME OwnFunctions
  PROVE  Spec => CaughtByInnermost
<1>1. Spec => []GenInv
  BY GenAlways
<1>2. CaughtByInnermost <=> [][Innermost]_vars
  BY DEF CaughtByInnermost, Innermost
<1> QED BY <1>1, <1>2, GenInnermost, PTL DEF Spec
============================================================================
