---------------------------- MODULE SequenceFacts ----------------------------
(***************************************************************************)
(* What the proofs need to know of the sequence operators of the community *)
(* modules: the elements of a sequence as a set (ToSet), sequences without *)
(* repetition (IsInjective), a set put in some order (SetToSeq).           *)
(***************************************************************************)
EXTENDS SequencesExt, SequenceTheorems, FiniteSetTheorems,
        FunctionTheorems, TLAPS

(* The elements of a sequence over S are members of S.                     *)
LEMMA ToSetType ==
  ASSUME NEW S, NEW s \in Seq(S)
  PROVE  ToSet(s) \subseteq S /\ ToSet(s) = {s[i] : i \in 1..Len(s)}
  BY DEF ToSet

(* The empty sequence has no element and repeats none.                     *)
LEMMA ToSetEmpty ==
  /\ ToSet(<< >>) = {} /\ IsInjective(<< >>)
  /\ \A S : << >> \in Seq(S)
  BY DEF ToSet, IsInjective

(* Concatenation unites the sets of elements.                              *)
LEMMA ToSetConcat ==
  ASSUME NEW S, NEW s \in Seq(S), NEW t \in Seq(S)
  PROVE  ToSet(s \o t) = ToSet(s) \union ToSet(t)
<1>1. ToSet(s \o t) \subseteq ToSet(s) \union ToSet(t)
  BY ConcatProperties DEF ToSet
<1>2. ASSUME NEW i \in 1..Len(s) PROVE s[i] \in ToSet(s \o t)
  <2>1. i \in 1..Len(s \o t) /\ (s \o t)[i] = s[i]  BY ConcatProperties
  <2> QED BY <2>1, ConcatProperties DEF ToSet
<1>3. ASSUME NEW i \in 1..Len(t) PROVE t[i] \in ToSet(s \o t)
  <2>1. /\ Len(s) + i \in 1..Len(s \o t)
        /\ (s \o t)[Len(s) + i] = t[i]  BY ConcatProperties
  <2> QED BY <2>1, ConcatProperties DEF ToSet
<1>4. ToSet(s) = {s[i] : i \in 1..Len(s)} /\ ToSet(t) = {t[i] : i \in 1..Len(t)}
  BY DEF ToSet
<1> QED BY <1>1, <1>2, <1>3, <1>4

(* A finite set, put in some order, is a sequence of its elements, each    *)
(* once.                                                                   *)
LEMMA SetToSeqProperties ==
  ASSUME NEW S, IsFiniteSet(S)
  PROVE  /\ SetToSeq(S) \in Seq(S) /\ IsInjective(SetToSeq(S))
         /\ ToSet(SetToSeq(S)) = S
<1> DEFINE n == Cardinality(S)
           f == SetToSeq(S)
<1>1. n \in Nat /\ ExistsBijection(1..n, S)  BY FS_CardinalityType
<1>2. PICK g : g \in Bijection(1..n, S)  BY <1>1 DEF ExistsBijection
<1>3. g \in [1..n -> S] /\ \A i, j \in 1..n : g[i] = g[j] => i = j
  BY <1>2, Fun_BijectionProperties
<1>4. g \in [1..n -> S] /\ IsInjective(g)
  BY <1>3 DEF IsInjective
<1>5. f \in [1..n -> S] /\ IsInjective(f)
  BY <1>4 DEF SetToSeq
<1>6. f \in Injection(1..n, S)
  BY <1>5, Fun_IsInj DEF IsInjective
<1>7. f \in Surjection(1..n, S)
  BY <1>1, <1>6, FS_Injection, FS_Interval
<1>8. ToSet(f) = S
  <2> HIDE DEF n, f
  <2>1. \A x \in S : \E i \in 1..n : f[i] = x
    BY <1>7 DEF Surjection
  <2>2. DOMAIN f = 1..n /\ \A i \in 1..n : f[i] \in S  BY <1>5
  <2> QED BY <2>1, <2>2 DEF ToSet
<1>9. f \in Seq(S)
  BY <1>1, <1>5
<1> QED BY <1>5, <1>8, <1>9

(* Append adds one element; a new one repeats none.                        *)
LEMMA ToSetAppend ==
  ASSUME NEW S, NEW s \in Seq(S), NEW e \in S
  PROVE  Append(s, e) \in Seq(S) /\ ToSet(Append(s, e)) = ToSet(s) \union {e}
<1>1. /\ Append(s, e) \in Seq(S) /\ Len(Append(s, e)) = Len(s) + 1
      /\ \A i \in 1..Len(s) : Append(s, e)[i] = s[i]
      /\ Append(s, e)[Len(s) + 1] = e
  BY AppendProperties
<1>2. /\ ToSet(s) = {s[i] : i \in 1..Len(s)}
      /\ ToSet(Append(s, e)) = {Append(s, e)[i] : i \in 1..Len(s) + 1}
  BY <1>1, ToSetType
<1>3. \A i \in 1..Len(s) + 1 : i \in 1..Len(s) \/ i = Len(s) + 1
  BY <1>1, LenProperties
<1>4. \A i \in 1..Len(s) : i \in 1..Len(s) + 1  BY LenProperties
<1>5. Len(s) + 1 \in 1..Len(s) + 1  BY LenProperties
<1> QED BY <1>1, <1>2, <1>3, <1>4, <1>5

(* A new element keeps a sequence without repetitions so.                  *)
LEMMA InjectiveAppend ==
  ASSUME NEW S, NEW s \in Seq(S), NEW e \in S, IsInjective(s), e \notin ToSet(s)
  PROVE  IsInjective(Append(s, e))
<1>1. \A i \in 1..Len(s) : s[i] # e  BY DEF ToSet
<1>2. \A i, j \in 1..Len(s) : s[i] = s[j] => i = j  BY DEF IsInjective
<1> QED BY <1>1, <1>2, AppendProperties DEF IsInjective

(* Of a sequence without repetition, the tail has all but the head.        *)
LEMMA HeadTailOfInjective ==
  ASSUME NEW S, NEW s \in Seq(S), s # << >>, IsInjective(s)
  PROVE  /\ Head(s) \in S /\ Head(s) \in ToSet(s)
         /\ Tail(s) \in Seq(S) /\ IsInjective(Tail(s))
         /\ ToSet(Tail(s)) = ToSet(s) \ {Head(s)}
<1>1. /\ Head(s) \in S /\ Tail(s) \in Seq(S) /\ Len(Tail(s)) = Len(s) - 1
      /\ \A i \in 1..Len(Tail(s)) : Tail(s)[i] = s[i + 1]
  BY HeadTailProperties
<1>2. Len(s) \in Nat \ {0} /\ Head(s) = s[1]  BY EmptySeq
<1>3. \A i, j \in 1..Len(s) : s[i] = s[j] => i = j  BY DEF IsInjective
<1>4. /\ ToSet(s) = {s[i] : i \in 1..Len(s)}
      /\ ToSet(Tail(s)) = {Tail(s)[i] : i \in 1..Len(Tail(s))}
  BY <1>1, ToSetType
<1>5. IsInjective(Tail(s))
  BY <1>1, <1>2, <1>3, LenProperties DEF IsInjective
<1>6. ToSet(Tail(s)) \subseteq ToSet(s) \ {Head(s)}
  <2> SUFFICES ASSUME NEW i \in 1..Len(Tail(s)) PROVE Tail(s)[i] \in ToSet(s) \ {Head(s)}
    BY <1>4
  <2>1. i + 1 \in 1..Len(s) /\ i + 1 # 1  BY <1>1, <1>2
  <2> QED BY <1>1, <1>2, <1>3, <1>4, <2>1
<1>7. ToSet(s) \ {Head(s)} \subseteq ToSet(Tail(s))
  <2> SUFFICES ASSUME NEW i \in 1..Len(s), i # 1 PROVE s[i] \in ToSet(Tail(s))
    BY <1>2, <1>4
  <2>1. i - 1 \in 1..Len(Tail(s)) /\ Tail(s)[i - 1] = s[i]  BY <1>1, <1>2
  <2> QED BY <1>4, <2>1
<1>8. Head(s) \in ToSet(s)  BY <1>2, <1>4
<1> QED BY <1>1, <1>5, <1>6, <1>7, <1>8

(* A sequence, of whatever its elements are, with one more or one less.    *)
LEMMA ToSetOfAppended ==
  ASSUME NEW s, s \in Seq(ToSet(s)), NEW e
  PROVE  /\ ToSet(Append(s, e)) = ToSet(s) \union {e}
         /\ Append(s, e) \in Seq(ToSet(Append(s, e)))
<1>1. s \in Seq(ToSet(s) \union {e})
  OBVIOUS
<1> QED BY <1>1, ToSetAppend

(* What is left after an element is removed was there before.              *)
LEMMA ToSetOfRemoved ==
  ASSUME NEW s, s \in Seq(ToSet(s)), NEW i \in 1..Len(s)
  PROVE  /\ ToSet(RemoveAt(s, i)) \subseteq ToSet(s)
         /\ RemoveAt(s, i) \in Seq(ToSet(RemoveAt(s, i)))
<1> DEFINE S == ToSet(s)
           t == RemoveAt(s, i)
<1>1. SubSeq(s, 1, i - 1) \in Seq(S) /\ SubSeq(s, i + 1, Len(s)) \in Seq(S)
  BY SubSeqProperties
<1>2. t \in Seq(S)
  BY <1>1, ConcatProperties DEF RemoveAt
<1>3. ToSet(t) \subseteq S /\ ToSet(t) = {t[j] : j \in 1..Len(t)}
  BY <1>2, ToSetType
<1>4. t \in Seq(ToSet(t))
  BY <1>2, <1>3
<1> QED BY <1>3, <1>4
=============================================================================
