---------------------------- MODULE NamingProofs ----------------------------
(* Theorems about Naming, for every text of the configuration: what Load    *)
(* and the topics make of it.                                               *)
EXTENDS Naming, FiniteSetTheorems, SequenceTheorems, WellFoundedInduction, TLAPS

-----------------------------------------------------------------------------
(* Least and greatest indices.                                              *)

(* Some element of a set of naturals is below every other.                  *)
LEMMA Least ==
    ASSUME NEW S \in SUBSET Nat, S # {}
    PROVE  \E m \in S : \A k \in S : m <= k
<1>1. PICK n \in S : TRUE
  OBVIOUS
<1> DEFINE T == {X \in SUBSET (0 .. n) : \E k \in S : X = 0 .. k}
           R == StrictSubsetOrdering(0 .. n)
<1>2. T \subseteq FiniteSubsetsOf(0 .. n) /\ T # {}
  <2>1. IsFiniteSet(0 .. n) /\ 0 .. n \in T
    BY <1>1, FS_Interval
  <2> QED
    BY <2>1, FS_Subset DEF FiniteSubsetsOf
<1>3. IsWellFoundedOn(R, FiniteSubsetsOf(0 .. n))
  BY FS_Interval, FS_StrictSubsetOrderingWellFounded
<1>4. PICK X \in T : \A Y \in T : <<Y, X>> \notin R
  <2> HIDE DEF R, T
  <2> QED
    BY <1>2, <1>3, WFMin
<1>5. PICK m \in S : X = 0 .. m /\ m <= n
  BY <1>1, <1>4
<1>6. ASSUME NEW k \in S, k < m PROVE FALSE
  <2>1. 0 .. k \in T
    BY <1>5, <1>6
  <2>2. <<0 .. k, X>> \in R
    BY <1>5, <1>6, <2>1 DEF StrictSubsetOrdering
  <2> QED
    BY <1>4, <2>1, <2>2
<1> QED
  BY <1>5, <1>6

(* Min and Max of a set of naturals up to n are its elements.               *)
LEMMA MinMax ==
    ASSUME NEW n \in Nat, NEW S \in SUBSET (0 .. n), S # {}
    PROVE  /\ Min(S) \in S /\ \A k \in S : Min(S) <= k
           /\ Max(S) \in S /\ \A k \in S : Max(S) >= k
<1>1. \E m \in S : \A k \in S : m <= k
  BY Least
<1>2. \E m \in S : \A k \in S : m >= k
  <2> DEFINE D == {k \in 0 .. n : n - k \in S}
  <2>1. D \in SUBSET Nat /\ D # {}
    <3>1. PICK k \in S : TRUE
      OBVIOUS
    <3>2. n - k \in 0 .. n /\ n - (n - k) = k
      BY <3>1
    <3>3. n - k \in D
      BY <3>1, <3>2
    <3>4. D \subseteq Nat
      OBVIOUS
    <3> QED
      BY <3>3, <3>4
  <2>2. PICK m \in D : \A k \in D : m <= k
    <3> HIDE DEF D
    <3> QED
      BY <2>1, Least
  <2>3. \A k \in S : n - k \in D
    OBVIOUS
  <2> QED
    BY <2>2, <2>3
<1> QED
  BY <1>1, <1>2 DEF Min, Max

-----------------------------------------------------------------------------
(* The identifier.                                                          *)

(* strings.Trim keeps a stretch of the text that neither begins nor ends    *)
(* with a character it cuts.                                                *)
LEMMA Trimmed ==
    ASSUME NEW S, NEW text \in Seq(S), NEW cut
    PROVE  /\ Trim(text, cut) \in Seq(S)
           /\ \A i \in DOMAIN Trim(text, cut) :
                  \E k \in DOMAIN text : Trim(text, cut)[i] = text[k]
           /\ Trim(text, cut) # <<>> => /\ Trim(text, cut)[1] \notin cut
                                        /\ Trim(text, cut)[Len(Trim(text, cut))] \notin cut
<1> DEFINE kept == {i \in DOMAIN text : text[i] \notin cut}
<1>1. CASE kept = {}
  BY <1>1 DEF Trim
<1>2. CASE kept # {}
  <2> DEFINE a == Min(kept)
             b == Max(kept)
  <2>1. a \in kept /\ b \in kept /\ a <= b
    <3>1. kept \in SUBSET (0 .. Len(text)) /\ Len(text) \in Nat
      OBVIOUS
    <3> HIDE DEF kept
    <3> QED
      BY <1>2, <3>1, MinMax
  <2>2. Trim(text, cut) = SubSeq(text, a, b)
    BY <1>2 DEF Trim
  <2> HIDE DEF a, b
  <2>3. /\ SubSeq(text, a, b) \in Seq(S)
        /\ Len(SubSeq(text, a, b)) = b - a + 1
        /\ \A i \in 1 .. b - a + 1 : SubSeq(text, a, b)[i] = text[a + i - 1]
    BY <2>1, SubSeqProperties
  <2>4. /\ \A i \in 1 .. b - a + 1 : a + i - 1 \in DOMAIN text
        /\ text[a] \notin cut /\ a + 1 - 1 = a /\ 1 \in 1 .. b - a + 1
        /\ text[b] \notin cut /\ a + (b - a + 1) - 1 = b /\ b - a + 1 \in 1 .. b - a + 1
    BY <2>1
  <2>5. /\ SubSeq(text, a, b)[1] \notin cut
        /\ SubSeq(text, a, b)[Len(SubSeq(text, a, b))] \notin cut
    <3>1. SubSeq(text, a, b)[1] = text[a] /\ SubSeq(text, a, b)[b - a + 1] = text[b]
      BY <2>3, <2>4
    <3> QED
      BY <2>3, <2>4, <3>1
  <2>6. \A i \in DOMAIN Trim(text, cut) : \E k \in DOMAIN text : Trim(text, cut)[i] = text[k]
    <3>1. DOMAIN SubSeq(text, a, b) = 1 .. b - a + 1
      BY <2>3
    <3>2. \A i \in 1 .. b - a + 1 : a + i - 1 \in DOMAIN text
      BY <2>4
    <3> QED
      BY <2>2, <2>3, <3>1, <3>2
  <2> QED
    BY <2>2, <2>3, <2>5, <2>6
<1> QED
  BY <1>1, <1>2

(* What sanitizeMachineID returns matches machineIDPattern.                 *)
LEMMA IdMatches ==
    ASSUME NEW text \in Seq(STRING)
    PROVE  /\ MatchesPattern(sanitizeMachineID(text))
           /\ sanitizeMachineID(text) \in Seq(STRING \cup {"mac", "-"})
<1> DEFINE value == Or(Trim(text, Blank), <<"mac">>)
           cleaned == [i \in DOMAIN value |-> IF InId(value[i]) THEN value[i] ELSE "-"]
           named == Or(Trim(cleaned, Separators), <<"mac">>)
<1> DEFINE Char == STRING \cup {"mac", "-"}
<1>0. text \in Seq(Char)
  BY SeqMonotonic
<1>1. InId("mac") /\ InId("-") /\ "mac" \notin Separators
  BY DEF InId, Blank, Wildcards, Separators
<1>2. value \in Seq(Char) /\ <<"mac">> \in Seq(Char)
  <2>1. Trim(text, Blank) \in Seq(Char)
    BY <1>0, Trimmed
  <2>2. <<"mac">> \in Seq(Char)
    OBVIOUS
  <2> QED
    BY <2>1, <2>2 DEF Or
<1>3. cleaned \in Seq(Char) /\ \A i \in DOMAIN cleaned : InId(cleaned[i])
  <2> HIDE DEF value
  <2>1. DOMAIN value = 1 .. Len(value) /\ Len(value) \in Nat
        /\ \A i \in DOMAIN value : value[i] \in Char
    BY <1>2
  <2>2. cleaned \in [1 .. Len(value) -> Char]
    BY <2>1
  <2>3. cleaned \in Seq(Char)
    BY <2>1, <2>2, IsASeq
  <2>4. \A i \in DOMAIN cleaned : InId(cleaned[i])
    BY <1>1
  <2> QED
    BY <2>3, <2>4
<1> HIDE DEF cleaned, Char
<1>4. /\ named \in Seq(Char) /\ named # <<>> /\ named[1] \notin Separators
      /\ \A i \in DOMAIN named : InId(named[i])
  <2>1. CASE Trim(cleaned, Separators) = <<>>
    <3>1. named = <<"mac">>
      BY <2>1 DEF Or
    <3>2. <<"mac">>[1] = "mac" /\ DOMAIN <<"mac">> = {1} /\ <<"mac">> # <<>>
      OBVIOUS
    <3> HIDE DEF named
    <3> QED
      BY <1>1, <1>2, <3>1, <3>2
  <2>2. CASE Trim(cleaned, Separators) # <<>>
    <3>1. named = Trim(cleaned, Separators)
      BY <2>2 DEF Or
    <3> HIDE DEF named
    <3> QED
      BY <1>3, <2>2, <3>1, Trimmed
  <2> QED
    BY <2>1, <2>2
<1>5. sanitizeMachineID(text) = Cut(named)
  BY DEF sanitizeMachineID, cleaned
<1> HIDE DEF named
<1> DEFINE n == IF Len(named) > MaxIdLength THEN MaxIdLength ELSE Len(named)
<1>6. n \in 1 .. Len(named) /\ n <= MaxIdLength
  BY <1>4, NamingAssumption
<1>7. Cut(named) = SubSeq(named, 1, n)
  BY DEF Cut
<1> HIDE DEF n
<1>8. /\ SubSeq(named, 1, n) \in Seq(Char) /\ Len(SubSeq(named, 1, n)) = n
      /\ \A i \in 1 .. n : SubSeq(named, 1, n)[i] = named[i]
  BY <1>4, <1>6, SubSeqProperties
<1>9. MatchesPattern(sanitizeMachineID(text))
  BY <1>4, <1>5, <1>6, <1>7, <1>8, NamingAssumption DEF MatchesPattern
<1>10. sanitizeMachineID(text) \in Seq(Char)
  BY <1>5, <1>7, <1>8
<1> QED
  BY <1>9, <1>10 DEF Char

-----------------------------------------------------------------------------
(* Sequences that grow at their end.                                        *)

(* What holds of the empty sequence and is kept by Append holds of all.     *)
LEMMA Growing ==
    ASSUME NEW S, NEW G, <<>> \in G,
           \A s \in Seq(S), e \in S : s \in G => Append(s, e) \in G
    PROVE  Seq(S) \subseteq G
<1> DEFINE Lengths == {Len(s) : s \in Seq(S) \ G}
<1> SUFFICES ASSUME NEW t \in Seq(S), t \notin G PROVE FALSE
  OBVIOUS
<1>1. Lengths \in SUBSET Nat /\ Lengths # {}
  <2>1. t \in Seq(S) \ G /\ \A s \in Seq(S) : Len(s) \in Nat
    OBVIOUS
  <2>2. Len(t) \in Lengths
    BY <2>1
  <2>3. Lengths \subseteq Nat
    BY <2>1
  <2> QED
    BY <2>2, <2>3
<1>2. PICK n \in Lengths : \A k \in Lengths : n <= k
  <2> HIDE DEF Lengths
  <2> QED
    BY <1>1, Least
<1>3. PICK s \in Seq(S) \ G : Len(s) = n
  BY <1>2
<1>4. s # <<>>
  BY <1>3
<1>5. PICK r \in Seq(S), e \in S : s = Append(r, e)
  BY <1>3, <1>4, SequenceEmptyOrAppend
<1>6. Len(r) < n /\ Len(r) \in Nat
  BY <1>3, <1>5, AppendProperties
<1>7. r \in G
  <2>1. ~(n <= Len(r))
    BY <1>1, <1>2, <1>6
  <2>2. Len(r) \notin Lengths
    BY <1>2, <2>1
  <2> QED
    BY <2>2
<1> QED
  BY <1>3, <1>5, <1>7

(* Concatenation with what has grown.                                       *)
LEMMA ConcatAppend ==
    ASSUME NEW S, NEW a \in Seq(S), NEW b \in Seq(S), NEW e \in S
    PROVE  /\ a \o Append(b, e) = Append(a \o b, e)
           /\ a \o <<e>> = Append(a, e)
<1>1. Append(b, e) = b \o <<e>> /\ Append(a \o b, e) = (a \o b) \o <<e>>
      /\ Append(a, e) = a \o <<e>>
  BY ConcatProperties, AppendIsConcat
<1>2. <<e>> \in Seq(S)
  OBVIOUS
<1> QED
  BY <1>1, <1>2, ConcatAssociative

-----------------------------------------------------------------------------
(* FlattenSeq.  Its recursion runs over the indices; a table of it up to n. *)
FlatTable(seqs, n, f) ==
    f = [i \in 1 .. n |-> IF i = 1 THEN seqs[i] ELSE f[i - 1] \o seqs[i]]

(* There is one for every sequence.                                         *)
LEMMA FlatExists == ASSUME NEW seqs PROVE \A n \in Nat : \E f : FlatTable(seqs, n, f)
<1> DEFINE Bad == {n \in Nat : ~ \E f : FlatTable(seqs, n, f)}
<1>1. SUFFICES ASSUME Bad # {} PROVE FALSE
  OBVIOUS
<1>2. PICK n \in Bad : \A k \in Bad : n <= k
  <2>1. Bad \in SUBSET Nat
    OBVIOUS
  <2> HIDE DEF Bad
  <2> QED
    BY <1>1, <2>1, Least
<1>3. CASE n = 0
  <2> DEFINE f == [i \in 1 .. 0 |-> seqs[i]]
  <2>1. FlatTable(seqs, 0, f)
    BY DEF FlatTable
  <2> QED
    BY <1>3, <2>1
<1>4. CASE n # 0
  <2>1. n \in Nat /\ n - 1 \in Nat /\ ~(n <= n - 1)
    BY <1>4
  <2>2. n - 1 \notin Bad
    BY <1>2, <2>1
  <2>3. PICK g : FlatTable(seqs, n - 1, g)
    BY <2>1, <2>2
  <2> DEFINE step == IF n = 1 THEN seqs[n] ELSE g[n - 1] \o seqs[n]
             f == [i \in 1 .. n |-> IF i = n THEN step ELSE g[i]]
  <2>4. ASSUME NEW i \in 1 .. n
        PROVE  f[i] = IF i = 1 THEN seqs[i] ELSE f[i - 1] \o seqs[i]
    <3>1. CASE i = n
      <4>1. n # 1 => n - 1 \in 1 .. n /\ n - 1 # n
        BY <2>1
      <4>2. n # 1 => f[n - 1] = g[n - 1]
        BY <4>1
      <4>3. f[n] = step
        BY <2>1, <1>4
      <4> HIDE DEF f
      <4> QED
        BY <3>1, <4>2, <4>3
    <3>2. CASE i # n
      <4>1. i \in 1 .. n - 1 /\ (i # 1 => i - 1 \in 1 .. n - 1)
        BY <2>1, <3>2
      <4>2. g[i] = IF i = 1 THEN seqs[i] ELSE g[i - 1] \o seqs[i]
        BY <2>3, <4>1 DEF FlatTable
      <4>3. f[i] = g[i] /\ (i # 1 => f[i - 1] = g[i - 1])
        BY <2>1, <3>2, <4>1
      <4> HIDE DEF f
      <4> QED
        BY <4>2, <4>3
    <3> QED
      BY <3>1, <3>2
  <2>5. f = [i \in 1 .. n |-> f[i]]
    OBVIOUS
  <2> HIDE DEF f
  <2>6. FlatTable(seqs, n, f)
    BY <2>4, <2>5 DEF FlatTable
  <2> QED
    BY <2>6
<1> QED
  BY <1>3, <1>4

(* The table that FlattenSeq reads, and its entries.                        *)
FlatOf(seqs) == CHOOSE f : FlatTable(seqs, Len(seqs), f)

(* FlattenSeq is the last entry, and each entry follows from the one        *)
(* before.                                                                  *)
LEMMA FlatAt ==
    ASSUME NEW seqs, Len(seqs) \in Nat
    PROVE  /\ FlatTable(seqs, Len(seqs), FlatOf(seqs))
           /\ FlattenSeq(seqs) = IF Len(seqs) = 0 THEN seqs ELSE FlatOf(seqs)[Len(seqs)]
           /\ \A i \in 1 .. Len(seqs) :
                  FlatOf(seqs)[i] = IF i = 1 THEN seqs[i] ELSE FlatOf(seqs)[i - 1] \o seqs[i]
<1>1. FlatTable(seqs, Len(seqs), FlatOf(seqs))
  BY FlatExists DEF FlatOf
<1>2. FlattenSeq(seqs) = IF Len(seqs) = 0 THEN seqs ELSE FlatOf(seqs)[Len(seqs)]
  BY DEF FlattenSeq, FlatOf, FlatTable
<1>3. ASSUME NEW f, FlatTable(seqs, Len(seqs), f), NEW i \in 1 .. Len(seqs)
      PROVE  f[i] = IF i = 1 THEN seqs[i] ELSE f[i - 1] \o seqs[i]
  BY <1>3 DEF FlatTable
<1> QED
  BY <1>1, <1>2, <1>3

(* The tables of a sequence and of one that begins it agree.                *)
LEMMA FlatAgree ==
    ASSUME NEW s, NEW t, Len(s) \in Nat, Len(t) \in Nat, Len(t) <= Len(s),
           \A i \in 1 .. Len(t) : s[i] = t[i]
    PROVE  \A i \in 1 .. Len(t) : FlatOf(s)[i] = FlatOf(t)[i]
<1> DEFINE Bad == {i \in 1 .. Len(t) : FlatOf(s)[i] # FlatOf(t)[i]}
<1>1. SUFFICES ASSUME Bad # {} PROVE FALSE
  OBVIOUS
<1>2. PICK i \in Bad : \A j \in Bad : i <= j
  <2>1. Bad \in SUBSET Nat
    OBVIOUS
  <2> HIDE DEF Bad
  <2> QED
    BY <1>1, <2>1, Least
<1>3. /\ i \in 1 .. Len(t) /\ i \in 1 .. Len(s) /\ FlatOf(s)[i] # FlatOf(t)[i]
      /\ s[i] = t[i]
  BY <1>2
<1>4. FlatOf(s)[i] = IF i = 1 THEN s[i] ELSE FlatOf(s)[i - 1] \o s[i]
  BY <1>3, FlatAt
<1>5. FlatOf(t)[i] = IF i = 1 THEN t[i] ELSE FlatOf(t)[i - 1] \o t[i]
  BY <1>3, FlatAt
<1>6. i # 1 => FlatOf(s)[i - 1] = FlatOf(t)[i - 1]
  <2>1. i # 1 => i - 1 \in 1 .. Len(t) /\ ~(i <= i - 1)
    BY <1>3
  <2> QED
    BY <1>2, <2>1
<1> QED
  BY <1>3, <1>4, <1>5, <1>6

(* One sequence more adds its elements.                                     *)
LEMMA FlattenAppend ==
    ASSUME NEW S, NEW seqs \in Seq(Seq(S)), NEW s \in Seq(S)
    PROVE  /\ FlattenSeq(<<>>) = <<>>
           /\ seqs = <<>> => FlattenSeq(Append(seqs, s)) = s
           /\ seqs # <<>> => FlattenSeq(Append(seqs, s)) = FlattenSeq(seqs) \o s
<1> DEFINE n == Len(seqs)
           more == Append(seqs, s)
<1>1. /\ n \in Nat /\ Len(more) = n + 1 /\ more[n + 1] = s
      /\ \A i \in 1 .. n : more[i] = seqs[i]
  BY AppendProperties
<1>2. FlattenSeq(<<>>) = <<>>
  BY DEF FlattenSeq
<1>3. n = Len(seqs) /\ (seqs = <<>> <=> n = 0)
  OBVIOUS
<1> HIDE DEF more, n
<1>4. /\ FlatTable(more, n + 1, FlatOf(more)) /\ FlattenSeq(more) = FlatOf(more)[n + 1]
      /\ FlatOf(more)[n + 1] = IF n + 1 = 1 THEN s ELSE FlatOf(more)[n + 1 - 1] \o s
  <2>1. n + 1 \in Nat /\ n + 1 # 0 /\ n + 1 \in 1 .. n + 1
    BY <1>1
  <2>2. Len(more) \in Nat
    BY <1>1, <2>1
  <2>3. /\ FlatTable(more, Len(more), FlatOf(more))
        /\ FlattenSeq(more) = IF Len(more) = 0 THEN more ELSE FlatOf(more)[Len(more)]
        /\ \A i \in 1 .. Len(more) :
               FlatOf(more)[i] = IF i = 1 THEN more[i] ELSE FlatOf(more)[i - 1] \o more[i]
    BY <2>2, FlatAt
  <2> QED
    BY <1>1, <2>1, <2>3
<1>5. FlatTable(seqs, n, FlatOf(seqs)) /\ (n # 0 => FlattenSeq(seqs) = FlatOf(seqs)[n])
  BY <1>1, <1>3, FlatAt
<1>6. n # 0 => FlatOf(more)[n] = FlatOf(seqs)[n]
  <2>1. /\ Len(more) \in Nat /\ Len(seqs) \in Nat /\ Len(seqs) <= Len(more)
        /\ \A i \in 1 .. Len(seqs) : more[i] = seqs[i]
    BY <1>1, <1>3
  <2>2. \A i \in 1 .. Len(seqs) : FlatOf(more)[i] = FlatOf(seqs)[i]
    BY <2>1, FlatAgree
  <2> QED
    BY <1>1, <1>3, <2>2
<1>7. n + 1 - 1 = n /\ (n + 1 = 1 <=> n = 0)
  BY <1>1
<1> QED
  BY <1>2, <1>3, <1>4, <1>5, <1>6, <1>7 DEF more

(* What is flattened is a sequence.                                         *)
LEMMA FlattenType ==
    ASSUME NEW S, NEW seqs \in Seq(Seq(S))
    PROVE  FlattenSeq(seqs) \in Seq(S)
<1> DEFINE G == {t \in Seq(Seq(S)) : FlattenSeq(t) \in Seq(S)}
<1>1. <<>> \in G
  <2>1. FlattenSeq(<<>>) = <<>>
    BY DEF FlattenSeq
  <2> QED
    BY <2>1, EmptySeq
<1>2. ASSUME NEW t \in Seq(Seq(S)), NEW e \in Seq(S), t \in G
      PROVE  Append(t, e) \in G
  <2>1. Append(t, e) \in Seq(Seq(S))
    OBVIOUS
  <2>2. FlattenSeq(t) \in Seq(S)
    BY <1>2
  <2>3. FlattenSeq(Append(t, e)) = e \/ FlattenSeq(Append(t, e)) = FlattenSeq(t) \o e
    BY FlattenAppend
  <2>4. FlattenSeq(t) \o e \in Seq(S)
    BY <2>2, ConcatProperties
  <2> QED
    BY <2>1, <2>3, <2>4
<1> HIDE DEF G
<1>3. Seq(Seq(S)) \subseteq G
  BY <1>1, <1>2, Growing
<1> QED
  BY <1>3 DEF G

(* The same in one equation, and for two sequences of sequences.            *)
LEMMA FlattenConcat ==
    ASSUME NEW S, NEW a \in Seq(Seq(S)), NEW b \in Seq(Seq(S))
    PROVE  /\ FlattenSeq(a \o b) = FlattenSeq(a) \o FlattenSeq(b)
           /\ \A e \in Seq(S) : FlattenSeq(Append(a, e)) = FlattenSeq(a) \o e
<1>1. ASSUME NEW t \in Seq(Seq(S)), NEW e \in Seq(S)
      PROVE  FlattenSeq(Append(t, e)) = FlattenSeq(t) \o e
  <2>1. FlattenSeq(<<>>) = <<>> /\ <<>> \o e = e
    BY FlattenAppend, ConcatEmptySeq
  <2>2. CASE t = <<>>
    BY <2>1, <2>2, FlattenAppend
  <2>3. CASE t # <<>>
    BY <2>3, FlattenAppend
  <2> QED
    BY <2>2, <2>3
<1> DEFINE G == {t \in Seq(Seq(S)) : FlattenSeq(a \o t) = FlattenSeq(a) \o FlattenSeq(t)}
<1>2. <<>> \in G
  <2>1. FlattenSeq(a) \in Seq(S)
    BY FlattenType
  <2>2. FlattenSeq(a) \o <<>> = FlattenSeq(a) /\ a \o <<>> = a
    BY <2>1, ConcatEmptySeq
  <2>3. FlattenSeq(<<>>) = <<>>
    BY DEF FlattenSeq
  <2> QED
    BY <2>2, <2>3, EmptySeq
<1>3. ASSUME NEW t \in Seq(Seq(S)), NEW e \in Seq(S), t \in G
      PROVE  Append(t, e) \in G
  <2>1. a \o Append(t, e) = Append(a \o t, e) /\ a \o t \in Seq(Seq(S))
    BY ConcatAppend, ConcatProperties
  <2>2. FlattenSeq(a \o Append(t, e)) = (FlattenSeq(a) \o FlattenSeq(t)) \o e
    BY <1>1, <1>3, <2>1
  <2>3. FlattenSeq(a) \in Seq(S) /\ FlattenSeq(t) \in Seq(S)
    BY FlattenType
  <2>4. (FlattenSeq(a) \o FlattenSeq(t)) \o e = FlattenSeq(a) \o (FlattenSeq(t) \o e)
    BY SMTT(20), <2>3, ConcatAssociative
  <2>5. FlattenSeq(Append(t, e)) = FlattenSeq(t) \o e
    BY <1>1
  <2>6. Append(t, e) \in Seq(Seq(S))
    OBVIOUS
  <2> QED
    BY <2>2, <2>4, <2>5, <2>6
<1> HIDE DEF G
<1>4. Seq(Seq(S)) \subseteq G
  BY <1>2, <1>3, Growing
<1> QED
  BY <1>1, <1>4 DEF G

-----------------------------------------------------------------------------
(* Split.  Its fold takes the characters from the last to the first, and is *)
(* a table over the sets of indices.                                        *)
SplitStep(parts, c) ==
    IF c = "/" THEN Append(parts, <<>>) ELSE [parts EXCEPT ![Len(parts)] = Append(@, c)]
SplitTable(text, I, g) ==
    g = [s \in SUBSET I |-> IF s = {} THEN << <<>> >>
                            ELSE SplitStep(g[s \ {Max(s)}], text[Max(s)])]
SplitOf(text) == CHOOSE g : SplitTable(text, DOMAIN text, g)

(* The greatest of the first n indices, and what is left without it.        *)
LEMMA Greatest ==
    ASSUME NEW n \in Nat, n # 0
    PROVE  Max(1 .. n) = n /\ 1 .. n # {} /\ (1 .. n) \ {n} = 1 .. n - 1
<1>1. (1 .. n) \in SUBSET (0 .. n) /\ 1 .. n # {} /\ n \in 1 .. n
  OBVIOUS
<1>2. Max(1 .. n) \in 1 .. n /\ \A k \in 1 .. n : Max(1 .. n) >= k
  BY <1>1, MinMax
<1> QED
  BY <1>1, <1>2

(* There is a table for every text.                                         *)
LEMMA SplitExists == ASSUME NEW text PROVE \A n \in Nat : \E g : SplitTable(text, 1 .. n, g)
<1> DEFINE Bad == {n \in Nat : ~ \E g : SplitTable(text, 1 .. n, g)}
<1>1. SUFFICES ASSUME Bad # {} PROVE FALSE
  OBVIOUS
<1>2. PICK n \in Bad : \A k \in Bad : n <= k
  <2>1. Bad \in SUBSET Nat
    OBVIOUS
  <2> HIDE DEF Bad
  <2> QED
    BY <1>1, <2>1, Least
<1>3. CASE n = 0
  <2> DEFINE g == [s \in SUBSET (1 .. 0) |-> << <<>> >>]
  <2>1. \A s \in SUBSET (1 .. 0) : s = {}
    OBVIOUS
  <2>2. SplitTable(text, 1 .. 0, g)
    BY <2>1 DEF SplitTable
  <2> QED
    BY <1>3, <2>2
<1>4. CASE n # 0
  <2>1. n \in Nat /\ n - 1 \in Nat /\ ~(n <= n - 1)
    BY <1>4
  <2>2. n - 1 \notin Bad
    BY <1>2, <2>1
  <2>3. PICK h : SplitTable(text, 1 .. n - 1, h)
    BY <2>1, <2>2
  <2> DEFINE g == [s \in SUBSET (1 .. n) |->
                      IF n \in s THEN SplitStep(h[s \ {n}], text[n]) ELSE h[s]]
  <2>4. ASSUME NEW s \in SUBSET (1 .. n)
        PROVE  g[s] = IF s = {} THEN << <<>> >>
                      ELSE SplitStep(g[s \ {Max(s)}], text[Max(s)])
    <3>1. s # {} => Max(s) \in s /\ \A k \in s : Max(s) >= k
      <4>1. s \in SUBSET (0 .. n)
        BY <2>1
      <4> QED
        BY <2>1, <4>1, MinMax
    <3>2. CASE n \in s
      <4>1. Max(s) = n /\ s # {}
        <5>1. s # {} /\ Max(s) \in 1 .. n /\ Max(s) >= n
          BY <3>1, <3>2
        <5> QED
          BY <2>1, <5>1
      <4>2. s \ {n} \in SUBSET (1 .. n) /\ n \notin s \ {n}
        BY <2>1
      <4>3. g[s \ {n}] = h[s \ {n}]
        BY <4>2
      <4>4. g[s] = SplitStep(h[s \ {n}], text[n])
        BY <3>2
      <4> HIDE DEF g
      <4> QED
        BY <4>1, <4>3, <4>4
    <3>3. CASE n \notin s
      <4>1. s \in SUBSET (1 .. n - 1)
        BY <2>1, <3>3
      <4>2. h[s] = IF s = {} THEN << <<>> >> ELSE SplitStep(h[s \ {Max(s)}], text[Max(s)])
        BY <2>3, <4>1 DEF SplitTable
      <4>3. \A t \in SUBSET (1 .. n) : n \notin t => g[t] = h[t]
        OBVIOUS
      <4>4. s \ {Max(s)} \in SUBSET (1 .. n) /\ n \notin s \ {Max(s)}
        BY <3>3
      <4> HIDE DEF g
      <4> QED
        BY <3>3, <4>2, <4>3, <4>4
    <3> QED
      BY <3>2, <3>3
  <2>5. g = [s \in SUBSET (1 .. n) |-> g[s]]
    OBVIOUS
  <2> HIDE DEF g
  <2>6. SplitTable(text, 1 .. n, g)
    BY <2>4, <2>5 DEF SplitTable
  <2> QED
    BY <2>6
<1> QED
  BY <1>3, <1>4

(* What a table says of the text up to each of its characters.              *)
LEMMA SplitGoesOn ==
    ASSUME NEW S, NEW text \in Seq(S)
    PROVE  /\ Split(text) = SplitOf(text)[1 .. Len(text)]
           /\ SplitOf(text)[1 .. 0] = << <<>> >>
           /\ \A i \in 1 .. Len(text) :
                  SplitOf(text)[1 .. i] = SplitStep(SplitOf(text)[1 .. i - 1], text[i])
<1>1. DOMAIN text = 1 .. Len(text) /\ Len(text) \in Nat
  OBVIOUS
<1>2. Split(text) = SplitOf(text)[DOMAIN text]
  BY DEF Split, FoldLeft, MapThenFoldSet, SplitOf, SplitTable, SplitStep
<1>3. SplitTable(text, DOMAIN text, SplitOf(text))
  <2>1. \E g : SplitTable(text, DOMAIN text, g)
    BY <1>1, SplitExists
  <2> QED
    BY <2>1 DEF SplitOf
<1>4. ASSUME NEW g, SplitTable(text, 1 .. Len(text), g), NEW s \in SUBSET (1 .. Len(text))
      PROVE  g[s] = IF s = {} THEN << <<>> >> ELSE SplitStep(g[s \ {Max(s)}], text[Max(s)])
  BY <1>4 DEF SplitTable
<1>5. SplitOf(text)[1 .. 0] = << <<>> >>
  <2>1. 1 .. 0 = {} /\ 1 .. 0 \in SUBSET (1 .. Len(text))
    BY <1>1
  <2> QED
    BY <1>1, <1>3, <1>4, <2>1
<1>6. ASSUME NEW i \in 1 .. Len(text)
      PROVE  SplitOf(text)[1 .. i] = SplitStep(SplitOf(text)[1 .. i - 1], text[i])
  <2>1. i \in Nat /\ i # 0 /\ 1 .. i \in SUBSET (1 .. Len(text))
    BY <1>1
  <2>2. Max(1 .. i) = i /\ 1 .. i # {} /\ (1 .. i) \ {i} = 1 .. i - 1
    BY <2>1, Greatest
  <2>3. SplitTable(text, 1 .. Len(text), SplitOf(text))
    BY <1>1, <1>3
  <2>4. SplitOf(text)[1 .. i] =
            IF 1 .. i = {} THEN << <<>> >>
            ELSE SplitStep(SplitOf(text)[(1 .. i) \ {Max(1 .. i)}], text[Max(1 .. i)])
    BY <1>4, <2>1, <2>3
  <2> QED
    BY <2>2, <2>4
<1> QED
  BY <1>1, <1>2, <1>5, <1>6

(* A text is split like one that begins it, as far as that goes.            *)
LEMMA SplitAgree ==
    ASSUME NEW S, NEW s \in Seq(S), NEW t \in Seq(S), Len(t) <= Len(s),
           \A i \in 1 .. Len(t) : s[i] = t[i]
    PROVE  \A i \in 0 .. Len(t) : SplitOf(s)[1 .. i] = SplitOf(t)[1 .. i]
<1> DEFINE Bad == {i \in 0 .. Len(t) : SplitOf(s)[1 .. i] # SplitOf(t)[1 .. i]}
<1>1. SUFFICES ASSUME Bad # {} PROVE FALSE
  OBVIOUS
<1>2. PICK i \in Bad : \A j \in Bad : i <= j
  <2>1. Bad \in SUBSET Nat
    OBVIOUS
  <2> HIDE DEF Bad
  <2> QED
    BY <1>1, <2>1, Least
<1>3. Len(s) \in Nat /\ Len(t) \in Nat /\ i \in 0 .. Len(t)
      /\ SplitOf(s)[1 .. i] # SplitOf(t)[1 .. i]
  BY <1>2
<1>4. i # 0
  BY <1>3, SplitGoesOn
<1>5. /\ i \in 1 .. Len(t) /\ i \in 1 .. Len(s) /\ s[i] = t[i]
      /\ i - 1 \in 0 .. Len(t) /\ ~(i <= i - 1)
  BY <1>3, <1>4
<1>6. SplitOf(s)[1 .. i] = SplitStep(SplitOf(s)[1 .. i - 1], s[i])
  BY <1>5, SplitGoesOn
<1>7. SplitOf(t)[1 .. i] = SplitStep(SplitOf(t)[1 .. i - 1], t[i])
  BY <1>5, SplitGoesOn
<1>8. SplitOf(s)[1 .. i - 1] = SplitOf(t)[1 .. i - 1]
  BY <1>2, <1>5
<1> QED
  BY <1>3, <1>5, <1>6, <1>7, <1>8

(* One character more.                                                      *)
LEMMA SplitAppend ==
    ASSUME NEW S, NEW text \in Seq(S), NEW c \in S
    PROVE  /\ Split(<<>>) = << <<>> >>
           /\ Split(Append(text, c)) = SplitStep(Split(text), c)
<1> DEFINE more == Append(text, c)
           n == Len(text)
<1>1. /\ more \in Seq(S) /\ n \in Nat /\ Len(more) = n + 1 /\ more[n + 1] = c
      /\ \A i \in 1 .. n : more[i] = text[i]
  BY AppendProperties
<1>2. Split(<<>>) = << <<>> >>
  <2>1. <<>> \in Seq(S) /\ Len(<<>>) = 0
    BY EmptySeq
  <2> QED
    BY <2>1, SplitGoesOn
<1>3. Len(text) = n
  OBVIOUS
<1> HIDE DEF more, n
<1>4. /\ Split(more) = SplitOf(more)[1 .. n + 1]
      /\ SplitOf(more)[1 .. n + 1] = SplitStep(SplitOf(more)[1 .. n + 1 - 1], c)
  <2>1. n + 1 \in 1 .. n + 1
    BY <1>1
  <2>2. \A i \in 1 .. Len(more) :
            SplitOf(more)[1 .. i] = SplitStep(SplitOf(more)[1 .. i - 1], more[i])
    BY <1>1, SplitGoesOn
  <2> QED
    BY <1>1, <2>1, <2>2, SplitGoesOn
<1>5. Split(text) = SplitOf(text)[1 .. n]
  BY <1>3, SplitGoesOn
<1>6. SplitOf(more)[1 .. n] = SplitOf(text)[1 .. n]
  <2>1. /\ Len(text) <= Len(more) /\ n \in 0 .. Len(text)
        /\ \A i \in 1 .. Len(text) : more[i] = text[i]
    BY <1>1, <1>3
  <2> QED
    BY <1>1, <2>1, SplitAgree
<1>7. n + 1 - 1 = n
  BY <1>1
<1> QED
  BY <1>2, <1>4, <1>5, <1>6, <1>7 DEF more

(* The element at the end of a sequence, put in or replaced.                *)
LEMMA AppendAt ==
    ASSUME NEW U, NEW r \in Seq(U), NEW e \in U
    PROVE  /\ Append(r, e) = [i \in 1 .. Len(r) + 1 |-> IF i = Len(r) + 1 THEN e ELSE r[i]]
           /\ Len(Append(r, e)) = Len(r) + 1 /\ Len(r) \in Nat
           /\ Append(r, e)[Len(r) + 1] = e
           /\ \A f \in U : [Append(r, e) EXCEPT ![Len(r) + 1] = f] = Append(r, f)
<1>1. ASSUME NEW f \in U
      PROVE  Append(r, f) = [i \in 1 .. Len(r) + 1 |-> IF i = Len(r) + 1 THEN f ELSE r[i]]
  <2> DEFINE n == Len(r)
             more == Append(r, f)
             g == [i \in 1 .. n + 1 |-> IF i = n + 1 THEN f ELSE r[i]]
  <2>1. more \in Seq(U) /\ Len(more) = n + 1 /\ more[n + 1] = f /\ n \in Nat
        /\ \A i \in 1 .. n : more[i] = r[i]
    BY AppendProperties
  <2>2. more \in [1 .. n + 1 -> U]
    <3> HIDE DEF more, n
    <3> QED
      BY <2>1, LenProperties
  <2> HIDE DEF more, n
  <2>3. \A i \in 1 .. n + 1 : more[i] = g[i]
    BY <2>1
  <2>4. more = g
    BY <2>2, <2>3
  <2> QED
    BY <2>4 DEF more, n
<1>2. Len(r) \in Nat /\ Append(r, e)[Len(r) + 1] = e /\ Len(Append(r, e)) = Len(r) + 1
  OBVIOUS
<1>3. ASSUME NEW f \in U PROVE [Append(r, e) EXCEPT ![Len(r) + 1] = f] = Append(r, f)
  <2> DEFINE n == Len(r)
  <2>1. Append(r, e) = [i \in 1 .. n + 1 |-> IF i = n + 1 THEN e ELSE r[i]]
    BY <1>1
  <2>2. Append(r, f) = [i \in 1 .. n + 1 |-> IF i = n + 1 THEN f ELSE r[i]]
    BY <1>1
  <2>3. n \in Nat
    OBVIOUS
  <2> HIDE DEF n
  <2>4. [[i \in 1 .. n + 1 |-> IF i = n + 1 THEN e ELSE r[i]] EXCEPT ![n + 1] = f] =
            [i \in 1 .. n + 1 |-> IF i = n + 1 THEN f ELSE r[i]]
    BY <2>3
  <2>5. [Append(r, e) EXCEPT ![n + 1] = f] = Append(r, f)
    BY <2>1, <2>2, <2>4
  <2> QED
    BY <2>5 DEF n
<1> QED
  BY <1>1, <1>2, <1>3

(* A step on what it was split into so far.                                 *)
LEMMA SplitStepAppend ==
    ASSUME NEW T, NEW r \in Seq(Seq(T)), NEW e \in Seq(T)
    PROVE  /\ SplitStep(Append(r, e), "/") = Append(Append(r, e), <<>>)
           /\ \A c \in T : c # "/" => SplitStep(Append(r, e), c) = Append(r, Append(e, c))
<1>1. ASSUME NEW c \in T, c # "/"
      PROVE  SplitStep(Append(r, e), c) = Append(r, Append(e, c))
  <2>1. Len(Append(r, e)) = Len(r) + 1 /\ Append(r, e)[Len(r) + 1] = e
    BY AppendAt
  <2>2. SplitStep(Append(r, e), c) = [Append(r, e) EXCEPT ![Len(r) + 1] = Append(e, c)]
    BY <1>1, <2>1 DEF SplitStep
  <2>3. Append(e, c) \in Seq(T)
    OBVIOUS
  <2>4. \A f \in Seq(T) : [Append(r, e) EXCEPT ![Len(r) + 1] = f] = Append(r, f)
    BY AppendAt
  <2> QED
    BY <2>2, <2>3, <2>4
<1> QED
  BY <1>1 DEF SplitStep

(* The segments have no slash, and there is at least one.                   *)
LEMMA SplitType ==
    ASSUME NEW S, NEW text \in Seq(S)
    PROVE  Split(text) \in Seq(Seq(S \ {"/"})) /\ Split(text) # <<>>
<1> DEFINE T == S \ {"/"}
           G == {t \in Seq(S) : Split(t) \in Seq(Seq(T)) /\ Split(t) # <<>>}
<1>1. <<>> \in G
  <2>1. <<>> \in Seq(T) /\ <<>> \in Seq(S)
    BY EmptySeq
  <2>2. << <<>> >> \in Seq(Seq(T)) /\ << <<>> >> # <<>>
    BY <2>1
  <2>3. Split(<<>>) = << <<>> >>
    BY <2>1, SplitGoesOn, EmptySeq
  <2> QED
    BY <2>1, <2>2, <2>3
<1>2. ASSUME NEW t \in Seq(S), NEW c \in S, t \in G PROVE Append(t, c) \in G
  <2> HIDE DEF T
  <2>1. PICK r \in Seq(Seq(T)), e \in Seq(T) : Split(t) = Append(r, e)
    BY <1>2, SequenceEmptyOrAppend
  <2>2. Split(Append(t, c)) = SplitStep(Append(r, e), c)
    BY <2>1, SplitAppend
  <2>3. Append(t, c) \in Seq(S)
    OBVIOUS
  <2>4. CASE c = "/"
    <3>1. Split(Append(t, c)) = Append(Append(r, e), <<>>)
      BY <2>2, <2>4, SplitStepAppend
    <3>2. <<>> \in Seq(T) /\ Append(r, e) \in Seq(Seq(T))
      BY EmptySeq, AppendProperties
    <3>3. Append(Append(r, e), <<>>) \in Seq(Seq(T)) /\ Append(Append(r, e), <<>>) # <<>>
      BY <3>2, AppendProperties
    <3> QED
      BY <2>3, <3>1, <3>3
  <2>5. CASE c # "/"
    <3>1. c \in T
      BY <2>5 DEF T
    <3>2. Split(Append(t, c)) = Append(r, Append(e, c))
      BY <2>2, <2>5, <3>1, SplitStepAppend
    <3>3. Append(e, c) \in Seq(T)
      BY <3>1, AppendProperties
    <3>4. \A d \in Seq(T) : Append(r, d) \in Seq(Seq(T)) /\ Append(r, d) # <<>>
      BY AppendProperties
    <3> QED
      BY <2>3, <3>2, <3>3, <3>4
  <2> QED
    BY <2>4, <2>5
<1> HIDE DEF G
<1>3. Seq(S) \subseteq G
  BY <1>1, <1>2, Growing
<1> QED
  BY <1>3 DEF G

(* Text without a slash goes to the last segment.                           *)
LEMMA SplitConcat ==
    ASSUME NEW S, NEW text \in Seq(S), NEW word \in Seq(S \ {"/"}),
           NEW r \in Seq(Seq(S \ {"/"})), NEW e \in Seq(S \ {"/"}),
           Split(text) = Append(r, e)
    PROVE  Split(text \o word) = Append(r, e \o word)
<1> DEFINE T == S \ {"/"}
           G == {w \in Seq(T) : Split(text \o w) = Append(r, e \o w)}
<1>1. <<>> \in G
  BY ConcatEmptySeq, EmptySeq
<1>2. ASSUME NEW w \in Seq(T), NEW c \in T, w \in G PROVE Append(w, c) \in G
  <2>1. c \in S /\ c # "/" /\ w \in Seq(S) /\ Append(w, c) \in Seq(T)
    BY SeqMonotonic
  <2>2. Split(text \o w) = Append(r, e \o w)
    BY <1>2
  <2> HIDE DEF T, G
  <2>3. text \o Append(w, c) = Append(text \o w, c) /\ text \o w \in Seq(S)
    BY <2>1, ConcatAppend, ConcatProperties
  <2>4. Split(text \o Append(w, c)) = SplitStep(Append(r, e \o w), c)
    BY <2>1, <2>2, <2>3, SplitAppend
  <2>5. r \in Seq(Seq(T)) /\ e \o w \in Seq(T)
    BY ConcatProperties DEF T
  <2>6. SplitStep(Append(r, e \o w), c) = Append(r, Append(e \o w, c))
    <3>1. \A d \in Seq(T) : SplitStep(Append(r, d), c) = Append(r, Append(d, c))
      BY <2>1, <2>5, SplitStepAppend
    <3> QED
      BY <2>5, <3>1
  <2>7. Append(e \o w, c) = e \o Append(w, c)
    <3>1. e \in Seq(T)
      BY DEF T
    <3>2. \A b \in Seq(T), d \in T : e \o Append(b, d) = Append(e \o b, d)
      BY <3>1, ConcatAppend
    <3> QED
      BY <3>2
  <2> QED
    BY <2>1, <2>4, <2>6, <2>7 DEF G
<1> HIDE DEF G
<1>3. Seq(T) \subseteq G
  BY <1>1, <1>2, Growing
<1> QED
  BY <1>3 DEF G

(* A slash begins a segment.                                                *)
LEMMA SplitSlash ==
    ASSUME NEW S, "/" \in S, NEW text \in Seq(S), NEW word \in Seq(S \ {"/"})
    PROVE  /\ Split(word) = <<word>>
           /\ Split((text \o <<"/">>) \o word) = Append(Split(text), word)
<1> DEFINE T == S \ {"/"}
<1>1. word \in Seq(S) /\ <<>> \in Seq(T) /\ <<>> \in Seq(S) /\ <<>> \in Seq(Seq(T))
  BY SeqMonotonic, EmptySeq
<1>2. Split(word) = <<word>>
  <2>1. Split(<<>>) = << <<>> >>
    BY SplitAppend
  <2>2. << <<>> >> = Append(<<>>, <<>>) /\ <<word>> = Append(<<>>, word)
    OBVIOUS
  <2>3. \A x \in Seq(S), r \in Seq(Seq(T)), e \in Seq(T) :
            Split(x) = Append(r, e) => Split(x \o word) = Append(r, e \o word)
    BY SplitConcat
  <2>4. <<>> \o word = word
    BY <1>1, ConcatEmptySeq
  <2> QED
    BY <1>1, <2>1, <2>2, <2>3, <2>4
<1>3. Split((text \o <<"/">>) \o word) = Append(Split(text), word)
  <2>1. PICK r \in Seq(Seq(T)), e \in Seq(T) : Split(text) = Append(r, e)
    <3>1. Split(text) \in Seq(Seq(T)) /\ Split(text) # <<>>
      BY SplitType
    <3> HIDE DEF T
    <3> QED
      BY <3>1, SequenceEmptyOrAppend
  <2>2. text \o <<"/">> = Append(text, "/") /\ text \o <<"/">> \in Seq(S)
    BY AppendIsConcat
  <2>3. Split(text \o <<"/">>) = Append(Append(r, e), <<>>) /\ Append(r, e) \in Seq(Seq(T))
    <3>1. Split(Append(text, "/")) = SplitStep(Split(text), "/")
      BY SplitAppend
    <3> HIDE DEF T
    <3>2. SplitStep(Append(r, e), "/") = Append(Append(r, e), <<>>)
      BY SplitStepAppend
    <3>3. Append(r, e) \in Seq(Seq(T))
      BY AppendProperties
    <3> QED
      BY <2>1, <2>2, <3>1, <3>2, <3>3
  <2>4. Split((text \o <<"/">>) \o word) = Append(Append(r, e), <<>> \o word)
    BY ZenonT(40), <1>1, <2>2, <2>3, SplitConcat
  <2>5. <<>> \o word = word
    BY <1>1, ConcatEmptySeq
  <2> QED
    BY <2>1, <2>4, <2>5
<1> QED
  BY <1>2, <1>3

(* Segments that are more than blanks.                                      *)
Visible(segment) == \E j \in DOMAIN segment : segment[j] \notin Blank
Solid(segments) == \E k \in DOMAIN segments : Visible(segments[k])

(* A segment or a character added to the end shows as much as it has.       *)
LEMMA SolidAppend ==
    ASSUME NEW T, NEW r \in Seq(Seq(T)), NEW e \in Seq(T)
    PROVE  /\ Solid(Append(r, e)) <=> Solid(r) \/ Visible(e)
           /\ \A c \in T : Visible(Append(e, c)) <=> Visible(e) \/ c \notin Blank
<1>1. ASSUME NEW S, NEW s \in Seq(S), NEW x \in S
      PROVE  /\ DOMAIN Append(s, x) = DOMAIN s \cup {Len(s) + 1}
             /\ \A i \in DOMAIN s : Append(s, x)[i] = s[i]
             /\ Append(s, x)[Len(s) + 1] = x
  OBVIOUS
<1>2. Solid(Append(r, e)) <=> Solid(r) \/ Visible(e)
  BY <1>1 DEF Solid
<1>3. ASSUME NEW c \in T PROVE Visible(Append(e, c)) <=> Visible(e) \/ c \notin Blank
  <2>1. /\ DOMAIN Append(e, c) = DOMAIN e \cup {Len(e) + 1}
        /\ \A i \in DOMAIN e : Append(e, c)[i] = e[i]
        /\ Append(e, c)[Len(e) + 1] = c
    OBVIOUS
  <2> QED
    BY <2>1 DEF Visible
<1> QED
  BY <1>2, <1>3

(* Text with a character that is neither blank nor a slash has one.         *)
LEMMA SplitKeeps ==
    ASSUME NEW S, NEW text \in Seq(S),
           \E i \in DOMAIN text : text[i] \notin Blank \cup {"/"}
    PROVE  Solid(Split(text))
<1> DEFINE T == S \ {"/"}
           Says(t) == \E i \in DOMAIN t : t[i] \notin Blank \cup {"/"}
           G == {t \in Seq(S) : Says(t) => Solid(Split(t))}
<1>1. <<>> \in G
  BY EmptySeq
<1>2. ASSUME NEW t \in Seq(S), NEW c \in S, t \in G PROVE Append(t, c) \in G
  <2>1. /\ DOMAIN Append(t, c) = DOMAIN t \cup {Len(t) + 1}
        /\ \A i \in DOMAIN t : Append(t, c)[i] = t[i]
        /\ Append(t, c)[Len(t) + 1] = c /\ Append(t, c) \in Seq(S)
    OBVIOUS
  <2>2. Says(Append(t, c)) => Says(t) \/ c \notin Blank \cup {"/"}
    BY <2>1
  <2>3. Says(t) => Solid(Split(t))
    BY <1>2
  <2> HIDE DEF T, Says
  <2>4. PICK r \in Seq(Seq(T)), e \in Seq(T) : Split(t) = Append(r, e)
    <3>1. Split(t) \in Seq(Seq(T)) /\ Split(t) # <<>>
      BY SplitType DEF T
    <3> QED
      BY <3>1, SequenceEmptyOrAppend
  <2>5. Split(Append(t, c)) = SplitStep(Append(r, e), c)
    BY <2>4, SplitAppend
  <2>6. CASE c = "/"
    <3>1. Append(r, e) \in Seq(Seq(T)) /\ <<>> \in Seq(T)
      BY AppendProperties, EmptySeq
    <3>2. Solid(Append(r, e)) => Solid(Append(Append(r, e), <<>>))
      BY <3>1, SolidAppend
    <3>3. Split(Append(t, c)) = Append(Append(r, e), <<>>)
      BY <2>5, <2>6, SplitStepAppend
    <3> QED
      BY <2>1, <2>2, <2>3, <2>4, <2>6, <3>2, <3>3
  <2>7. CASE c # "/"
    <3>1. c \in T /\ Append(e, c) \in Seq(T)
      BY <2>7, AppendProperties DEF T
    <3>2. Solid(Append(r, e)) \/ c \notin Blank => Solid(Append(r, Append(e, c)))
      BY <3>1, SolidAppend
    <3>3. Split(Append(t, c)) = Append(r, Append(e, c))
      BY <2>5, <2>7, <3>1, SplitStepAppend
    <3> QED
      BY <2>1, <2>2, <2>3, <2>4, <2>7, <3>2, <3>3
  <2> QED
    BY <2>6, <2>7
<1>3. Seq(S) \subseteq G
  <2> HIDE DEF G
  <2> QED
    BY <1>1, <1>2, Growing
<1> QED
  BY <1>3

-----------------------------------------------------------------------------
(* Join.                                                                    *)

(* A function on every element of a sequence.                               *)
Maps(U, V) == [U -> V]
Mapped(f, t) == [i \in DOMAIN t |-> f[t[i]]]

(* A map keeps the length of a sequence and its places.                     *)
LEMMA MapType ==
    ASSUME NEW U, NEW V, NEW f \in Maps(U, V), NEW t \in Seq(U)
    PROVE  /\ Mapped(f, t) \in Seq(V) /\ Len(Mapped(f, t)) = Len(t)
           /\ \A i \in 1 .. Len(t) : Mapped(f, t)[i] = f[t[i]]
           /\ Mapped(f, <<>>) = <<>>
<1>1. DOMAIN t = 1 .. Len(t) /\ Len(t) \in Nat /\ \A i \in 1 .. Len(t) : t[i] \in U
  OBVIOUS
<1>2. Mapped(f, t) \in [1 .. Len(t) -> V]
  BY <1>1 DEF Mapped, Maps
<1>3. Mapped(f, t) \in Seq(V)
  BY <1>1, <1>2, SeqDef
<1>4. Len(Mapped(f, t)) = Len(t)
  BY <1>1, <1>2, <1>3, LenProperties
<1>5. Mapped(f, <<>>) = <<>>
  BY DEF Mapped
<1> QED
  BY <1>1, <1>3, <1>4, <1>5 DEF Mapped

(* A map of two sequences in a row is their maps in a row.                  *)
LEMMA MapConcat ==
    ASSUME NEW U, NEW V, NEW f \in Maps(U, V), NEW a \in Seq(U), NEW b \in Seq(U)
    PROVE  Mapped(f, a \o b) = Mapped(f, a) \o Mapped(f, b)
<1> DEFINE c == a \o b
           l == Mapped(f, c)
           r == Mapped(f, a) \o Mapped(f, b)
           n == Len(a) + Len(b)
<1>1. /\ c \in Seq(U) /\ Len(c) = n /\ n \in Nat /\ Len(a) \in Nat /\ Len(b) \in Nat
      /\ \A i \in 1 .. n : c[i] = IF i <= Len(a) THEN a[i] ELSE b[i - Len(a)]
  BY ConcatProperties
<1>2. l \in Seq(V) /\ Len(l) = n /\ \A i \in 1 .. n : l[i] = f[c[i]]
  <2>1. \A x \in Seq(U) : /\ Mapped(f, x) \in Seq(V) /\ Len(Mapped(f, x)) = Len(x)
                           /\ \A i \in 1 .. Len(x) : Mapped(f, x)[i] = f[x[i]]
    BY MapType
  <2> HIDE DEF c, n
  <2> QED
    BY <1>1, <2>1
<1>3. /\ Mapped(f, a) \in Seq(V) /\ Mapped(f, b) \in Seq(V)
      /\ Len(Mapped(f, a)) = Len(a) /\ Len(Mapped(f, b)) = Len(b)
      /\ \A i \in 1 .. Len(a) : Mapped(f, a)[i] = f[a[i]]
      /\ \A i \in 1 .. Len(b) : Mapped(f, b)[i] = f[b[i]]
  BY MapType
<1>4. /\ r \in Seq(V) /\ Len(r) = n
      /\ \A i \in 1 .. n : r[i] = IF i <= Len(a) THEN Mapped(f, a)[i]
                                  ELSE Mapped(f, b)[i - Len(a)]
  <2>1. \A x, y \in Seq(V) :
            /\ x \o y \in Seq(V) /\ Len(x \o y) = Len(x) + Len(y)
            /\ \A i \in 1 .. Len(x) + Len(y) :
                   (x \o y)[i] = IF i <= Len(x) THEN x[i] ELSE y[i - Len(x)]
    BY ConcatProperties
  <2> DEFINE x == Mapped(f, a)
             y == Mapped(f, b)
  <2>2. r = x \o y /\ x \in Seq(V) /\ y \in Seq(V) /\ Len(x) = Len(a) /\ Len(y) = Len(b)
    BY <1>3
  <2>3. n = Len(x) + Len(y)
    BY <2>2
  <2> HIDE DEF x, y, r, n
  <2>4. /\ r \in Seq(V) /\ Len(r) = n
        /\ \A i \in 1 .. n : r[i] = IF i <= Len(x) THEN x[i] ELSE y[i - Len(x)]
    BY <2>1, <2>2, <2>3
  <2> QED
    BY <2>2, <2>4 DEF x, y
<1>5. ASSUME NEW i \in 1 .. n PROVE l[i] = r[i]
  <2>1. i <= Len(a) => i \in 1 .. Len(a)
    BY <1>1
  <2>2. ~(i <= Len(a)) => i - Len(a) \in 1 .. Len(b)
    BY <1>1
  <2> HIDE DEF l, r, c, n
  <2>3. l[i] = f[c[i]]
    BY <1>2
  <2>4. CASE i <= Len(a)
    <3>1. c[i] = a[i] /\ r[i] = Mapped(f, a)[i]
      BY <1>1, <1>4, <2>4
    <3> QED
      BY <1>3, <2>1, <2>3, <2>4, <3>1
  <2>5. CASE ~(i <= Len(a))
    <3>1. c[i] = b[i - Len(a)] /\ r[i] = Mapped(f, b)[i - Len(a)]
      BY <1>1, <1>4, <2>5
    <3> QED
      BY <1>3, <2>2, <2>3, <2>5, <3>1
  <2> QED
    BY <2>4, <2>5
<1> HIDE DEF l, r, n
<1>6. l = r
  BY <1>2, <1>4, <1>5, SeqEqual
<1> QED
  BY <1>6 DEF l, r

(* And of one more element one more image.                                  *)
LEMMA MapAppend ==
    ASSUME NEW U, NEW V, NEW f \in Maps(U, V), NEW t \in Seq(U), NEW e \in U
    PROVE  Mapped(f, Append(t, e)) = Append(Mapped(f, t), f[e]) /\ f[e] \in V
<1>1. Append(t, e) = t \o <<e>> /\ <<e>> \in Seq(U) /\ f[e] \in V
  BY AppendIsConcat DEF Maps
<1>2. Mapped(f, t \o <<e>>) = Mapped(f, t) \o Mapped(f, <<e>>)
  <2>1. \A b \in Seq(U) : Mapped(f, t \o b) = Mapped(f, t) \o Mapped(f, b)
    BY MapConcat
  <2> QED
    BY <1>1, <2>1
<1>3. Mapped(f, <<e>>) = <<f[e]>>
  BY DEF Mapped
<1>4. Mapped(f, t) \in Seq(V)
  BY MapType
<1> QED
  BY <1>1, <1>2, <1>3, <1>4, AppendIsConcat

(* One segment more comes after a slash.                                    *)
LEMMA JoinAppend ==
    ASSUME NEW S, "/" \in S, NEW segs \in Seq(Seq(S)), NEW s \in Seq(S)
    PROVE  /\ Join(<<s>>) = s
           /\ Join(segs) \in Seq(S)
           /\ segs # <<>> => Join(Append(segs, s)) = (Join(segs) \o <<"/">>) \o s
<1> DEFINE f == [w \in Seq(S) |-> <<"/">> \o w]
           Slashed(t) == FlattenSeq(Mapped(f, t))
<1>1. <<"/">> \in Seq(S) /\ f \in Maps(Seq(S), Seq(S))
  <2>1. <<"/">> \in Seq(S)
    OBVIOUS
  <2>2. \A w \in Seq(S) : <<"/">> \o w \in Seq(S)
    BY <2>1, ConcatProperties
  <2> QED
    BY <2>1, <2>2 DEF Maps
<1>2. \A w \in Seq(S) : f[w] = <<"/">> \o w
  OBVIOUS
<1>3. ASSUME NEW g \in Seq(Seq(S)), g # <<>>
      PROVE  Join(g) = Head(g) \o Slashed(Tail(g)) /\ Head(g) \in Seq(S)
             /\ Tail(g) \in Seq(Seq(S))
  <2>1. Head(g) \in Seq(S) /\ Tail(g) \in Seq(Seq(S))
    BY <1>3, HeadTailProperties
  <2>2. [i \in DOMAIN Tail(g) |-> <<"/">> \o Tail(g)[i]] = Mapped(f, Tail(g))
    <3>1. \A i \in DOMAIN Tail(g) : Tail(g)[i] \in Seq(S)
      BY <2>1
    <3> HIDE DEF f
    <3> QED
      BY <1>2, <3>1 DEF Mapped
  <2> QED
    BY <1>3, <2>1, <2>2 DEF Join
<1> HIDE DEF f
<1>4. ASSUME NEW t \in Seq(Seq(S))
      PROVE  Slashed(t) \in Seq(S) /\ Slashed(<<>>) = <<>>
  <2>1. Mapped(f, t) \in Seq(Seq(S)) /\ Mapped(f, <<>>) = <<>>
    BY <1>1, MapType
  <2>2. FlattenSeq(Mapped(f, t)) \in Seq(S) /\ FlattenSeq(<<>>) = <<>>
    <3>1. \A m \in Seq(Seq(S)) : FlattenSeq(m) \in Seq(S)
      BY FlattenType
    <3> QED
      BY <2>1, <3>1 DEF FlattenSeq
  <2> QED
    BY <2>1, <2>2
<1>5. ASSUME NEW t \in Seq(Seq(S))
      PROVE  Slashed(Append(t, s)) = Slashed(t) \o (<<"/">> \o s)
  <2>1. Mapped(f, Append(t, s)) = Append(Mapped(f, t), f[s]) /\ f[s] \in Seq(S)
    <3>1. \A e \in Seq(S) : /\ Mapped(f, Append(t, e)) = Append(Mapped(f, t), f[e])
                           /\ f[e] \in Seq(S)
      BY <1>1, MapAppend
    <3> QED
      BY <3>1
  <2>2. Mapped(f, t) \in Seq(Seq(S)) /\ f[s] \in Seq(S)
    BY <1>1, <2>1, MapType
  <2>3. \A m \in Seq(Seq(S)), e \in Seq(S) : FlattenSeq(Append(m, e)) = FlattenSeq(m) \o e
    BY FlattenConcat
  <2> QED
    BY <1>2, <2>1, <2>2, <2>3
<1> HIDE DEF Slashed
<1>6. Join(<<s>>) = s
  <2>1. <<s>> \in Seq(Seq(S)) /\ <<s>> # <<>> /\ Head(<<s>>) = s /\ Tail(<<s>>) = <<>>
    OBVIOUS
  <2>2. Join(<<s>>) = Head(<<s>>) \o Slashed(Tail(<<s>>))
    BY <1>3, <2>1
  <2>3. Slashed(<<>>) = <<>> /\ s \o <<>> = s
    BY <1>4, ConcatEmptySeq
  <2> QED
    BY <2>1, <2>2, <2>3
<1>7. Join(segs) \in Seq(S)
  <2>1. CASE segs = <<>>
    BY <2>1, EmptySeq DEF Join
  <2>2. CASE segs # <<>>
    <3>1. Join(segs) = Head(segs) \o Slashed(Tail(segs)) /\ Head(segs) \in Seq(S)
          /\ Slashed(Tail(segs)) \in Seq(S)
      BY <1>3, <1>4, <2>2
    <3> QED
      BY <3>1, ConcatProperties
  <2> QED
    BY <2>1, <2>2
<1>8. ASSUME segs # <<>> PROVE Join(Append(segs, s)) = (Join(segs) \o <<"/">>) \o s
  <2> DEFINE h == Head(segs)
             t == Slashed(Tail(segs))
             more == Append(segs, s)
  <2>1. /\ more \in Seq(Seq(S)) /\ more # <<>>
        /\ Head(more) = Head(segs) /\ Tail(more) = Append(Tail(segs), s)
    BY <1>8, HeadTailAppend, AppendProperties
  <2>2. /\ Join(segs) = h \o t /\ h \in Seq(S) /\ Tail(segs) \in Seq(Seq(S))
        /\ Join(more) = Head(more) \o Slashed(Tail(more))
    BY <1>3, <1>8, <2>1
  <2>3. Slashed(Tail(more)) = t \o (<<"/">> \o s) /\ t \in Seq(S)
    BY <1>4, <1>5, <2>1, <2>2
  <2>4. Join(more) = h \o (t \o (<<"/">> \o s))
    BY <2>1, <2>2, <2>3
  <2> HIDE DEF h, t, more
  <2>5. h \in Seq(S) /\ t \in Seq(S) /\ <<"/">> \in Seq(S) /\ h \o t \in Seq(S)
        /\ <<"/">> \o s \in Seq(S)
    BY <1>1, <2>2, <2>3, ConcatProperties
  <2>6. h \o (t \o (<<"/">> \o s)) = (h \o t) \o (<<"/">> \o s)
    BY <2>5, ConcatAssociative
  <2>7. (h \o t) \o (<<"/">> \o s) = ((h \o t) \o <<"/">>) \o s
    BY <2>5, ConcatAssociative
  <2> QED
    BY <2>2, <2>4, <2>6, <2>7 DEF more
<1> QED
  BY <1>6, <1>7, <1>8

(* Split undoes Join, so a topic tells its segments.                        *)
LEMMA SplitJoin ==
    ASSUME NEW S, "/" \in S, NEW segs \in Seq(Seq(S \ {"/"})), segs # <<>>
    PROVE  Split(Join(segs)) = segs
<1> DEFINE T == S \ {"/"}
           G == {g \in Seq(Seq(T)) : g # <<>> => Split(Join(g)) = g}
<1>0. Seq(T) \subseteq Seq(S) /\ Seq(Seq(T)) \subseteq Seq(Seq(S))
  <2>1. Seq(T) \subseteq Seq(S)
    BY SeqMonotonic
  <2> HIDE DEF T
  <2> QED
    BY <2>1, SeqMonotonic
<1>1. <<>> \in G
  BY EmptySeq
<1>2. ASSUME NEW g \in Seq(Seq(T)), NEW w \in Seq(T), g \in G PROVE Append(g, w) \in G
  <2>1. g \in Seq(Seq(S)) /\ w \in Seq(S) /\ w \in Seq(S \ {"/"})
    BY <1>0
  <2>2. Append(g, w) \in Seq(Seq(T))
    OBVIOUS
  <2>3. g # <<>> => Split(Join(g)) = g
    BY <1>2
  <2> HIDE DEF T, G
  <2>4. CASE g = <<>>
    <3>1. Append(g, w) = <<w>>
      BY <2>4
    <3>2. Join(<<w>>) = w /\ Split(w) = <<w>>
      BY <2>1, JoinAppend, SplitSlash
    <3> QED
      BY <2>2, <3>1, <3>2 DEF G
  <2>5. CASE g # <<>>
    <3>1. Join(Append(g, w)) = (Join(g) \o <<"/">>) \o w /\ Join(g) \in Seq(S)
      BY ZenonT(40), <2>1, <2>5, JoinAppend
    <3>2. \A t \in Seq(S) : Split((t \o <<"/">>) \o w) = Append(Split(t), w)
      BY <2>1, SplitSlash
    <3> QED
      BY <2>2, <2>3, <2>5, <3>1, <3>2 DEF G
  <2> QED
    BY <2>4, <2>5
<1> HIDE DEF G
<1>3. Seq(Seq(T)) \subseteq G
  <2>1. ASSUME NEW U, U = Seq(T) PROVE Seq(U) \subseteq G
    BY <1>1, <1>2, <2>1, Growing
  <2> QED
    BY <2>1
<1> QED
  BY <1>3 DEF G

(* A text that continues another.                                           *)
Continues(S, i, w) == \E j \in Seq(S) : w = i \o j

(* What continues a continuation continues the first text.                  *)
LEMMA GoesOn ==
    ASSUME NEW S, NEW i \in Seq(S), NEW k \in Seq(S), NEW l \in Seq(S), NEW w,
           Continues(S, i, w)
    PROVE  Continues(S, i, (w \o k) \o l)
<1>1. PICK j \in Seq(S) : w = i \o j
  BY DEF Continues
<1> DEFINE m == j \o k
<1>2. (i \o j) \o k = i \o m /\ m \in Seq(S)
  BY ConcatAssociative, ConcatProperties
<1> HIDE DEF m
<1>3. (i \o m) \o l = i \o (m \o l) /\ m \o l \in Seq(S)
  BY SMTT(20), <1>2, ConcatAssociative, ConcatProperties
<1> QED
  BY <1>1, <1>2, <1>3 DEF Continues

(* It begins with that one.                                                 *)
LEMMA BeginsWith ==
    ASSUME NEW S, NEW s \in Seq(S), NEW t, Continues(S, s, t)
    PROVE  IsPrefix(s, t)
<1>1. PICK u \in Seq(S) : t = s \o u
  BY DEF Continues
<1>2. Len(s) \in Nat /\ Len(s) <= Len(s \o u)
  BY ConcatProperties
<1>3. SubSeq(s, 1, Len(s)) = SubSeq(s \o u, 1, Len(s))
  <2>1. CASE Len(s) = 0
    BY <2>1, SubSeqEmpty
  <2>2. CASE Len(s) # 0
    <3>1. 1 \in 1 .. Len(s) /\ Len(s) \in 1 .. Len(s)
      BY <1>2, <2>2
    <3> QED
      BY <3>1, SubSeqOfConcat1
  <2> QED
    BY <2>1, <2>2
<1> QED
  BY <1>1, <1>2, <1>3 DEF IsPrefix

(* More segments continue a topic.                                          *)
LEMMA JoinConcat ==
    ASSUME NEW S, "/" \in S, NEW a \in Seq(Seq(S)), a # <<>>, NEW b \in Seq(Seq(S))
    PROVE  Continues(S, Join(a), Join(a \o b))
<1> DEFINE G == {t \in Seq(Seq(S)) : Continues(S, Join(a), Join(a \o t))}
<1>1. Join(a) \in Seq(S)
  <2>1. <<>> \in Seq(S)
    BY EmptySeq
  <2> QED
    BY <2>1, JoinAppend
<1>2. <<>> \in G
  <2>1. a \o <<>> = a /\ Join(a) \o <<>> = Join(a) /\ <<>> \in Seq(S) /\ <<>> \in Seq(Seq(S))
    BY <1>1, ConcatEmptySeq, EmptySeq
  <2> QED
    BY <2>1 DEF Continues
<1>3. ASSUME NEW t \in Seq(Seq(S)), NEW e \in Seq(S), t \in G PROVE Append(t, e) \in G
  <2>1. Continues(S, Join(a), Join(a \o t))
    BY <1>3
  <2> HIDE DEF G
  <2>2. a \o Append(t, e) = Append(a \o t, e)
    BY SMTT(20), ConcatAppend
  <2>3. a \o t \in Seq(Seq(S)) /\ Append(t, e) \in Seq(Seq(S))
    BY ConcatProperties, AppendProperties
  <2>4. a \o t # <<>>
    BY ConcatEqualIffEmpty
  <2>5. Join(Append(a \o t, e)) = (Join(a \o t) \o <<"/">>) \o e
    <3>1. \A g \in Seq(Seq(S)) : g # <<>> => Join(Append(g, e)) = (Join(g) \o <<"/">>) \o e
      BY JoinAppend
    <3> QED
      BY <2>3, <2>4, <3>1
  <2>6. Continues(S, Join(a), (Join(a \o t) \o <<"/">>) \o e)
    <3>1. <<"/">> \in Seq(S)
      OBVIOUS
    <3> QED
      BY <1>1, <2>1, <3>1, GoesOn
  <2> QED
    BY <2>2, <2>3, <2>5, <2>6 DEF G
<1> HIDE DEF G
<1>4. Seq(Seq(S)) \subseteq G
  <2>1. ASSUME NEW U, U = Seq(S) PROVE Seq(U) \subseteq G
    BY <1>2, <1>3, <2>1, Growing
  <2> QED
    BY <2>1
<1> QED
  BY <1>4 DEF G

-----------------------------------------------------------------------------
(* Segments of a topic: written, and without a slash.                       *)
Segments(S) == Seq(S \ {"/"}) \ {<<>>}

\* The characters that a topic may get without being in its text.
Literals == {"/", "-", "a", "mac", "default"}

(* Trim leaves nothing of blanks, and something of every other text.        *)
LEMMA TrimBlank ==
    ASSUME NEW S, NEW text \in Seq(S)
    PROVE  Trim(text, Blank) # <<>> <=> Visible(text)
<1> DEFINE kept == {i \in DOMAIN text : text[i] \notin Blank}
<1>1. Visible(text) <=> kept # {}
  BY DEF Visible
<1>2. kept = {} => Trim(text, Blank) = <<>>
  BY DEF Trim
<1>3. ASSUME kept # {} PROVE Trim(text, Blank) # <<>>
  <2>1. kept \in SUBSET (0 .. Len(text)) /\ Len(text) \in Nat
    OBVIOUS
  <2>2. Trim(text, Blank) = SubSeq(text, Min(kept), Max(kept))
    BY <1>3 DEF Trim
  <2>3. Min(kept) \in kept /\ Max(kept) \in kept /\ Min(kept) <= Max(kept)
    <3> HIDE DEF kept
    <3> QED
      BY <1>3, <2>1, MinMax
  <2>4. Min(kept) \in 1 .. Len(text) /\ Max(kept) \in 1 .. Len(text)
    BY <2>3
  <2> DEFINE a == Min(kept)
             b == Max(kept)
  <2>5. a \in 1 .. Len(text) /\ b \in 1 .. Len(text) /\ a <= b
        /\ Trim(text, Blank) = SubSeq(text, a, b)
    BY <2>2, <2>3, <2>4
  <2> HIDE DEF a, b
  <2>6. Len(SubSeq(text, a, b)) = b - a + 1
    BY <2>1, <2>5, SubSeqProperties
  <2>7. b - a + 1 # 0 /\ Len(<<>>) = 0
    BY <2>1, <2>5
  <2> QED
    BY <2>5, <2>6, <2>7
<1> QED
  BY <1>1, <1>2, <1>3

(* Trim leaves a single character that it does not cut.                     *)
LEMMA TrimOne ==
    ASSUME NEW S, NEW c \in S, NEW cut, c \notin cut
    PROVE  Trim(<<c>>, cut) = <<c>>
<1>1. {i \in DOMAIN <<c>> : <<c>>[i] \notin cut} = {1}
  <2>1. DOMAIN <<c>> = {1}
    OBVIOUS
  <2>2. <<c>>[1] = c
    OBVIOUS
  <2> QED
    BY <2>1, <2>2
<1>2. Min({1}) = 1 /\ Max({1}) = 1
  <2>1. 1 \in Nat /\ {1} \in SUBSET (0 .. 1) /\ {1} # {}
    OBVIOUS
  <2>2. Min({1}) \in {1} /\ Max({1}) \in {1}
    BY <2>1, MinMax
  <2> QED
    BY <2>2
<1>3. SubSeq(<<c>>, 1, 1) = <<c>>
  <2>1. <<c>> \in Seq(S) /\ Len(<<c>>) = 1
    OBVIOUS
  <2> QED
    BY <2>1, SubSeqFull
<1> QED
  BY <1>1, <1>2, <1>3 DEF Trim

Kept(S) == {c \in S : InTopic(c)}

(* A run of characters becomes dashes and characters that a topic keeps.    *)
LEMMA DashedType ==
    ASSUME NEW S, Literals \subseteq S, NEW text \in Seq(S)
    PROVE  Dashed(text) \in Seq(Kept(S)) /\ Dashed(text) \in Seq(S \ {"/"})
<1> DEFINE T == Kept(S)
           m == [i \in DOMAIN text |->
                    IF InTopic(text[i]) THEN <<text[i]>>
                    ELSE IF i = 1 \/ InTopic(text[i - 1]) THEN <<"-">> ELSE <<>>]
<1>1. DOMAIN text = 1 .. Len(text) /\ Len(text) \in Nat
      /\ \A i \in 1 .. Len(text) : text[i] \in S
  OBVIOUS
<1>2. "-" \in T
  <2>1. InId("-") /\ Lower("-") = "-" /\ "-" # "."
    BY DEF InId, Blank, Wildcards, Lower
  <2> QED
    BY <2>1 DEF Literals, InTopic, Kept
<1>3. \A c \in S : InTopic(c) => c \in T
  BY DEF Kept
<1>4. <<"-">> \in Seq(T) /\ <<>> \in Seq(T) /\ \A c \in T : <<c>> \in Seq(T)
  <2> HIDE DEF T
  <2> QED
    BY <1>2
<1> HIDE DEF T
<1>5. ASSUME NEW i \in 1 .. Len(text) PROVE m[i] \in Seq(T)
  <2>1. CASE InTopic(text[i])
    <3>1. text[i] \in T /\ m[i] = <<text[i]>>
      BY <1>1, <1>3, <2>1
    <3> QED
      BY <1>4, <3>1
  <2>2. CASE ~InTopic(text[i])
    <3>1. m[i] = <<"-">> \/ m[i] = <<>>
      BY <1>1, <2>2
    <3> QED
      BY <1>4, <3>1
  <2> QED
    BY <2>1, <2>2
<1>6. m = [i \in 1 .. Len(text) |-> m[i]]
  BY <1>1
<1> HIDE DEF m
<1>7. m \in [1 .. Len(text) -> Seq(T)]
  BY <1>5, <1>6
<1>8. m \in Seq(Seq(T))
  BY <1>1, <1>7, SeqDef
<1>9. FlattenSeq(m) \in Seq(T)
  BY <1>8, FlattenType
<1>10. Kept(S) \subseteq S \ {"/"}
  BY DEF Kept, InTopic, InId
<1>11. Seq(Kept(S)) \subseteq Seq(S \ {"/"})
  BY <1>10, SeqMonotonic
<1> QED
  BY <1>9, <1>11 DEF Dashed, m, T

(* TopicSegment makes a segment of any text.                                *)
LEMMA SegmentType ==
    ASSUME NEW S, Literals \subseteq S, NEW text \in Seq(S)
    PROVE  TopicSegment(text) \in Segments(S)
<1> DEFINE T == S \ {"/"}
           low == [i \in DOMAIN text |-> Lower(text[i])]
           value == Trim(low, Blank)
<1>1. low \in Seq(S)
  <2>1. \A c \in S : Lower(c) \in S
    <3>1. "a" \in S
      BY DEF Literals
    <3> QED
      BY <3>1 DEF Lower
  <2>2. DOMAIN text = 1 .. Len(text) /\ Len(text) \in Nat
        /\ \A i \in 1 .. Len(text) : text[i] \in S
    OBVIOUS
  <2>3. low \in [1 .. Len(text) -> S]
    BY <2>1, <2>2
  <2> HIDE DEF low
  <2> QED
    BY <2>2, <2>3, SeqDef
<1> HIDE DEF low
<1>2. value \in Seq(S)
  BY <1>1, Trimmed
<1> HIDE DEF value
<1>3. Dashed(value) \in Seq(T)
  BY <1>2, DashedType
<1>4. <<"default">> \in Seq(T) /\ <<"default">> # <<>>
  <2>1. "default" \in T
    BY DEF Literals
  <2> HIDE DEF T
  <2> QED
    BY <2>1
<1> HIDE DEF T
<1>5. Trim(Dashed(value), {"-"}) \in Seq(T)
  BY <1>3, Trimmed
<1>6. TopicSegment(text) = Or(Trim(Dashed(value), {"-"}), <<"default">>)
  BY DEF TopicSegment, value, low
<1> QED
  BY <1>4, <1>5, <1>6 DEF Or, T, Segments

(* A word that a topic keeps stays as it is.                                *)
LEMMA WordStays ==
    ASSUME NEW c, InTopic(c), c # "-"
    PROVE  TopicSegment(<<c>>) = <<c>>
<1>1. c \notin Blank /\ Lower(c) = c
  BY DEF InTopic, InId
<1>2. [i \in DOMAIN <<c>> |-> Lower(<<c>>[i])] = <<c>>
  BY <1>1
<1>3. Trim(<<c>>, Blank) = <<c>> /\ Trim(<<c>>, {"-"}) = <<c>>
  BY <1>1, TrimOne
<1>4. Dashed(<<c>>) = <<c>>
  <2> DEFINE m == [i \in DOMAIN <<c>> |->
                      IF InTopic(<<c>>[i]) THEN << <<c>>[i]>>
                      ELSE IF i = 1 \/ InTopic(<<c>>[i - 1]) THEN <<"-">> ELSE <<>>]
  <2>1. m = << <<c>> >>
    OBVIOUS
  <2>2. Dashed(<<c>>) = FlattenSeq(m)
    BY DEF Dashed
  <2>3. FlattenSeq(<< <<c>> >>) = <<c>>
    <3>1. <<>> \in Seq(Seq({c})) /\ <<c>> \in Seq({c})
      OBVIOUS
    <3>2. << <<c>> >> = Append(<<>>, <<c>>)
      OBVIOUS
    <3>3. \A q \in Seq(Seq({c})), w \in Seq({c}) : q = <<>> => FlattenSeq(Append(q, w)) = w
      BY FlattenAppend
    <3> QED
      BY <3>1, <3>2, <3>3
  <2> QED
    BY <2>1, <2>2, <2>3
<1> QED
  BY <1>2, <1>3, <1>4 DEF TopicSegment, Or

-----------------------------------------------------------------------------
(* joinTopic.  What it makes of one part, and of all.                       *)
Part(text) == clean(Split(text))
Segs(parts) == clean(FlattenSeq([i \in DOMAIN parts |-> Split(parts[i])]))

CleanOne(s) == IF Trim(s, Blank) = <<>> THEN <<>> ELSE <<TopicSegment(s)>>

(* clean goes segment by segment, and drops blanks.                         *)
LEMMA CleanConcat ==
    ASSUME NEW S, Literals \subseteq S, NEW a \in Seq(Seq(S)), NEW b \in Seq(Seq(S))
    PROVE  /\ clean(a) \in Seq(Segments(S))
           /\ clean(a \o b) = clean(a) \o clean(b)
           /\ \A s \in Seq(S) : clean(<<s>>) = CleanOne(s)
<1> DEFINE W == Segments(S)
           f == [s \in Seq(S) |-> CleanOne(s)]
<1>1. f \in Maps(Seq(S), Seq(W))
  <2>1. ASSUME NEW s \in Seq(S) PROVE CleanOne(s) \in Seq(W)
    <3>1. TopicSegment(s) \in W
      BY SegmentType
    <3> HIDE DEF W
    <3>2. <<>> \in Seq(W) /\ <<TopicSegment(s)>> \in Seq(W)
      BY <3>1
    <3> QED
      BY <3>2 DEF CleanOne
  <2> HIDE DEF W
  <2> QED
    BY <2>1 DEF Maps
<1>2. ASSUME NEW g \in Seq(Seq(S))
      PROVE  clean(g) = FlattenSeq(Mapped(f, g))
  <2>1. \A i \in DOMAIN g : g[i] \in Seq(S)
    OBVIOUS
  <2>2. \A i \in DOMAIN g : f[g[i]] = CleanOne(g[i])
    BY <2>1
  <2> HIDE DEF f
  <2>3. [i \in DOMAIN g |-> CleanOne(g[i])] = Mapped(f, g)
    BY <2>2 DEF Mapped
  <2> QED
    BY <2>3 DEF clean, CleanOne
<1>3. \A s \in Seq(S) : f[s] = CleanOne(s)
  OBVIOUS
<1> HIDE DEF f, W
<1>4. \A g \in Seq(Seq(S)) : Mapped(f, g) \in Seq(Seq(W))
  BY <1>1, MapType
<1>5. clean(a) \in Seq(W)
  <2>1. \A m \in Seq(Seq(W)) : FlattenSeq(m) \in Seq(W)
    BY FlattenType
  <2> QED
    BY <1>2, <1>4, <2>1
<1>6. clean(a \o b) = clean(a) \o clean(b)
  <2>1. a \o b \in Seq(Seq(S))
    BY ConcatProperties
  <2>2. Mapped(f, a \o b) = Mapped(f, a) \o Mapped(f, b)
    BY <1>1, MapConcat
  <2>3. \A m, n \in Seq(Seq(W)) : FlattenSeq(m \o n) = FlattenSeq(m) \o FlattenSeq(n)
    BY FlattenConcat
  <2> QED
    BY <1>2, <1>4, <2>1, <2>2, <2>3
<1>7. ASSUME NEW s \in Seq(S) PROVE clean(<<s>>) = CleanOne(s)
  <2>1. <<>> \in Seq(Seq(S)) /\ <<s>> = Append(<<>>, s) /\ <<s>> \in Seq(Seq(S))
    OBVIOUS
  <2>2. Mapped(f, <<>>) = <<>>
    BY DEF Mapped
  <2>3. Mapped(f, <<s>>) = <<f[s]>> /\ f[s] \in Seq(W)
    <3>1. Mapped(f, <<s>>) = <<f[s]>>
      BY DEF Mapped
    <3>2. \A t \in Seq(Seq(S)) : f[s] \in Seq(W)
      BY <1>1, MapAppend
    <3> QED
      BY <2>1, <3>1, <3>2
  <2>4. FlattenSeq(<<f[s]>>) = f[s]
    <3>1. \A q \in Seq(Seq(W)), w \in Seq(W) : q = <<>> => FlattenSeq(Append(q, w)) = w
      BY FlattenAppend
    <3>2. <<>> \in Seq(Seq(W)) /\ <<f[s]>> = Append(<<>>, f[s])
      OBVIOUS
    <3> QED
      BY <2>3, <3>1, <3>2
  <2> QED
    BY <1>2, <1>3, <2>1, <2>3, <2>4
<1> QED
  BY <1>5, <1>6, <1>7 DEF W

(* A solid sequence of segments does not become empty.                      *)
LEMMA CleanKeeps ==
    ASSUME NEW S, Literals \subseteq S, NEW segs \in Seq(Seq(S)), Solid(segs)
    PROVE  clean(segs) # <<>>
<1> DEFINE G == {g \in Seq(Seq(S)) : Solid(g) => clean(g) # <<>>}
<1>1. <<>> \in G
  BY EmptySeq DEF Solid
<1>2. ASSUME NEW g \in Seq(Seq(S)), NEW e \in Seq(S), g \in G PROVE Append(g, e) \in G
  <2>1. Append(g, e) \in Seq(Seq(S)) /\ (Solid(g) => clean(g) # <<>>)
    BY <1>2
  <2> HIDE DEF G
  <2>2. Solid(Append(g, e)) => Solid(g) \/ Visible(e)
    BY SolidAppend
  <2>3. Append(g, e) = g \o <<e>> /\ <<e>> \in Seq(Seq(S))
    BY AppendIsConcat
  <2>4. clean(g \o <<e>>) = clean(g) \o clean(<<e>>)
    <3>1. \A b \in Seq(Seq(S)) : clean(g \o b) = clean(g) \o clean(b)
      BY CleanConcat
    <3> QED
      BY <2>3, <3>1
  <2>5. Visible(e) => clean(<<e>>) # <<>>
    <3>1. clean(<<e>>) = CleanOne(e)
      BY CleanConcat
    <3>2. Visible(e) => Trim(e, Blank) # <<>>
      BY TrimBlank
    <3>3. Trim(e, Blank) # <<>> => CleanOne(e) = <<TopicSegment(e)>>
      BY DEF CleanOne
    <3>4. <<TopicSegment(e)>> # <<>>
      OBVIOUS
    <3> QED
      BY <3>1, <3>2, <3>3, <3>4
  <2>6. clean(g) \in Seq(Segments(S)) /\ clean(<<e>>) \in Seq(Segments(S))
    BY <2>3, CleanConcat
  <2>7. clean(g) \o clean(<<e>>) = <<>> => clean(g) = <<>> /\ clean(<<e>>) = <<>>
    BY <2>6, ConcatEqualIffEmpty
  <2> QED
    BY <2>1, <2>2, <2>3, <2>4, <2>5, <2>7 DEF G
<1> HIDE DEF G
<1>3. Seq(Seq(S)) \subseteq G
  <2>1. ASSUME NEW U, U = Seq(S) PROVE Seq(U) \subseteq G
    BY <1>1, <1>2, <2>1, Growing
  <2> QED
    BY <2>1
<1> QED
  BY <1>3 DEF G

(* What a part is made of.                                                  *)
LEMMA PartType ==
    ASSUME NEW S, Literals \subseteq S, NEW text \in Seq(S)
    PROVE  /\ Split(text) \in Seq(Seq(S)) /\ Part(text) \in Seq(Segments(S))
           /\ (\E i \in DOMAIN text : text[i] \notin Blank \cup {"/"}) => Part(text) # <<>>
<1>1. Split(text) \in Seq(Seq(S))
  <2> DEFINE T == S \ {"/"}
  <2>1. Seq(T) \subseteq Seq(S) /\ Split(text) \in Seq(Seq(T))
    BY SplitType, SeqMonotonic
  <2> HIDE DEF T
  <2>2. Seq(Seq(T)) \subseteq Seq(Seq(S))
    BY <2>1, SeqMonotonic
  <2> QED
    BY <2>1, <2>2
<1>2. Part(text) \in Seq(Segments(S))
  BY <1>1, CleanConcat DEF Part
<1> QED
  BY <1>1, <1>2, SplitKeeps, CleanKeeps DEF Part

(* A part of one segment, and one of two words.                             *)
LEMMA OnePart ==
    ASSUME NEW S, Literals \subseteq S, NEW text \in Seq(S \ {"/"}), Visible(text)
    PROVE  Part(text) = <<TopicSegment(text)>>
<1>1. text \in Seq(S) /\ <<>> \in Seq(S)
  BY SeqMonotonic, EmptySeq
<1>2. Split(text) = <<text>>
  BY <1>1, SplitSlash DEF Literals
<1>3. clean(<<text>>) = CleanOne(text)
  <2>1. <<>> \in Seq(Seq(S))
    BY EmptySeq
  <2> QED
    BY <1>1, <2>1, CleanConcat
<1>4. Trim(text, Blank) # <<>>
  BY <1>1, TrimBlank
<1> QED
  BY <1>2, <1>3, <1>4 DEF Part, CleanOne

(* A character that a topic keeps, and no dash.                             *)
Plainly(c) == InTopic(c) /\ c # "-"

(* A word of the code is one segment, and stays as it is.                   *)
LEMMA WordPart ==
    ASSUME NEW S, Literals \subseteq S, NEW c \in S, Plainly(c)
    PROVE  Part(<<c>>) = << <<c>> >> /\ <<c>> \in Segments(S) /\ CleanOne(<<c>>) = << <<c>> >>
<1>1. c \in S \ {"/"} /\ c \notin Blank
  BY DEF Plainly, InTopic, InId
<1>2. <<c>> \in Seq(S \ {"/"}) /\ <<c>> # <<>> /\ <<c>> \in Seq(S)
  <2>1. ASSUME NEW T, c \in T PROVE <<c>> \in Seq(T)
    BY <2>1
  <2> QED
    BY <1>1, <2>1
<1>3. Visible(<<c>>)
  <2>1. 1 \in DOMAIN <<c>>
    OBVIOUS
  <2>2. <<c>>[1] = c
    OBVIOUS
  <2> QED
    BY <1>1, <2>1, <2>2 DEF Visible
<1>4. TopicSegment(<<c>>) = <<c>>
  BY WordStays DEF Plainly
<1>5. Part(<<c>>) = <<TopicSegment(<<c>>)>>
  <2>1. \A t \in Seq(S \ {"/"}) : Visible(t) => Part(t) = <<TopicSegment(t)>>
    BY OnePart
  <2> QED
    BY <1>2, <1>3, <2>1
<1>6. Trim(<<c>>, Blank) # <<>>
  BY <1>1, TrimOne
<1> QED
  BY <1>2, <1>4, <1>5, <1>6 DEF Segments, CleanOne

(* Two words with a slash between them are two segments.                    *)
LEMMA TwoWords ==
    ASSUME NEW S, Literals \subseteq S, NEW c \in S, Plainly(c), NEW d \in S, Plainly(d)
    PROVE  Part(<<c, "/", d>>) = Append(<< <<c>> >>, <<d>>)
<1>1. "/" \in S /\ <<c>> \in Seq(S) /\ <<d>> \in Seq(S) /\ <<d>> \in Seq(S \ {"/"})
      /\ <<c>> \in Seq(S \ {"/"})
  <2>1. <<c>> \in Seq(S \ {"/"}) /\ <<d>> \in Seq(S \ {"/"})
    BY WordPart DEF Segments
  <2> QED
    BY <2>1 DEF Literals
<1>2. <<c, "/", d>> = (<<c>> \o <<"/">>) \o <<d>>
  OBVIOUS
<1>3. Split(<<c>>) = << <<c>> >>
  <2>1. \A w \in Seq(S \ {"/"}) : Split(w) = <<w>>
    BY <1>1, SplitSlash
  <2> QED
    BY <1>1, <2>1
<1>4. Split(<<c, "/", d>>) = Append(Split(<<c>>), <<d>>)
  <2>1. \A t \in Seq(S), w \in Seq(S \ {"/"}) : Split((t \o <<"/">>) \o w) = Append(Split(t), w)
    BY <1>1, SplitSlash
  <2>2. Split((<<c>> \o <<"/">>) \o <<d>>) = Append(Split(<<c>>), <<d>>)
    BY <1>1, <2>1
  <2> QED
    BY <1>2, <2>2
<1>5. Split(<<c, "/", d>>) = << <<c>> >> \o << <<d>> >>
  <2> DEFINE x == <<c>>
             y == <<d>>
  <2>1. Split(<<c, "/", d>>) = Append(<<x>>, y)
    BY <1>3, <1>4
  <2> HIDE DEF x, y
  <2>2. Append(<<x>>, y) = <<x>> \o <<y>>
    OBVIOUS
  <2> QED
    BY <2>1, <2>2 DEF x, y
<1>6. clean(<< <<c>> >> \o << <<d>> >>) = CleanOne(<<c>>) \o CleanOne(<<d>>)
  <2> DEFINE x == <<c>>
             y == <<d>>
  <2>1. x \in Seq(S) /\ y \in Seq(S)
    BY <1>1
  <2> HIDE DEF x, y
  <2>2. <<x>> \in Seq(Seq(S)) /\ <<y>> \in Seq(Seq(S))
    BY <2>1
  <2>3. \A a, b \in Seq(Seq(S)) : clean(a \o b) = clean(a) \o clean(b)
    BY CleanConcat
  <2>4. clean(<<x>>) = CleanOne(x) /\ clean(<<y>>) = CleanOne(y)
    BY <2>1, <2>2, CleanConcat
  <2>5. clean(<<x>> \o <<y>>) = CleanOne(x) \o CleanOne(y)
    BY <2>2, <2>3, <2>4
  <2> QED
    BY <2>5 DEF x, y
<1>7. CleanOne(<<c>>) = << <<c>> >> /\ CleanOne(<<d>>) = << <<d>> >>
  BY WordPart
<1>8. << <<c>> >> \o << <<d>> >> = Append(<< <<c>> >>, <<d>>)
  <2>1. << <<c>> >> \in Seq(Seq(S)) /\ <<d>> \in Seq(S)
    BY <1>1
  <2> QED
    BY <2>1, AppendIsConcat
<1>9. clean(Split(<<c, "/", d>>)) = Append(<< <<c>> >>, <<d>>)
  BY <1>5, <1>6, <1>7, <1>8
<1> QED
  BY <1>9 DEF Part

(* One part more.                                                           *)
LEMMA SegsAppend ==
    ASSUME NEW S, Literals \subseteq S, NEW parts \in Seq(Seq(S)), NEW p \in Seq(S)
    PROVE  /\ joinTopic(parts) = Join(Segs(parts))
           /\ Segs(<<>>) = <<>> /\ Segs(parts) \in Seq(Segments(S))
           /\ Segs(Append(parts, p)) = Segs(parts) \o Part(p)
<1> DEFINE U == Seq(S)
           f == [t \in Seq(S) |-> Split(t)]
<1>1. f \in Maps(Seq(S), Seq(U)) /\ \A t \in Seq(S) : f[t] = Split(t)
  <2>1. \A t \in Seq(S) : Split(t) \in Seq(U)
    BY PartType
  <2> QED
    BY <2>1 DEF Maps
<1>2. ASSUME NEW g \in Seq(Seq(S)) PROVE Segs(g) = clean(FlattenSeq(Mapped(f, g)))
  <2>1. \A i \in DOMAIN g : f[g[i]] = Split(g[i])
    OBVIOUS
  <2> HIDE DEF f
  <2>2. [i \in DOMAIN g |-> Split(g[i])] = Mapped(f, g)
    BY <2>1 DEF Mapped
  <2> QED
    BY <2>2 DEF Segs
<1> HIDE DEF f
<1>3. ASSUME NEW g \in Seq(Seq(S))
      PROVE  Mapped(f, g) \in Seq(Seq(U)) /\ FlattenSeq(Mapped(f, g)) \in Seq(U)
  <2>1. Mapped(f, g) \in Seq(Seq(U))
    BY <1>1, MapType
  <2> HIDE DEF U
  <2>2. \A m \in Seq(Seq(U)) : FlattenSeq(m) \in Seq(U)
    BY FlattenType
  <2> QED
    BY <2>1, <2>2
<1>4. Segs(<<>>) = <<>>
  <2>1. <<>> \in Seq(Seq(S)) /\ Mapped(f, <<>>) = <<>>
    BY DEF Mapped
  <2>2. Segs(<<>>) = clean(FlattenSeq(<<>>))
    BY <1>2, <2>1
  <2>3. FlattenSeq(<<>>) = <<>>
    BY DEF FlattenSeq
  <2>4. clean(<<>>) = <<>>
    <3>1. [i \in DOMAIN <<>> |->
              IF Trim((<<>>)[i], Blank) = <<>> THEN <<>> ELSE <<TopicSegment((<<>>)[i])>>] = <<>>
      OBVIOUS
    <3> QED
      BY <2>3, <3>1 DEF clean
  <2> QED
    BY <2>2, <2>3, <2>4
<1>5. Segs(parts) \in Seq(Segments(S))
  <2>1. \A g \in Seq(Seq(S)) : clean(g) \in Seq(Segments(S))
    BY CleanConcat
  <2> QED
    BY <1>2, <1>3, <2>1
<1>6. Segs(Append(parts, p)) = Segs(parts) \o Part(p)
  <2>1. Append(parts, p) \in Seq(Seq(S))
    OBVIOUS
  <2>2. Mapped(f, Append(parts, p)) = Append(Mapped(f, parts), f[p]) /\ f[p] \in Seq(U)
    <3>1. \A e \in Seq(S) : Mapped(f, Append(parts, e)) = Append(Mapped(f, parts), f[e])
                           /\ f[e] \in Seq(U)
      BY <1>1, MapAppend
    <3> QED
      BY <3>1
  <2>3. FlattenSeq(Append(Mapped(f, parts), f[p])) = FlattenSeq(Mapped(f, parts)) \o f[p]
    <3> HIDE DEF U
    <3>1. \A m \in Seq(Seq(U)), e \in Seq(U) : FlattenSeq(Append(m, e)) = FlattenSeq(m) \o e
      BY FlattenConcat
    <3>2. Mapped(f, parts) \in Seq(Seq(U))
      BY <1>3
    <3> QED
      BY <2>2, <3>1, <3>2
  <2>4. \A g, h \in Seq(Seq(S)) : clean(g \o h) = clean(g) \o clean(h)
    BY CleanConcat
  <2> DEFINE flat == FlattenSeq(Mapped(f, parts))
  <2>5. flat \in Seq(Seq(S)) /\ f[p] \in Seq(Seq(S)) /\ f[p] = Split(p)
    BY <1>1, <1>3, <2>2
  <2>6. Segs(Append(parts, p)) = clean(flat \o f[p])
    BY <1>2, <2>1, <2>2, <2>3
  <2>7. Segs(parts) = clean(flat)
    BY <1>2
  <2> HIDE DEF flat
  <2>8. clean(flat \o f[p]) = clean(flat) \o clean(f[p])
    BY <2>4, <2>5
  <2> QED
    BY <2>5, <2>6, <2>7, <2>8 DEF Part
<1>7. joinTopic(parts) = Join(Segs(parts))
  BY DEF joinTopic, Segs
<1> QED
  BY <1>4, <1>5, <1>6, <1>7

(* A part at the end adds its segments at the end.                          *)
LEMMA SegsMore ==
    ASSUME NEW S, Literals \subseteq S, NEW parts \in Seq(Seq(S)), NEW p \in Seq(S),
           NEW x \in Segments(S)
    PROVE  /\ Part(p) = <<x>> => Segs(Append(parts, p)) = Append(Segs(parts), x)
           /\ \A y \in Segments(S) : Part(p) = Append(<<x>>, y) =>
                  Segs(Append(parts, p)) = Append(Append(Segs(parts), x), y)
<1> DEFINE g == Segs(parts)
<1>1. g \in Seq(Segments(S)) /\ Segs(Append(parts, p)) = g \o Part(p)
  BY SegsAppend
<1> HIDE DEF g
<1>2. <<x>> \in Seq(Segments(S))
  OBVIOUS
<1>3. g \o <<x>> = Append(g, x)
  BY <1>1, AppendIsConcat
<1>4. ASSUME NEW y \in Segments(S)
      PROVE  g \o Append(<<x>>, y) = Append(g \o <<x>>, y)
  <2>1. \A b \in Seq(Segments(S)) : g \o Append(b, y) = Append(g \o b, y)
    BY <1>1, ConcatAppend
  <2> QED
    BY <1>2, <2>1
<1> QED
  BY <1>1, <1>3, <1>4 DEF g

-----------------------------------------------------------------------------
(* Normalising twice.                                                       *)

(* Trim leaves a text whose ends it does not cut.                           *)
LEMMA TrimWhole ==
    ASSUME NEW S, NEW text \in Seq(S), text # <<>>, NEW cut,
           text[1] \notin cut, text[Len(text)] \notin cut
    PROVE  Trim(text, cut) = text
<1> DEFINE kept == {i \in DOMAIN text : text[i] \notin cut}
           n == Len(text)
<1>1. n \in Nat /\ 1 \in kept /\ n \in kept /\ kept \in SUBSET (0 .. n)
  OBVIOUS
<1>2. Trim(text, cut) = SubSeq(text, Min(kept), Max(kept))
  BY <1>1 DEF Trim
<1>3. \A k \in kept : 1 <= k /\ k <= n /\ k \in Nat
  OBVIOUS
<1> HIDE DEF kept
<1>4. Min(kept) = 1 /\ Max(kept) = n
  <2>1. /\ Min(kept) \in kept /\ \A k \in kept : Min(kept) <= k
        /\ Max(kept) \in kept /\ \A k \in kept : Max(kept) >= k
    BY <1>1, MinMax
  <2> DEFINE a == Min(kept)
             b == Max(kept)
  <2>2. a <= 1 /\ b >= n /\ 1 <= a /\ b <= n /\ a \in Nat /\ b \in Nat
    BY <1>1, <1>3, <2>1
  <2> HIDE DEF a, b
  <2>3. a = 1 /\ b = n
    BY <1>1, <2>2
  <2> QED
    BY <2>3 DEF a, b
<1>5. SubSeq(text, 1, n) = text
  BY SubSeqFull
<1> QED
  BY <1>2, <1>4, <1>5

(* Flattening a text of single characters gives the text.                   *)
LEMMA FlattenOnes ==
    ASSUME NEW S, NEW text \in Seq(S)
    PROVE  FlattenSeq([i \in DOMAIN text |-> <<text[i]>>]) = text
<1> DEFINE f == [c \in S |-> <<c>>]
           G == {t \in Seq(S) : FlattenSeq(Mapped(f, t)) = t}
<1>1. f \in Maps(S, Seq(S)) /\ \A c \in S : f[c] = <<c>>
  BY DEF Maps
<1> HIDE DEF f
<1>2. <<>> \in G
  <2>1. Mapped(f, <<>>) = <<>> /\ FlattenSeq(<<>>) = <<>>
    <3>1. <<>> \in Seq(S) /\ <<>> \in Seq(Seq(S))
      BY EmptySeq
    <3> QED
      BY <1>1, <3>1, MapType, FlattenAppend
  <2> QED
    BY <2>1, EmptySeq
<1>3. ASSUME NEW t \in Seq(S), NEW e \in S, t \in G PROVE Append(t, e) \in G
  <2> DEFINE m == Mapped(f, t)
  <2>1. Mapped(f, Append(t, e)) = Append(m, <<e>>) /\ m \in Seq(Seq(S)) /\ <<e>> \in Seq(S)
    <3>1. f \in Maps(S, Seq(S)) /\ f[e] = <<e>>
      BY <1>1
    <3>2. Mapped(f, Append(t, e)) = Append(Mapped(f, t), f[e]) /\ f[e] \in Seq(S)
      BY <3>1, MapAppend
    <3>3. Mapped(f, t) \in Seq(Seq(S))
      BY <3>1, MapType
    <3> QED
      BY <3>1, <3>2, <3>3
  <2>2. FlattenSeq(m) = t /\ Append(t, e) \in Seq(S)
    BY <1>3
  <2>3. FlattenSeq(Append(m, <<e>>)) = Append(t, e)
    <3>1. CASE m = <<>>
      <4> HIDE DEF m
      <4>1. FlattenSeq(Append(m, <<e>>)) = <<e>> /\ t = <<>>
        BY <2>1, <2>2, <3>1, FlattenAppend
      <4> QED
        BY <4>1
    <3>2. CASE m # <<>>
      <4> HIDE DEF m
      <4>1. FlattenSeq(Append(m, <<e>>)) = t \o <<e>>
        BY <2>1, <2>2, <3>2, FlattenAppend
      <4> QED
        BY <4>1, AppendIsConcat
    <3> QED
      BY <3>1, <3>2
  <2>4. FlattenSeq(Mapped(f, Append(t, e))) = Append(t, e)
    <3> HIDE DEF m
    <3> QED
      BY <2>1, <2>3
  <2> QED
    BY <2>2, <2>4
<1>4. text \in G
  <2> HIDE DEF G
  <2> QED
    BY <1>2, <1>3, Growing
<1>5. Mapped(f, text) = [i \in DOMAIN text |-> <<text[i]>>]
  <2>1. \A i \in DOMAIN text : text[i] \in S
    OBVIOUS
  <2> QED
    BY <1>1, <2>1 DEF Mapped
<1> QED
  BY <1>4, <1>5

(* A segment that is normalised already, and more than blanks.              *)
Tidy(s) == TopicSegment(s) = s /\ Trim(s, Blank) # <<>>

(* A text of kept characters between others than dashes stays as it is.     *)
LEMMA KeptIsTidy ==
    ASSUME NEW S, NEW y \in Seq(Kept(S)), y # <<>>, y[1] # "-", y[Len(y)] # "-"
    PROVE  Tidy(y)
<1>1. /\ 1 \in DOMAIN y /\ Len(y) \in DOMAIN y
      /\ \A i \in DOMAIN y : InTopic(y[i]) /\ y[i] \notin Blank /\ Lower(y[i]) = y[i]
  <2>1. 1 \in DOMAIN y /\ Len(y) \in DOMAIN y /\ \A i \in DOMAIN y : y[i] \in Kept(S)
    OBVIOUS
  <2> QED
    BY <2>1 DEF Kept, InTopic, InId
<1>2. [i \in DOMAIN y |-> Lower(y[i])] = y
  BY <1>1
<1>3. Trim(y, Blank) = y /\ Trim(y, {"-"}) = y
  BY <1>1, TrimWhole
<1>4. Dashed(y) = y
  <2> DEFINE m == [i \in DOMAIN y |->
                      IF InTopic(y[i]) THEN <<y[i]>>
                      ELSE IF i = 1 \/ InTopic(y[i - 1]) THEN <<"-">> ELSE <<>>]
  <2>1. m = [i \in DOMAIN y |-> <<y[i]>>]
    BY <1>1
  <2>2. Dashed(y) = FlattenSeq(m)
    BY DEF Dashed
  <2> HIDE DEF m
  <2> QED
    BY <2>1, <2>2, FlattenOnes
<1> QED
  BY <1>2, <1>3, <1>4 DEF Tidy, TopicSegment, Or

(* TopicSegment leaves nothing for a second turn.                           *)
LEMMA SegmentTidy ==
    ASSUME NEW S, Literals \subseteq S, NEW text \in Seq(S)
    PROVE  Tidy(TopicSegment(text))
<1> DEFINE low == [i \in DOMAIN text |-> Lower(text[i])]
           value == Trim(low, Blank)
           trimmed == Trim(Dashed(value), {"-"})
<1>1. low \in Seq(S)
  <2>1. \A c \in S : Lower(c) \in S
    <3>1. "a" \in S
      BY DEF Literals
    <3> QED
      BY <3>1 DEF Lower
  <2>2. DOMAIN text = 1 .. Len(text) /\ Len(text) \in Nat
        /\ \A i \in 1 .. Len(text) : text[i] \in S
    OBVIOUS
  <2>3. low \in [1 .. Len(text) -> S]
    BY <2>1, <2>2
  <2> HIDE DEF low
  <2> QED
    BY <2>2, <2>3, SeqDef
<1>2. TopicSegment(text) = Or(trimmed, <<"default">>)
  BY DEF TopicSegment
<1> HIDE DEF low
<1>3. value \in Seq(S)
  BY <1>1, Trimmed
<1> HIDE DEF value
<1>4. Dashed(value) \in Seq(Kept(S))
  BY <1>3, DashedType
<1>5. /\ trimmed \in Seq(Kept(S))
      /\ trimmed # <<>> => trimmed[1] # "-" /\ trimmed[Len(trimmed)] # "-"
  BY <1>4, Trimmed
<1> HIDE DEF trimmed
<1>6. CASE trimmed # <<>>
  BY <1>2, <1>5, <1>6, KeptIsTidy DEF Or
<1>7. CASE trimmed = <<>>
  <2>1. TopicSegment(<<"default">>) = <<"default">>
    <3>1. InId("default") /\ Lower("default") = "default" /\ "default" # "." /\ "default" # "-"
      BY DEF InId, Blank, Wildcards, Lower
    <3> QED
      BY <3>1, WordStays DEF InTopic
  <2>2. Trim(<<"default">>, Blank) # <<>>
    <3>1. "default" \notin Blank
      BY DEF Blank
    <3>2. Trim(<<"default">>, Blank) = <<"default">>
      BY <3>1, TrimOne
    <3>3. <<"default">> # <<>>
      OBVIOUS
    <3> QED
      BY <3>2, <3>3
  <2> QED
    BY <1>2, <1>7, <2>1, <2>2 DEF Or, Tidy
<1> QED
  BY <1>6, <1>7

(* So does clean.                                                           *)
LEMMA CleanTwice ==
    ASSUME NEW S, Literals \subseteq S, NEW segs \in Seq(Seq(S))
    PROVE  clean(clean(segs)) = clean(segs)
<1> DEFINE T == {e \in Segments(S) : Tidy(e)}
           G == {g \in Seq(Seq(S)) : clean(g) \in Seq(T)}
           H == {g \in Seq(T) : clean(g) = g}
<1>1. T \subseteq Seq(S) /\ Seq(T) \subseteq Seq(Seq(S))
  <2>1. Seq(S \ {"/"}) \subseteq Seq(S)
    BY SeqMonotonic
  <2>2. T \subseteq Seq(S)
    BY <2>1 DEF Segments
  <2> HIDE DEF T
  <2> QED
    BY <2>2, SeqMonotonic
<1>2. clean(<<>>) = <<>>
  BY DEF clean, FlattenSeq
<1>3. ASSUME NEW s \in Seq(S)
      PROVE  CleanOne(s) \in Seq(T) /\ (s \in T => CleanOne(s) = <<s>>)
  <2>1. TopicSegment(s) \in T
    BY SegmentType, SegmentTidy
  <2>2. s \in T => CleanOne(s) = <<s>>
    BY DEF CleanOne, Tidy
  <2> HIDE DEF T
  <2>3. <<>> \in Seq(T) /\ <<TopicSegment(s)>> \in Seq(T)
    BY <2>1
  <2> QED
    BY <2>2, <2>3 DEF CleanOne
<1>4. ASSUME NEW g \in Seq(Seq(S)), NEW s \in Seq(S)
      PROVE  clean(Append(g, s)) = clean(g) \o CleanOne(s)
  <2>1. Append(g, s) = g \o <<s>> /\ <<s>> \in Seq(Seq(S)) /\ <<>> \in Seq(Seq(S))
    BY AppendIsConcat
  <2> QED
    BY <2>1, CleanConcat
<1> HIDE DEF T
<1>5. segs \in G
  <2>1. <<>> \in G
    BY <1>2, EmptySeq
  <2>2. ASSUME NEW g \in Seq(Seq(S)), NEW s \in Seq(S), g \in G PROVE Append(g, s) \in G
    <3>1. clean(g) \in Seq(T) /\ CleanOne(s) \in Seq(T)
      BY <1>3, <2>2
    <3>2. clean(g) \o CleanOne(s) \in Seq(T)
      BY <3>1, ConcatProperties
    <3> QED
      BY <1>4, <3>2, AppendProperties
  <2> HIDE DEF G
  <2> QED
    BY <2>1, <2>2, Growing
<1>6. Seq(T) \subseteq H
  <2>1. <<>> \in H
    BY <1>2, EmptySeq
  <2>2. ASSUME NEW g \in Seq(T), NEW e \in T, g \in H PROVE Append(g, e) \in H
    <3>1. clean(g) = g /\ g \in Seq(Seq(S)) /\ e \in Seq(S)
      BY <1>1, <2>2
    <3>2. clean(Append(g, e)) = g \o <<e>>
      BY <1>3, <1>4, <2>2, <3>1
    <3>3. g \o <<e>> = Append(g, e) /\ Append(g, e) \in Seq(T)
      BY AppendIsConcat, AppendProperties
    <3> QED
      BY <3>2, <3>3
  <2> HIDE DEF H
  <2> QED
    BY <2>1, <2>2, Growing
<1> QED
  BY <1>5, <1>6

(* A word in angle brackets loses them.                                     *)
LEMMA BracketsGo ==
    ASSUME NEW S, Literals \subseteq S, "<" \in S, ">" \in S, NEW c \in S, Plainly(c)
    PROVE  Part(<<"<", c, ">">>) = << <<c>> >> /\ <<"<", c, ">">> \in Seq(S)
<1> DEFINE text == <<"<", c, ">">>
           T == S \ {"/"}
<1>1. /\ "<" \notin Blank /\ ">" \notin Blank /\ Lower("<") = "<" /\ Lower(">") = ">"
      /\ ~InTopic("<") /\ ~InTopic(">") /\ "-" # c
  <2>1. "<" \notin Blank /\ ">" \notin Blank
    BY DEF Blank
  <2>2. Lower("<") = "<" /\ Lower(">") = ">"
    BY DEF Lower
  <2>3. ~InTopic("<") /\ ~InTopic(">") /\ "-" # c
    BY DEF InTopic, InId, Plainly
  <2> QED
    BY <2>1, <2>2, <2>3
<1>2. InTopic(c) /\ Lower(c) = c /\ c \in T /\ "<" \in T /\ ">" \in T /\ "-" \in S
  BY DEF Plainly, InTopic, InId, Literals
<1>3. /\ text \in Seq(T) /\ text \in Seq(S) /\ DOMAIN text = 1 .. 3 /\ Len(text) = 3
      /\ text[1] = "<" /\ text[2] = c /\ text[3] = ">" /\ text # <<>>
  <2> HIDE DEF T
  <2> QED
    BY <1>2
<1>4. [i \in DOMAIN text |-> Lower(text[i])] = text
  BY <1>1, <1>2, <1>3
<1>5. Trim(text, Blank) = text
  <2> HIDE DEF text
  <2> QED
    BY <1>1, <1>3, TrimWhole
<1> DEFINE m == [i \in DOMAIN text |->
                    IF InTopic(text[i]) THEN <<text[i]>>
                    ELSE IF i = 1 \/ InTopic(text[i - 1]) THEN <<"-">> ELSE <<>>]
           d == <<"-", c, "-">>
<1>6. m = << <<"-">>, <<c>>, <<"-">> >>
  <2>1. m[1] = <<"-">> /\ m[2] = <<c>> /\ m[3] = <<"-">> /\ DOMAIN m = 1 .. 3
    BY <1>1, <1>2, <1>3
  <2>2. m = [i \in 1 .. 3 |-> m[i]]
    BY <1>3
  <2> HIDE DEF m
  <2> QED
    BY <2>1, <2>2
<1>7. FlattenSeq(<< <<"-">>, <<c>>, <<"-">> >>) = d
  <2> DEFINE x == <<"-">>
             y == <<c>>
  <2>1. x \in Seq(S) /\ y \in Seq(S)
    BY <1>2
  <2>2. x \o y = <<"-", c>> /\ (x \o y) \o x = d
    <3>1. Append(x, c) = <<"-", c>> /\ Append(<<"-", c>>, "-") = d /\ <<"-", c>> \in Seq(S)
      <4>1. ASSUME NEW u \in S, NEW w \in S
            PROVE  /\ <<u, w>> = Append(<<u>>, w) /\ <<u, w, u>> = Append(<<u, w>>, u)
                   /\ <<u, w>> \in Seq(S)
        OBVIOUS
      <4> QED
        BY <1>2, <4>1
    <3>2. x \o y = Append(x, c)
      <4> HIDE DEF x
      <4> QED
        BY <2>1, AppendIsConcat
    <3>3. <<"-", c>> \o x = Append(<<"-", c>>, "-")
      <4> DEFINE q == <<"-", c>>
      <4> HIDE DEF q
      <4> QED
        BY <1>2, <3>1, AppendIsConcat DEF q
    <3> QED
      BY <3>1, <3>2, <3>3
  <2> HIDE DEF x, y, d
  <2>3. /\ <<x, y, x>> = Append(<<x, y>>, x) /\ <<x, y>> = Append(<<x>>, y)
        /\ <<x>> = Append(<<>>, x) /\ <<>> \in Seq(Seq(S)) /\ <<x>> \in Seq(Seq(S))
        /\ <<x, y>> \in Seq(Seq(S)) /\ <<x>> # <<>> /\ <<x, y>> # <<>>
    BY <2>1
  <2>4. FlattenSeq(<<x>>) = x
    BY ZenonT(40), <2>1, <2>3, FlattenAppend
  <2> DEFINE one == <<x>>
             two == <<x, y>>
             three == <<x, y, x>>
  <2> HIDE DEF one, two, three
  <2>5. FlattenSeq(two) = x \o y
    <3>1. two = Append(one, y) /\ one \in Seq(Seq(S)) /\ one # <<>> /\ FlattenSeq(one) = x
      BY <2>3, <2>4 DEF one, two
    <3>2. FlattenSeq(Append(one, y)) = FlattenSeq(one) \o y
      BY <2>1, <3>1, FlattenAppend
    <3> QED
      BY <3>1, <3>2
  <2>6. FlattenSeq(three) = (x \o y) \o x
    <3>1. three = Append(two, x) /\ two \in Seq(Seq(S)) /\ two # <<>>
      BY <2>3 DEF two, three
    <3>2. FlattenSeq(Append(two, x)) = FlattenSeq(two) \o x
      BY <2>1, <3>1, FlattenAppend
    <3> QED
      BY <2>5, <3>1, <3>2
  <2> QED
    BY <2>2, <2>6 DEF x, y, three
<1>8. Dashed(text) = d
  <2>1. Dashed(text) = FlattenSeq(m)
    BY DEF Dashed
  <2> HIDE DEF m, d, text
  <2> QED
    BY <1>6, <1>7, <2>1
<1>9. Trim(d, {"-"}) = <<c>>
  <2>1. d \in Seq(S) /\ DOMAIN d = 1 .. 3 /\ d[1] = "-" /\ d[2] = c /\ d[3] = "-"
    BY <1>2
  <2>2. {i \in DOMAIN d : d[i] \notin {"-"}} = {2}
    BY <1>1, <2>1
  <2>3. Min({2}) = 2 /\ Max({2}) = 2
    <3>1. 2 \in Nat /\ {2} \in SUBSET (0 .. 2) /\ {2} # {}
      OBVIOUS
    <3>2. Min({2}) \in {2} /\ Max({2}) \in {2}
      BY <3>1, MinMax
    <3> QED
      BY <3>2
  <2>4. SubSeq(d, 2, 2) = <<c>>
    <3>1. Len(d) = 3
      OBVIOUS
    <3> HIDE DEF d
    <3> DEFINE e == SubSeq(d, 2, 2)
    <3>2. e \in Seq(S) /\ Len(e) = 1 /\ e[1] = c
      BY <2>1, <3>1, SubSeqProperties
    <3> HIDE DEF e
    <3>3. e = <<c>>
      BY <3>2
    <3> QED
      BY <3>3 DEF e
  <2> HIDE DEF d
  <2> QED
    BY <2>2, <2>3, <2>4 DEF Trim
<1>10. TopicSegment(text) = <<c>>
  <2> HIDE DEF text, d
  <2> QED
    BY <1>4, <1>5, <1>8, <1>9 DEF TopicSegment, Or
<1>11. Visible(text)
  <2>1. 1 \in DOMAIN text /\ text[1] \notin Blank
    BY <1>1, <1>3
  <2> QED
    BY <2>1 DEF Visible
<1>12. Part(text) = <<TopicSegment(text)>>
  <2> HIDE DEF text
  <2> QED
    BY <1>3, <1>11, OnePart
<1> QED
  BY <1>3, <1>10, <1>12

-----------------------------------------------------------------------------
(* The topics of a node.                                                    *)
Words == {"nodes", "events", "snapshots", "availability", "meta", "heartbeat",
          "serve", "cli", "health", "usage", "cost", "usage-status",
          "active-account-probe", "account-catalogue", "cost-horizon",
          "config-validation", "agent", "error", "kind", "scope"}

(* A topic keeps the words of the code as they are.                         *)
LEMMA WordsArePlain == \A w \in Words : Plainly(w)
<1>1. ASSUME NEW w \in Words PROVE InId(w)
  BY DEF Words, InId, Blank, Wildcards
<1>2. ASSUME NEW w \in Words PROVE w # "." /\ w # "-" /\ Lower(w) = w
  BY DEF Words, Lower
<1> QED
  BY <1>1, <1>2 DEF Plainly, InTopic

Rich(S) == Literals \cup Words \subseteq S

(* A configuration in these characters whose identifier is in order.        *)
Node(S, cfg) ==
    /\ Rich(S)
    /\ cfg.prefix \in Seq(S) /\ cfg.id \in Seq(S) /\ MatchesPattern(cfg.id)

(* The segment of the machine.                                              *)
Machine(cfg) == TopicSegment(cfg.id)

(* An identifier is one segment of every topic, never an empty one.         *)
LEMMA MachinePart ==
    ASSUME NEW S, NEW cfg, Node(S, cfg)
    PROVE  Part(cfg.id) = <<Machine(cfg)>> /\ Machine(cfg) \in Segments(S)
<1> DEFINE id == cfg.id
           T == S \ {"/"}
<1>1. /\ id \in Seq(S) /\ id # <<>> /\ Literals \subseteq S
      /\ \A i \in DOMAIN id : id[i] # "/" /\ id[i] \notin Blank
  BY DEF Node, Rich, MatchesPattern, InId
<1> HIDE DEF id
<1>2. id \in Seq(T)
  <2>1. Len(id) \in Nat /\ DOMAIN id = 1 .. Len(id) /\ id \in [1 .. Len(id) -> S]
    BY <1>1, LenProperties
  <2>2. id \in [1 .. Len(id) -> T]
    BY <1>1, <2>1
  <2> HIDE DEF T
  <2> QED
    BY <2>1, <2>2, SeqDef
<1>3. Visible(id)
  <2>1. 1 \in DOMAIN id
    BY <1>1
  <2> QED
    BY <1>1, <2>1 DEF Visible
<1>4. Part(id) = <<TopicSegment(id)>>
  BY <1>1, <1>2, <1>3, OnePart
<1>5. TopicSegment(id) \in Segments(S)
  BY <1>1, SegmentType
<1> QED
  BY <1>4, <1>5 DEF id, Machine

(* The segments of the topics below a prefix.                               *)
Below(cfg, word) == Append(Append(Part(cfg.prefix), <<word>>), Machine(cfg))
NodeSegs(cfg, w) == Append(Below(cfg, "nodes"), <<w>>)
EventSegs(cfg, v, w) == Append(Append(Below(cfg, "events"), <<v>>), <<w>>)
SnapshotSegs(cfg, v, w) == Append(Append(NodeSegs(cfg, "snapshots"), <<v>>), <<w>>)

(* The prefix of the beacon is made of the segments of the prefix.          *)
LEMMA PrefixSegs ==
    ASSUME NEW S, NEW cfg, Node(S, cfg)
    PROVE  /\ joinTopic(<<cfg.prefix>>) = Join(Part(cfg.prefix))
           /\ Part(cfg.prefix) \in Seq(Segments(S))
           /\ Segs(<<cfg.prefix>>) = Part(cfg.prefix)
<1> DEFINE p == cfg.prefix
<1>1. p \in Seq(S) /\ Literals \subseteq S
  BY DEF Node, Rich
<1> HIDE DEF p
<1>2. Part(p) \in Seq(Segments(S))
  BY <1>1, PartType
<1>3. <<p>> = Append(<<>>, p) /\ <<>> \in Seq(Seq(S)) /\ <<p>> \in Seq(Seq(S))
  BY <1>1
<1>4. Segs(Append(<<>>, p)) = Segs(<<>>) \o Part(p) /\ Segs(<<>>) = <<>>
  <2>1. \A g \in Seq(Seq(S)) : Segs(Append(g, p)) = Segs(g) \o Part(p) /\ Segs(<<>>) = <<>>
    BY <1>1, SegsAppend
  <2> QED
    BY <1>3, <2>1
<1>5. <<>> \o Part(p) = Part(p)
  BY <1>2, ConcatEmptySeq
<1>6. joinTopic(<<p>>) = Join(Segs(<<p>>))
  BY <1>1, <1>3, SegsAppend
<1> QED
  BY <1>2, <1>3, <1>4, <1>5, <1>6 DEF p

(* The first three parts of a topic.                                        *)
LEMMA BelowSegs ==
    ASSUME NEW S, NEW cfg, Node(S, cfg), NEW word \in Words
    PROVE  /\ Segs(<<cfg.prefix, <<word>>, cfg.id>>) = Below(cfg, word)
           /\ Below(cfg, word) \in Seq(Segments(S))
           /\ <<cfg.prefix, <<word>>, cfg.id>> \in Seq(Seq(S))
<1> DEFINE p == cfg.prefix
           q == <<word>>
           r == cfg.id
           m == Machine(cfg)
<1>1. /\ Literals \subseteq S /\ word \in S /\ p \in Seq(S) /\ r \in Seq(S)
      /\ Segs(<<p>>) = Part(p) /\ Part(p) \in Seq(Segments(S))
      /\ Part(r) = <<m>> /\ m \in Segments(S)
  BY PrefixSegs, MachinePart DEF Node, Rich
<1>2. q \in Seq(S) /\ Part(q) = <<q>> /\ q \in Segments(S)
  BY <1>1, WordPart, WordsArePlain
<1> HIDE DEF p, q, r, m
<1>3. \A g \in Seq(Seq(S)) : Segs(Append(g, q)) = Append(Segs(g), q)
  BY <1>1, <1>2, SegsMore
<1>4. \A g \in Seq(Seq(S)) : Segs(Append(g, r)) = Append(Segs(g), m)
  BY <1>1, SegsMore
<1>5. /\ <<p, q>> = Append(<<p>>, q) /\ <<p, q, r>> = Append(<<p, q>>, r)
      /\ <<p>> \in Seq(Seq(S)) /\ <<p, q>> \in Seq(Seq(S)) /\ <<p, q, r>> \in Seq(Seq(S))
  BY <1>1, <1>2
<1>6. Segs(<<p, q, r>>) = Append(Append(Part(p), q), m)
  BY <1>1, <1>3, <1>4, <1>5
<1>7. Append(Append(Part(p), q), m) \in Seq(Segments(S))
  BY <1>1, <1>2
<1> QED
  BY <1>5, <1>6, <1>7 DEF Below, p, q, r, m

(* A kind of observation, of two words.                                     *)
Kind(v, w) == <<v, "/", w>>

(* Words are segments.                                                      *)
LEMMA WordsType ==
    ASSUME NEW S, Rich(S), NEW v \in Words, NEW w \in Words
    PROVE  /\ <<v>> \in Segments(S) /\ <<v>> \in Seq(S) /\ Part(<<v>>) = << <<v>> >>
           /\ Kind(v, w) \in Seq(S) /\ Part(Kind(v, w)) = Append(<< <<v>> >>, <<w>>)
<1>1. /\ Literals \subseteq S /\ v \in S /\ w \in S /\ "/" \in S
      /\ Plainly(v) /\ Plainly(w)
  BY WordsArePlain DEF Literals, Rich
<1>2. Part(<<v>>) = << <<v>> >> /\ <<v>> \in Segments(S)
  BY <1>1, WordPart
<1>3. Part(Kind(v, w)) = Append(<< <<v>> >>, <<w>>)
  BY <1>1, TwoWords DEF Kind
<1>4. <<v>> \in Seq(S) /\ Kind(v, w) \in Seq(S)
  BY <1>1 DEF Kind
<1> QED
  BY <1>2, <1>3, <1>4

(* One word, or the two words of a kind, more.                              *)
LEMMA WordsMore ==
    ASSUME NEW S, Rich(S), NEW parts \in Seq(Seq(S)), NEW v \in Words, NEW w \in Words
    PROVE  /\ Segs(Append(parts, <<v>>)) = Append(Segs(parts), <<v>>)
           /\ Segs(Append(parts, Kind(v, w))) = Append(Append(Segs(parts), <<v>>), <<w>>)
<1> DEFINE x == <<v>>
           y == <<w>>
           kind == Kind(v, w)
<1>1. Literals \subseteq S
  BY DEF Rich
<1>2. /\ x \in Segments(S) /\ y \in Segments(S) /\ x \in Seq(S) /\ kind \in Seq(S)
      /\ Part(x) = <<x>> /\ Part(kind) = Append(<<x>>, y)
  BY WordsType
<1> HIDE DEF x, y, kind
<1>3. Segs(Append(parts, x)) = Append(Segs(parts), x)
  BY <1>1, <1>2, SegsMore
<1>4. Segs(Append(parts, kind)) = Append(Append(Segs(parts), x), y)
  BY <1>1, <1>2, SegsMore
<1> QED
  BY <1>3, <1>4 DEF x, y, kind

(* Every topic of a node is its segments, joined.                           *)
LEMMA NodeTopic ==
    ASSUME NEW S, NEW cfg, Node(S, cfg), NEW w \in Words
    PROVE  /\ nodeTopic(cfg, <<w>>) = Join(NodeSegs(cfg, w))
           /\ NodeSegs(cfg, w) \in Seq(Segments(S))
           /\ <<cfg.prefix, <<"nodes">>, cfg.id, <<w>>>> \in Seq(Seq(S))
           /\ Segs(<<cfg.prefix, <<"nodes">>, cfg.id, <<w>>>>) = NodeSegs(cfg, w)
<1> DEFINE base == <<cfg.prefix, <<"nodes">>, cfg.id>>
           full == <<cfg.prefix, <<"nodes">>, cfg.id, <<w>>>>
<1>1. Rich(S) /\ "nodes" \in Words
  BY DEF Node, Rich, Words
<1>2. base \in Seq(Seq(S)) /\ Segs(base) = Below(cfg, "nodes")
      /\ Below(cfg, "nodes") \in Seq(Segments(S))
  BY <1>1, BelowSegs
<1>3. full = Append(base, <<w>>)
  <2>1. cfg.prefix \in Seq(S) /\ cfg.id \in Seq(S) /\ <<"nodes">> \in Seq(S) /\ <<w>> \in Seq(S)
    BY <1>1, WordsType DEF Node
  <2> DEFINE p == cfg.prefix
             q == <<"nodes">>
             r == cfg.id
             x == <<w>>
  <2>2. p \in Seq(S) /\ q \in Seq(S) /\ r \in Seq(S) /\ x \in Seq(S)
    BY <2>1
  <2> HIDE DEF p, q, r, x
  <2>3. <<p, q, r, x>> = Append(<<p, q, r>>, x)
    BY <2>2
  <2> QED
    BY <2>3 DEF p, q, r, x
<1> HIDE DEF base
<1>4. Append(base, <<w>>) \in Seq(Seq(S))
      /\ Segs(Append(base, <<w>>)) = Append(Segs(base), <<w>>) /\ <<w>> \in Segments(S)
  <2>1. <<w>> \in Seq(S) /\ <<w>> \in Segments(S)
    BY <1>1, WordsType
  <2> QED
    BY <1>1, <1>2, <2>1, WordsMore, AppendProperties
<1> HIDE DEF full
<1>5. full \in Seq(Seq(S)) /\ Segs(full) = NodeSegs(cfg, w)
  BY <1>2, <1>3, <1>4 DEF NodeSegs
<1>6. NodeSegs(cfg, w) \in Seq(Segments(S))
  BY <1>2, <1>4, AppendProperties DEF NodeSegs
<1>7. joinTopic(full) = Join(Segs(full))
  BY DEF joinTopic, Segs
<1>8. nodeTopic(cfg, <<w>>) = joinTopic(full)
  BY DEF nodeTopic, full
<1> QED
  BY <1>5, <1>6, <1>7, <1>8 DEF full

(* eventTopic, by its segments.                                             *)
LEMMA EventTopic ==
    ASSUME NEW S, NEW cfg, Node(S, cfg), NEW v \in Words, NEW w \in Words
    PROVE  /\ eventTopic(cfg, Kind(v, w)) = Join(EventSegs(cfg, v, w))
           /\ EventSegs(cfg, v, w) \in Seq(Segments(S))
<1> DEFINE base == <<cfg.prefix, <<"events">>, cfg.id>>
           full == <<cfg.prefix, <<"events">>, cfg.id, Kind(v, w)>>
<1>1. Rich(S) /\ "events" \in Words
  BY DEF Node, Rich, Words
<1>2. base \in Seq(Seq(S)) /\ Segs(base) = Below(cfg, "events")
      /\ Below(cfg, "events") \in Seq(Segments(S))
  BY <1>1, BelowSegs
<1>3. Kind(v, w) \in Seq(S)
  BY <1>1, WordsType
<1>4. full = Append(base, Kind(v, w))
  <2>1. cfg.prefix \in Seq(S) /\ cfg.id \in Seq(S) /\ <<"events">> \in Seq(S)
    BY <1>1, WordsType DEF Node
  <2> DEFINE p == cfg.prefix
             q == <<"events">>
             r == cfg.id
             x == Kind(v, w)
  <2>2. p \in Seq(S) /\ q \in Seq(S) /\ r \in Seq(S) /\ x \in Seq(S)
    BY <1>3, <2>1
  <2> HIDE DEF p, q, r, x
  <2>3. <<p, q, r, x>> = Append(<<p, q, r>>, x)
    BY <2>2
  <2> QED
    BY <2>3 DEF p, q, r, x
<1> HIDE DEF base
<1>5. /\ Segs(Append(base, Kind(v, w))) = Append(Append(Segs(base), <<v>>), <<w>>)
      /\ <<v>> \in Segments(S) /\ <<w>> \in Segments(S)
  <2>1. <<v>> \in Segments(S) /\ <<w>> \in Segments(S)
    BY <1>1, WordsType
  <2> QED
    BY <1>1, <1>2, <2>1, WordsMore
<1> HIDE DEF full
<1>6. Segs(full) = EventSegs(cfg, v, w)
  BY <1>2, <1>4, <1>5 DEF EventSegs
<1>7. EventSegs(cfg, v, w) \in Seq(Segments(S))
  BY <1>2, <1>5, AppendProperties DEF EventSegs
<1>8. eventTopic(cfg, Kind(v, w)) = Join(Segs(full))
  BY DEF joinTopic, Segs, eventTopic, full
<1> QED
  BY <1>6, <1>7, <1>8

(* snapshotTopic, by its segments and those of its scope.                   *)
LEMMA SnapshotTopic ==
    ASSUME NEW S, NEW cfg, Node(S, cfg), NEW v \in Words, NEW w \in Words, NEW s \in Seq(S)
    PROVE  /\ snapshotTopic(cfg, Kind(v, w), s) = Join(SnapshotSegs(cfg, v, w) \o Part(s))
           /\ SnapshotSegs(cfg, v, w) \in Seq(Segments(S)) /\ Part(s) \in Seq(Segments(S))
<1> DEFINE base == <<cfg.prefix, <<"nodes">>, cfg.id, <<"snapshots">>>>
           kind == Kind(v, w)
           five == <<cfg.prefix, <<"nodes">>, cfg.id, <<"snapshots">>, kind>>
           full == <<cfg.prefix, <<"nodes">>, cfg.id, <<"snapshots">>, kind, s>>
<1>1. Rich(S) /\ Literals \subseteq S /\ "nodes" \in Words
      /\ "snapshots" \in Words
  BY DEF Node, Rich, Words
<1>2. base \in Seq(Seq(S)) /\ Segs(base) = NodeSegs(cfg, "snapshots")
      /\ NodeSegs(cfg, "snapshots") \in Seq(Segments(S))
  BY <1>1, NodeTopic
<1>3. kind \in Seq(S)
  BY <1>1, WordsType
<1>4. Part(s) \in Seq(Segments(S))
  BY <1>1, PartType
<1>5. five = Append(base, kind) /\ full = Append(five, s)
  <2>1. cfg.prefix \in Seq(S) /\ cfg.id \in Seq(S) /\ <<"nodes">> \in Seq(S)
        /\ <<"snapshots">> \in Seq(S)
    BY <1>1, WordsType DEF Node
  <2> DEFINE p == cfg.prefix
             q == <<"nodes">>
             r == cfg.id
             t == <<"snapshots">>
  <2>2. p \in Seq(S) /\ q \in Seq(S) /\ r \in Seq(S) /\ t \in Seq(S)
    BY <2>1
  <2> HIDE DEF p, q, r, t, kind
  <2>3. <<p, q, r, t, kind>> = Append(<<p, q, r, t>>, kind)
    BY <1>3, <2>2
  <2>4. <<p, q, r, t, kind, s>> = Append(<<p, q, r, t, kind>>, s)
    BY <1>3, <2>2
  <2> QED
    BY <2>3, <2>4 DEF p, q, r, t
<1> HIDE DEF base, five, full
<1>6. /\ Segs(five) = Append(Append(Segs(base), <<v>>), <<w>>) /\ five \in Seq(Seq(S))
      /\ <<v>> \in Segments(S) /\ <<w>> \in Segments(S)
  <2>1. /\ Segs(Append(base, Kind(v, w))) = Append(Append(Segs(base), <<v>>), <<w>>)
        /\ Append(base, Kind(v, w)) \in Seq(Seq(S))
        /\ <<v>> \in Segments(S) /\ <<w>> \in Segments(S)
    <3>1. <<v>> \in Segments(S) /\ <<w>> \in Segments(S)
      BY <1>1, WordsType
    <3>2. Append(base, kind) \in Seq(Seq(S))
      BY <1>2, <1>3, AppendProperties
    <3> QED
      BY <1>1, <1>2, <3>1, <3>2, WordsMore
  <2> QED
    BY <1>5, <2>1
<1>7. Segs(full) = Segs(five) \o Part(s)
  <2>1. Segs(Append(five, s)) = Segs(five) \o Part(s)
    BY <1>1, <1>6, SegsAppend
  <2> QED
    BY <1>5, <2>1
<1>8. Segs(five) = SnapshotSegs(cfg, v, w)
  BY <1>2, <1>6 DEF SnapshotSegs
<1>9. SnapshotSegs(cfg, v, w) \in Seq(Segments(S))
  <2>1. Append(NodeSegs(cfg, "snapshots"), <<v>>) \in Seq(Segments(S))
    BY <1>2, <1>6, AppendProperties
  <2> QED
    BY <1>6, <2>1, AppendProperties DEF SnapshotSegs
<1>10. snapshotTopic(cfg, kind, s) = Join(Segs(full))
  BY DEF joinTopic, Segs, snapshotTopic, full
<1> QED
  BY <1>4, <1>7, <1>8, <1>9, <1>10

(* The beacon is below the digest, and ends with the machine.               *)
LEMMA BeaconTopic ==
    ASSUME NEW S, NEW cfg, Node(S, cfg), {"codexbar", "discovery", "v1"} \subseteq S,
           fleetID(cfg) \in Seq(S)
    PROVE  \E h \in Seq(Segments(S)) :
               /\ h = Segs(<< <<"codexbar", "/", "discovery", "/", "v1">>, fleetID(cfg)>>)
               /\ discoveryTopic(cfg) = Join(Append(h, Machine(cfg)))
               /\ Append(h, Machine(cfg)) \in Seq(Segments(S))
<1> DEFINE top == <<"codexbar", "/", "discovery", "/", "v1">>
           fleet == fleetID(cfg)
           r == cfg.id
           h == Segs(<<top, fleet>>)
<1>1. Literals \subseteq S /\ fleet \in Seq(S) /\ r \in Seq(S)
      /\ Part(r) = <<Machine(cfg)>> /\ Machine(cfg) \in Segments(S)
  BY MachinePart DEF Node, Rich
<1>2. top \in Seq(S)
  BY <1>1 DEF Literals
<1>3. discoveryTopic(cfg) = Join(Segs(<<top, fleet, r>>))
  BY DEF discoveryTopic, joinTopic, Segs
<1> HIDE DEF top, fleet, r
<1>4. <<top, fleet, r>> = Append(<<top, fleet>>, r) /\ <<top, fleet>> \in Seq(Seq(S))
  BY <1>1, <1>2
<1>5. Segs(<<top, fleet, r>>) = Append(h, Machine(cfg))
  <2>1. \A g \in Seq(Seq(S)) : Segs(Append(g, r)) = Append(Segs(g), Machine(cfg))
    BY <1>1, SegsMore
  <2> QED
    BY <1>4, <2>1
<1>6. h \in Seq(Segments(S))
  BY <1>1, <1>4, SegsAppend
<1>7. Append(h, Machine(cfg)) \in Seq(Segments(S))
  <2> HIDE DEF h
  <2> QED
    BY <1>1, <1>6, AppendProperties
<1> QED
  BY <1>3, <1>5, <1>6, <1>7 DEF top, fleet, r

-----------------------------------------------------------------------------
(* What the topics of two nodes have in common.                             *)
States == {"availability", "meta", "heartbeat"}
Vias == {"serve", "cli", "agent"}
Whats == {"health", "usage", "cost", "error", "usage-status", "active-account-probe",
          "account-catalogue", "cost-horizon", "config-validation"}

(* Words at one place of a topic are never words of another.                *)
LEMMA WordKinds ==
    /\ States \subseteq Words /\ Vias \subseteq Words /\ Whats \subseteq Words
    /\ States \cap Whats = {} /\ Vias \cap Whats = {}
    /\ "nodes" \in Words /\ "events" \in Words /\ "snapshots" \in Words
    /\ "nodes" \notin Vias /\ "nodes" # "events"
<1>1. States \subseteq Words /\ Vias \subseteq Words /\ Whats \subseteq Words
  BY DEF States, Vias, Whats, Words
<1>2. States \cap Whats = {} /\ Vias \cap Whats = {}
  BY DEF States, Vias, Whats
<1>3. "nodes" \in Words /\ "events" \in Words /\ "snapshots" \in Words
  BY DEF Words
<1> QED
  BY <1>1, <1>2, <1>3 DEF Vias

(* Every kind of observation is two words.                                  *)
LEMMA KindWords ==
    ASSUME NEW k \in EventKinds
    PROVE  \E v \in Vias, w \in Whats : k = Kind(v, w)
<1>1. \/ k = <<"agent", "/", "error">>
      \/ \E what \in {"health", "usage", "cost"} : k = <<"serve", "/", what>>
      \/ \E what \in {"usage-status", "active-account-probe", "account-catalogue",
                      "cost-horizon", "config-validation"} : k = <<"cli", "/", what>>
  BY KindsAssumption DEF EventKinds, AgentError
<1> QED
  BY <1>1 DEF Kind, Vias, Whats

(* The forms of the segments of a topic.                                    *)
NodeForm(cfg, g) == \E w \in States : g = NodeSegs(cfg, w)
EventForm(cfg, g) == \E v \in Vias, w \in Whats : g = EventSegs(cfg, v, w)
SnapshotForm(cfg, g) ==
    \E v \in Vias, w \in Whats, s \in Scopes : g = SnapshotSegs(cfg, v, w) \o Part(s)
Form(cfg, g) == NodeForm(cfg, g) \/ EventForm(cfg, g) \/ SnapshotForm(cfg, g)

(* Every topic of a node has one of the three forms.                        *)
LEMMA TopicForms ==
    ASSUME NEW S, NEW cfg, Node(S, cfg), STRING \subseteq S, NEW t \in dataTopics(cfg)
    PROVE  \E g \in Seq(Segments(S)) : t = Join(g) /\ Form(cfg, g)
<1>1. CASE t \in {availabilityTopic(cfg), metaTopic(cfg), heartbeatTopic(cfg)}
  <2>1. PICK w \in States : t = nodeTopic(cfg, <<w>>)
    BY <1>1 DEF States, availabilityTopic, metaTopic, heartbeatTopic
  <2>2. t = Join(NodeSegs(cfg, w)) /\ NodeSegs(cfg, w) \in Seq(Segments(S))
    BY <2>1, NodeTopic, WordKinds
  <2>3. Form(cfg, NodeSegs(cfg, w))
    BY DEF Form, NodeForm
  <2> QED
    BY <2>2, <2>3
<1>2. ASSUME NEW k \in EventKinds, t = eventTopic(cfg, k)
      PROVE  \E g \in Seq(Segments(S)) : t = Join(g) /\ Form(cfg, g)
  <2>1. PICK v \in Vias, w \in Whats : k = Kind(v, w)
    BY KindWords
  <2>2. t = Join(EventSegs(cfg, v, w)) /\ EventSegs(cfg, v, w) \in Seq(Segments(S))
    BY <1>2, <2>1, EventTopic, WordKinds
  <2>3. Form(cfg, EventSegs(cfg, v, w))
    BY DEF Form, EventForm
  <2> QED
    BY <2>2, <2>3
<1>3. ASSUME NEW k \in Kinds, NEW s \in Scopes, t = snapshotTopic(cfg, k, s)
      PROVE  \E g \in Seq(Segments(S)) : t = Join(g) /\ Form(cfg, g)
  <2>1. PICK v \in Vias, w \in Whats : k = Kind(v, w)
    BY KindWords DEF EventKinds
  <2>2. s \in Seq(S)
    BY ScopesAssumption, SeqMonotonic
  <2> DEFINE g == SnapshotSegs(cfg, v, w) \o Part(s)
  <2>3. /\ t = Join(g) /\ SnapshotSegs(cfg, v, w) \in Seq(Segments(S))
        /\ Part(s) \in Seq(Segments(S))
    BY <1>3, <2>1, <2>2, SnapshotTopic, WordKinds
  <2>4. g \in Seq(Segments(S))
    BY <2>3, ConcatProperties
  <2>5. Form(cfg, g)
    BY DEF Form, SnapshotForm
  <2> HIDE DEF g
  <2> QED
    BY <2>3, <2>4, <2>5
<1> QED
  BY <1>1, <1>2, <1>3 DEF dataTopics

(* Segments that are joined can be told from their topic.                   *)
LEMMA SegmentsTold ==
    ASSUME NEW S, "/" \in S, NEW g \in Seq(Segments(S)), NEW h \in Seq(Segments(S)),
           g # <<>>
    PROVE  /\ Split(Join(g)) = g
           /\ Join(g) \in Seq(S)
           /\ h # <<>> /\ Join(g) = Join(h) => g = h
<1>1. Segments(S) \subseteq Seq(S \ {"/"})
  BY DEF Segments
<1>2. g \in Seq(Seq(S \ {"/"})) /\ h \in Seq(Seq(S \ {"/"}))
  BY <1>1, SeqMonotonic
<1>3. Seq(S \ {"/"}) \subseteq Seq(S)
  BY SeqMonotonic
<1>4. g \in Seq(Seq(S))
  BY <1>2, <1>3, SeqMonotonic
<1>5. Split(Join(g)) = g /\ (h # <<>> => Split(Join(h)) = h)
  BY <1>2, SplitJoin
<1>6. Join(g) \in Seq(S)
  BY <1>4, EmptySeq, JoinAppend
<1> QED
  BY <1>5, <1>6

(* The parts of a form are sequences of segments.                           *)
LEMMA FormsType ==
    ASSUME NEW S, NEW cfg, Node(S, cfg)
    PROVE  /\ Part(cfg.prefix) \in Seq(Segments(S)) /\ Machine(cfg) \in Segments(S)
           /\ \A x \in Words : /\ <<x>> \in Segments(S)
                               /\ Append(Part(cfg.prefix), <<x>>) \in Seq(Segments(S))
                               /\ Below(cfg, x) \in Seq(Segments(S))
                               /\ NodeSegs(cfg, x) \in Seq(Segments(S))
           /\ \A v, w \in Words : /\ Append(Below(cfg, "events"), <<v>>) \in Seq(Segments(S))
                                  /\ Append(NodeSegs(cfg, "snapshots"), <<v>>)
                                         \in Seq(Segments(S))
                                  /\ EventSegs(cfg, v, w) \in Seq(Segments(S))
                                  /\ SnapshotSegs(cfg, v, w) \in Seq(Segments(S))
<1>1. Rich(S) /\ Part(cfg.prefix) \in Seq(Segments(S)) /\ Machine(cfg) \in Segments(S)
  BY PrefixSegs, MachinePart DEF Node
<1>2. ASSUME NEW x \in Words
      PROVE  <<x>> \in Segments(S) /\ Append(Part(cfg.prefix), <<x>>) \in Seq(Segments(S))
             /\ Below(cfg, x) \in Seq(Segments(S)) /\ NodeSegs(cfg, x) \in Seq(Segments(S))
  <2>1. <<x>> \in Segments(S)
    BY <1>1, WordsType
  <2> QED
    BY <1>1, <2>1, BelowSegs, NodeTopic, AppendProperties
<1>3. ASSUME NEW v \in Words, NEW w \in Words
      PROVE  /\ Append(Below(cfg, "events"), <<v>>) \in Seq(Segments(S))
             /\ Append(NodeSegs(cfg, "snapshots"), <<v>>) \in Seq(Segments(S))
             /\ EventSegs(cfg, v, w) \in Seq(Segments(S))
             /\ SnapshotSegs(cfg, v, w) \in Seq(Segments(S))
  <2>1. <<v>> \in Segments(S) /\ <<w>> \in Segments(S)
        /\ Below(cfg, "events") \in Seq(Segments(S))
        /\ NodeSegs(cfg, "snapshots") \in Seq(Segments(S))
    BY <1>2, WordKinds
  <2>2. /\ Append(Below(cfg, "events"), <<v>>) \in Seq(Segments(S))
        /\ Append(NodeSegs(cfg, "snapshots"), <<v>>) \in Seq(Segments(S))
    BY <2>1, AppendProperties
  <2> QED
    BY <2>1, <2>2, AppendProperties DEF EventSegs, SnapshotSegs
<1> QED
  BY <1>1, <1>2, <1>3

(* The same data prefix and the same machine.                               *)
Same(cfg, c) == Part(cfg.prefix) = Part(c.prefix) /\ Machine(cfg) = Machine(c)

(* Where prefix, word and machine are the same in sum, each of them is.     *)
LEMMA BelowSame ==
    ASSUME NEW S, NEW cfg, Node(S, cfg), NEW c, Node(S, c), NEW x \in Words, NEW y \in Words,
           Below(cfg, x) = Below(c, y)
    PROVE  Same(cfg, c) /\ x = y
<1> DEFINE p == Append(Part(cfg.prefix), <<x>>)
           q == Append(Part(c.prefix), <<y>>)
<1>1. p \in Seq(Segments(S)) /\ Machine(cfg) \in Segments(S)
      /\ q \in Seq(Segments(S)) /\ Machine(c) \in Segments(S)
  BY FormsType
<1>2. Append(p, Machine(cfg)) = Append(q, Machine(c))
  BY DEF Below
<1> HIDE DEF p, q
<1>3. p = q /\ Machine(cfg) = Machine(c)
  BY <1>1, <1>2, AppendInjective
<1>4. /\ Part(cfg.prefix) \in Seq(Segments(S)) /\ Part(c.prefix) \in Seq(Segments(S))
      /\ <<x>> \in Segments(S) /\ <<y>> \in Segments(S)
  BY FormsType
<1>5. Part(cfg.prefix) = Part(c.prefix) /\ <<x>> = <<y>>
  BY <1>3, <1>4, AppendInjective DEF p, q
<1> QED
  BY <1>3, <1>5 DEF Same

(* A snapshot whose scope is one segment.                                   *)
Scoped(S, cfg, g) ==
    \E v \in Vias, w \in Whats, x \in Segments(S) : g = Append(SnapshotSegs(cfg, v, w), x)

(* Topics of one form are the same only below the same prefix and machine.  *)
LEMMA FormSame ==
    ASSUME NEW S, NEW cfg, Node(S, cfg), NEW c, Node(S, c), NEW g,
           \/ NodeForm(cfg, g) /\ NodeForm(c, g)
           \/ EventForm(cfg, g) /\ EventForm(c, g)
           \/ Scoped(S, cfg, g) /\ Scoped(S, c, g)
    PROVE  Same(cfg, c)
<1>1. CASE NodeForm(cfg, g) /\ NodeForm(c, g)
  <2>1. PICK w \in States, v \in States : g = NodeSegs(cfg, w) /\ g = NodeSegs(c, v)
    BY <1>1 DEF NodeForm
  <2>2. /\ Below(cfg, "nodes") \in Seq(Segments(S)) /\ <<w>> \in Segments(S)
        /\ Below(c, "nodes") \in Seq(Segments(S)) /\ <<v>> \in Segments(S)
    BY FormsType, WordKinds
  <2>3. Below(cfg, "nodes") = Below(c, "nodes")
    BY <2>1, <2>2, AppendInjective DEF NodeSegs
  <2> QED
    BY <2>3, BelowSame, WordKinds
<1>2. CASE EventForm(cfg, g) /\ EventForm(c, g)
  <2>1. PICK v \in Vias, w \in Whats, a \in Vias, b \in Whats :
            g = EventSegs(cfg, v, w) /\ g = EventSegs(c, a, b)
    BY <1>2 DEF EventForm
  <2> DEFINE p == Append(Below(cfg, "events"), <<v>>)
             q == Append(Below(c, "events"), <<a>>)
  <2>2. /\ p \in Seq(Segments(S)) /\ <<w>> \in Segments(S)
        /\ q \in Seq(Segments(S)) /\ <<b>> \in Segments(S)
    BY FormsType, WordKinds
  <2>3. Append(p, <<w>>) = Append(q, <<b>>)
    BY <2>1 DEF EventSegs
  <2> HIDE DEF p, q
  <2>4. p = q
    BY <2>2, <2>3, AppendInjective
  <2>5. /\ Below(cfg, "events") \in Seq(Segments(S)) /\ <<v>> \in Segments(S)
        /\ Below(c, "events") \in Seq(Segments(S)) /\ <<a>> \in Segments(S)
    BY FormsType, WordKinds
  <2>6. Below(cfg, "events") = Below(c, "events")
    BY <2>4, <2>5, AppendInjective DEF p, q
  <2> QED
    BY <2>6, BelowSame, WordKinds
<1>3. CASE Scoped(S, cfg, g) /\ Scoped(S, c, g)
  <2>1. PICK v \in Vias, w \in Whats, x \in Segments(S), a \in Vias, b \in Whats,
             y \in Segments(S) :
            g = Append(SnapshotSegs(cfg, v, w), x) /\ g = Append(SnapshotSegs(c, a, b), y)
    BY ZenonT(40), <1>3 DEF Scoped
  <2>2. SnapshotSegs(cfg, v, w) \in Seq(Segments(S)) /\ SnapshotSegs(c, a, b) \in Seq(Segments(S))
    BY FormsType, WordKinds
  <2>3. SnapshotSegs(cfg, v, w) = SnapshotSegs(c, a, b)
    <3>1. Append(SnapshotSegs(cfg, v, w), x) = Append(SnapshotSegs(c, a, b), y)
      BY <2>1
    <3> QED
      BY <2>2, <3>1, AppendInjective
  <2> DEFINE p == Append(NodeSegs(cfg, "snapshots"), <<v>>)
             q == Append(NodeSegs(c, "snapshots"), <<a>>)
  <2>4. /\ p \in Seq(Segments(S)) /\ <<w>> \in Segments(S)
        /\ q \in Seq(Segments(S)) /\ <<b>> \in Segments(S)
    BY FormsType, WordKinds
  <2>5. Append(p, <<w>>) = Append(q, <<b>>)
    BY <2>3 DEF SnapshotSegs
  <2> HIDE DEF p, q
  <2>6. p = q
    BY <2>4, <2>5, AppendInjective
  <2>7. /\ NodeSegs(cfg, "snapshots") \in Seq(Segments(S)) /\ <<v>> \in Segments(S)
        /\ NodeSegs(c, "snapshots") \in Seq(Segments(S)) /\ <<a>> \in Segments(S)
    BY FormsType, WordKinds
  <2>8. NodeSegs(cfg, "snapshots") = NodeSegs(c, "snapshots")
    BY <2>6, <2>7, AppendInjective DEF p, q
  <2>9. /\ Below(cfg, "nodes") \in Seq(Segments(S)) /\ <<"snapshots">> \in Segments(S)
        /\ Below(c, "nodes") \in Seq(Segments(S))
    BY FormsType, WordKinds
  <2>10. Below(cfg, "nodes") = Below(c, "nodes")
    BY <2>8, <2>9, AppendInjective DEF NodeSegs
  <2> QED
    BY <2>10, BelowSame, WordKinds
<1> QED
  BY <1>1, <1>2, <1>3

(* Topics of different forms are never the same.                            *)
LEMMA FormsDiffer ==
    ASSUME NEW S, NEW cfg, Node(S, cfg), NEW c, Node(S, c), NEW g
    PROVE  /\ ~(NodeForm(cfg, g) /\ EventForm(c, g))
           /\ ~(NodeForm(cfg, g) /\ Scoped(S, c, g))
           /\ ~(EventForm(cfg, g) /\ Scoped(S, c, g))
<1>1. ASSUME NodeForm(cfg, g), EventForm(c, g) PROVE FALSE
  <2>1. PICK w \in States, a \in Vias, b \in Whats :
            g = NodeSegs(cfg, w) /\ g = EventSegs(c, a, b)
    BY <1>1 DEF NodeForm, EventForm
  <2>2. /\ Below(cfg, "nodes") \in Seq(Segments(S)) /\ <<w>> \in Segments(S)
        /\ Append(Below(c, "events"), <<a>>) \in Seq(Segments(S)) /\ <<b>> \in Segments(S)
    BY FormsType, WordKinds
  <2>3. Append(Below(cfg, "nodes"), <<w>>) = Append(Append(Below(c, "events"), <<a>>), <<b>>)
    BY <2>1 DEF NodeSegs, EventSegs
  <2>4. <<w>> = <<b>>
    BY <2>2, <2>3, AppendInjective
  <2> QED
    BY <2>4, WordKinds
<1>2. ASSUME NodeForm(cfg, g), Scoped(S, c, g) PROVE FALSE
  <2>1. PICK w \in States, a \in Vias, b \in Whats, x \in Segments(S) :
            g = NodeSegs(cfg, w) /\ g = Append(SnapshotSegs(c, a, b), x)
    BY <1>2 DEF NodeForm, Scoped
  <2>2. /\ Below(cfg, "nodes") \in Seq(Segments(S)) /\ <<w>> \in Segments(S)
        /\ SnapshotSegs(c, a, b) \in Seq(Segments(S))
    BY FormsType, WordKinds
  <2>3. Below(cfg, "nodes") = SnapshotSegs(c, a, b)
    BY <2>1, <2>2, AppendInjective DEF NodeSegs
  <2> DEFINE p == Append(Part(cfg.prefix), <<"nodes">>)
             q == Append(NodeSegs(c, "snapshots"), <<a>>)
  <2>4. /\ p \in Seq(Segments(S)) /\ Machine(cfg) \in Segments(S)
        /\ q \in Seq(Segments(S)) /\ <<b>> \in Segments(S)
    BY FormsType, WordKinds
  <2>5. Append(p, Machine(cfg)) = Append(q, <<b>>)
    BY <2>3 DEF SnapshotSegs, Below
  <2> HIDE DEF p, q
  <2>6. p = q
    BY <2>4, <2>5, AppendInjective
  <2>7. /\ Part(cfg.prefix) \in Seq(Segments(S)) /\ <<"nodes">> \in Segments(S)
        /\ NodeSegs(c, "snapshots") \in Seq(Segments(S)) /\ <<a>> \in Segments(S)
    BY FormsType, WordKinds
  <2>8. <<"nodes">> = <<a>>
    BY <2>6, <2>7, AppendInjective DEF p, q
  <2> QED
    BY <2>8, WordKinds
<1>3. ASSUME EventForm(cfg, g), Scoped(S, c, g) PROVE FALSE
  <2>1. PICK v \in Vias, w \in Whats, a \in Vias, b \in Whats, x \in Segments(S) :
            g = EventSegs(cfg, v, w) /\ g = Append(SnapshotSegs(c, a, b), x)
    BY <1>3 DEF EventForm, Scoped
  <2> DEFINE p == Append(Below(cfg, "events"), <<v>>)
             q == Append(NodeSegs(c, "snapshots"), <<a>>)
  <2>2. /\ p \in Seq(Segments(S)) /\ <<w>> \in Segments(S)
        /\ SnapshotSegs(c, a, b) \in Seq(Segments(S))
    BY FormsType, WordKinds
  <2>3. Append(p, <<w>>) = Append(SnapshotSegs(c, a, b), x)
    BY <2>1 DEF EventSegs
  <2> HIDE DEF p
  <2>4. p = SnapshotSegs(c, a, b)
    BY <2>2, <2>3, AppendInjective
  <2>5. /\ Below(cfg, "events") \in Seq(Segments(S)) /\ <<v>> \in Segments(S)
        /\ q \in Seq(Segments(S)) /\ <<b>> \in Segments(S)
    BY FormsType, WordKinds
  <2>6. Append(Below(cfg, "events"), <<v>>) = Append(q, <<b>>)
    BY <2>4 DEF p, SnapshotSegs
  <2> HIDE DEF q
  <2>7. <<v>> = <<b>>
    BY <2>5, <2>6, AppendInjective
  <2> QED
    BY <2>7, WordKinds
<1> QED
  BY <1>1, <1>2, <1>3

(* What config.Validate does not ask of the provider settings, of which the *)
(* scopes are made: that each is one segment, and more than blanks.         *)
ScopesAreNames ==
    \A s \in Scopes : Trim(s, Blank) # <<>> /\ \A i \in DOMAIN s : s[i] # "/"

(* Such a scope is one segment of its topic.                                *)
LEMMA ScopePart ==
    ASSUME NEW S, Literals \subseteq S, STRING \subseteq S, ScopesAreNames, NEW s \in Scopes
    PROVE  Part(s) = <<TopicSegment(s)>> /\ TopicSegment(s) \in Segments(S)
<1> DEFINE T == S \ {"/"}
<1>1. s \in Seq(S)
  BY ScopesAssumption, SeqMonotonic
<1>2. s \in Seq(T)
  <2>1. Len(s) \in Nat /\ DOMAIN s = 1 .. Len(s) /\ s \in [1 .. Len(s) -> S]
    BY <1>1, LenProperties
  <2>2. s \in [1 .. Len(s) -> T]
    BY <2>1 DEF ScopesAreNames
  <2> HIDE DEF T
  <2> QED
    BY <2>1, <2>2, SeqDef
<1>3. Visible(s)
  BY <1>1, TrimBlank DEF ScopesAreNames
<1> QED
  BY <1>1, <1>2, <1>3, OnePart, SegmentType

(* A sequence that something was appended to is not empty.                  *)
LEMMA AppendedTo ==
    ASSUME NEW S, NEW x, NEW seq \in Seq(S)
    PROVE  Append(seq, x) # <<>>
<1>1. Len(Append(seq, x)) = Len(seq) + 1 /\ Len(seq) \in Nat
  OBVIOUS
<1>2. Len(<<>>) = 0
  OBVIOUS
<1> QED
  BY <1>1, <1>2

(* Two nodes with a common topic have the same beacon.                      *)
LEMMA BeaconsMeet ==
    ASSUME NEW S, NEW cfg, Node(S, cfg), NEW c, Node(S, c), STRING \subseteq S,
           {"codexbar", "discovery", "v1"} \subseteq S,
           fleetID(cfg) \in Seq(S), fleetID(c) \in Seq(S), ScopesAreNames,
           dataTopics(cfg) \cap dataTopics(c) # {}
    PROVE  discoveryTopic(cfg) = discoveryTopic(c)
<1>1. Literals \subseteq S /\ "/" \in S
  BY DEF Node, Rich, Literals
<1>2. PICK t : t \in dataTopics(cfg) /\ t \in dataTopics(c)
  OBVIOUS
<1>3. PICK g \in Seq(Segments(S)) : t = Join(g) /\ Form(cfg, g)
  BY <1>2, TopicForms
<1>4. PICK h \in Seq(Segments(S)) : t = Join(h) /\ Form(c, h)
  BY <1>2, TopicForms
<1>5. ASSUME NEW d, Node(S, d), NEW f, Form(d, f)
      PROVE  (NodeForm(d, f) \/ EventForm(d, f) \/ Scoped(S, d, f)) /\ f # <<>>
  <2>1. CASE NodeForm(d, f)
    <3>1. PICK w \in States : f = NodeSegs(d, w)
      BY <2>1 DEF NodeForm
    <3>2. Below(d, "nodes") \in Seq(Segments(S)) /\ <<w>> \in Segments(S)
      BY <1>5, FormsType, WordKinds
    <3> QED
      BY <2>1, <3>1, <3>2, AppendedTo DEF NodeSegs
  <2>2. CASE EventForm(d, f)
    <3>1. PICK v \in Vias, w \in Whats : f = EventSegs(d, v, w)
      BY <2>2 DEF EventForm
    <3>2. Append(Below(d, "events"), <<v>>) \in Seq(Segments(S)) /\ <<w>> \in Segments(S)
      BY <1>5, FormsType, WordKinds
    <3>3. Append(Append(Below(d, "events"), <<v>>), <<w>>) # <<>>
      BY <3>2, AppendedTo
    <3>4. f # <<>>
      BY <3>1, <3>3 DEF EventSegs
    <3> QED
      BY <2>2, <3>4
  <2>3. CASE SnapshotForm(d, f)
    <3>1. PICK v \in Vias, w \in Whats, s \in Scopes : f = SnapshotSegs(d, v, w) \o Part(s)
      BY <2>3 DEF SnapshotForm
    <3>2. SnapshotSegs(d, v, w) \in Seq(Segments(S))
      BY <1>5, FormsType, WordKinds
    <3>3. Part(s) = <<TopicSegment(s)>> /\ TopicSegment(s) \in Segments(S)
      BY <1>1, ScopePart
    <3> DEFINE x == TopicSegment(s)
    <3>4. f = Append(SnapshotSegs(d, v, w), x)
      BY <3>1, <3>2, <3>3, AppendIsConcat
    <3>5. Scoped(S, d, f)
      BY <3>3, <3>4 DEF Scoped
    <3>6. f # <<>>
      BY <3>2, <3>3, <3>4, AppendedTo
    <3> QED
      BY <3>5, <3>6
  <2> QED
    BY <1>5, <2>1, <2>2, <2>3 DEF Form
<1>6. g # <<>> /\ h # <<>>
  BY <1>3, <1>4, <1>5
<1>7. g = h
  BY <1>1, <1>3, <1>4, <1>6, SegmentsTold
<1>8. /\ NodeForm(cfg, g) \/ EventForm(cfg, g) \/ Scoped(S, cfg, g)
      /\ NodeForm(c, g) \/ EventForm(c, g) \/ Scoped(S, c, g)
  BY <1>3, <1>4, <1>5, <1>7
<1>9. /\ ~(NodeForm(cfg, g) /\ EventForm(c, g)) /\ ~(NodeForm(c, g) /\ EventForm(cfg, g))
      /\ ~(NodeForm(cfg, g) /\ Scoped(S, c, g)) /\ ~(NodeForm(c, g) /\ Scoped(S, cfg, g))
      /\ ~(EventForm(cfg, g) /\ Scoped(S, c, g)) /\ ~(EventForm(c, g) /\ Scoped(S, cfg, g))
  BY FormsDiffer
<1>10. \/ NodeForm(cfg, g) /\ NodeForm(c, g)
       \/ EventForm(cfg, g) /\ EventForm(c, g)
       \/ Scoped(S, cfg, g) /\ Scoped(S, c, g)
  BY <1>8, <1>9
<1>11. Same(cfg, c)
  BY <1>10, FormSame
<1>12. joinTopic(<<cfg.prefix>>) = joinTopic(<<c.prefix>>)
  BY <1>11, PrefixSegs DEF Same
<1>13. fleetID(cfg) = fleetID(c)
  BY <1>12 DEF fleetID
<1>14. discoveryTopic(cfg) =
           Join(Append(Segs(<< <<"codexbar", "/", "discovery", "/", "v1">>, fleetID(cfg)>>),
                       Machine(cfg)))
  BY BeaconTopic
<1>15. discoveryTopic(c) =
           Join(Append(Segs(<< <<"codexbar", "/", "discovery", "/", "v1">>, fleetID(c)>>),
                       Machine(c)))
  BY BeaconTopic
<1> QED
  BY <1>11, <1>13, <1>14, <1>15 DEF Same

-----------------------------------------------------------------------------
(* What a beacon says of the topics.                                        *)

(* More at the end continues the same beginning.                            *)
LEMMA ContinuesMore ==
    ASSUME NEW S, NEW a \in Seq(S), NEW g, Continues(S, a, g), NEW b \in Seq(S), NEW x \in S
    PROVE  Continues(S, a, a) /\ Continues(S, a, g \o b) /\ Continues(S, a, Append(g, x))
<1>1. PICK j \in Seq(S) : g = a \o j
  BY DEF Continues
<1>2. a = a \o <<>> /\ <<>> \in Seq(S)
  BY ConcatEmptySeq, EmptySeq
<1>3. (a \o j) \o b = a \o (j \o b) /\ j \o b \in Seq(S)
  BY ConcatAssociative, ConcatProperties
<1>4. Append(a \o j, x) = a \o Append(j, x) /\ Append(j, x) \in Seq(S)
  <2>1. Append(j, x) \in Seq(S)
    BY AppendProperties
  <2>2. a \o Append(j, x) = Append(a \o j, x)
    BY ConcatAppend
  <2> QED
    BY <2>1, <2>2
<1> QED
  BY <1>1, <1>2, <1>3, <1>4 DEF Continues

(* Every data topic is made of written segments, below the prefix.          *)
LEMMA BelowPrefix ==
    ASSUME NEW S, NEW cfg, Node(S, cfg), STRING \subseteq S, Part(cfg.prefix) # <<>>,
           NEW t \in dataTopics(cfg)
    PROVE  /\ \E g \in Seq(Segments(S)) : g # <<>> /\ Split(t) = g
           /\ Continues(S, joinTopic(<<cfg.prefix>>), t)
           /\ joinTopic(<<cfg.prefix>>) \in Seq(S)
<1> DEFINE U == Segments(S)
           p == Part(cfg.prefix)
<1>1. /\ Literals \subseteq S /\ "/" \in S /\ p \in Seq(U) /\ p # <<>>
      /\ joinTopic(<<cfg.prefix>>) = Join(p)
  BY PrefixSegs DEF Node, Rich, Literals
<1>2. PICK g \in Seq(U) : t = Join(g) /\ Form(cfg, g)
  BY TopicForms
<1>3. Continues(U, p, g)
  <2>1. Continues(U, p, p) /\ Machine(cfg) \in U /\ \A w \in Words : <<w>> \in U
    <3>1. p = p \o <<>> /\ <<>> \in Seq(U)
      BY <1>1, ConcatEmptySeq, EmptySeq
    <3> QED
      BY <3>1, FormsType DEF Continues
  <2>2. ASSUME NEW f, Continues(U, p, f), NEW x \in U PROVE Continues(U, p, Append(f, x))
    <3>1. p \in Seq(U)
      BY <1>1
    <3> HIDE DEF p, U
    <3> QED
      BY <2>2, <3>1, EmptySeq, ContinuesMore
  <2>3. ASSUME NEW w \in Words PROVE Continues(U, p, Below(cfg, w))
    <3> HIDE DEF U
    <3>1. Continues(U, p, Append(p, <<w>>))
      BY <2>1, <2>2
    <3>2. Continues(U, p, Append(Append(p, <<w>>), Machine(cfg)))
      BY <2>1, <2>2, <3>1
    <3> QED
      BY <3>2 DEF Below
  <2>4. ASSUME NEW v \in Words, NEW w \in Words
        PROVE  /\ Continues(U, p, NodeSegs(cfg, w)) /\ Continues(U, p, EventSegs(cfg, v, w))
               /\ Continues(U, p, SnapshotSegs(cfg, v, w))
    <3> HIDE DEF U, p
    <3>1. \A x \in Words : Continues(U, p, NodeSegs(cfg, x))
      BY <2>1, <2>2, <2>3, WordKinds DEF NodeSegs
    <3>2. Continues(U, p, Append(Below(cfg, "events"), <<v>>))
      BY <2>1, <2>2, <2>3, WordKinds
    <3>3. Continues(U, p, EventSegs(cfg, v, w))
      BY <2>1, <2>2, <3>2 DEF EventSegs
    <3>4. Continues(U, p, Append(NodeSegs(cfg, "snapshots"), <<v>>))
      BY <2>1, <2>2, <3>1, WordKinds
    <3>5. Continues(U, p, SnapshotSegs(cfg, v, w))
      BY <2>1, <2>2, <3>4 DEF SnapshotSegs
    <3> QED
      BY <3>1, <3>3, <3>5
  <2>5. CASE NodeForm(cfg, g)
    BY <2>4, <2>5, WordKinds DEF NodeForm
  <2>6. CASE EventForm(cfg, g)
    BY <2>4, <2>6, WordKinds DEF EventForm
  <2>7. CASE SnapshotForm(cfg, g)
    <3>1. PICK v \in Vias, w \in Whats, s \in Scopes : g = SnapshotSegs(cfg, v, w) \o Part(s)
      BY <2>7 DEF SnapshotForm
    <3>2. Part(s) \in Seq(U)
      <4>1. s \in Seq(S)
        BY ScopesAssumption, SeqMonotonic
      <4> QED
        BY <1>1, <4>1, PartType
    <3>3. Continues(U, p, SnapshotSegs(cfg, v, w))
      BY <2>4, WordKinds
    <3>4. p \in Seq(U) /\ Machine(cfg) \in U
      BY <1>1, <2>1
    <3> HIDE DEF U, p
    <3> QED
      BY <3>1, <3>2, <3>3, <3>4, ContinuesMore
  <2> QED
    BY <1>2, <2>5, <2>6, <2>7 DEF Form
<1>4. PICK u \in Seq(U) : g = p \o u
  BY <1>3 DEF Continues
<1>5. g # <<>>
  <2> HIDE DEF U, p
  <2> QED
    BY <1>1, <1>4, ConcatEqualIffEmpty
<1>6. Split(t) = g
  BY <1>1, <1>2, <1>5, SegmentsTold
<1>7. Join(p) \in Seq(S)
  BY <1>1, SegmentsTold
<1>8. Continues(S, Join(p), Join(p \o u))
  <2>1. U \subseteq Seq(S)
    <3>1. Seq(S \ {"/"}) \subseteq Seq(S)
      BY SeqMonotonic
    <3> QED
      BY <3>1 DEF Segments
  <2> HIDE DEF U, p
  <2>2. p \in Seq(Seq(S)) /\ u \in Seq(Seq(S))
    BY <1>1, <2>1, SeqMonotonic
  <2> QED
    BY <1>1, <2>2, JoinConcat
<1> QED
  BY <1>1, <1>2, <1>4, <1>5, <1>6, <1>7, <1>8

(* A slash and a word, or a word between slashes, at once.                  *)
LEMMA SlashWord ==
    ASSUME NEW S, "/" \in S, NEW x \in Seq(S), NEW w \in S
    PROVE  /\ (x \o <<"/">>) \o <<w>> = x \o <<"/", w>>
           /\ ((x \o <<"/">>) \o <<w>>) \o <<"/">> = x \o <<"/", w, "/">>
           /\ x \o <<"/", w, "/">> \in Seq(S)
<1> DEFINE a == <<"/", w>>
           b == <<"/", w, "/">>
           z == <<"/">>
<1>1. a \in Seq(S) /\ b \in Seq(S) /\ z \in Seq(S)
  OBVIOUS
<1>2. a = Append(z, w) /\ b = Append(a, "/")
  OBVIOUS
<1> HIDE DEF a, b, z
<1>3. x \o a = Append(x \o z, w) /\ x \o b = Append(x \o a, "/")
      /\ x \o z \in Seq(S) /\ x \o a \in Seq(S)
  BY <1>1, <1>2, ConcatAppend, ConcatProperties
<1>4. (x \o z) \o <<w>> = x \o a
  BY <1>3, AppendIsConcat
<1>5. (x \o a) \o <<"/">> = x \o b
  BY <1>3, AppendIsConcat
<1>6. x \o b \in Seq(S)
  BY <1>1, ConcatProperties
<1> QED
  BY <1>4, <1>5, <1>6 DEF a, b, z

(* A word more after a word between slashes.                                *)
LEMMA SlashMore ==
    ASSUME NEW S, NEW c \in S, NEW v \in S, NEW w \in S, NEW x \in Seq(S)
    PROVE  (x \o <<c, v, c>>) \o <<w>> = x \o <<c, v, c, w>>
<1> DEFINE r == <<c, v, c>>
           t == <<c, v, c, w>>
<1>1. r \in Seq(S)
  OBVIOUS
<1>2. t = Append(r, w)
  OBVIOUS
<1> HIDE DEF r, t
<1>3. x \o Append(r, w) = Append(x \o r, w) /\ x \o r \in Seq(S)
  BY <1>1, ConcatAppend, ConcatProperties
<1>4. Append(x \o r, w) = (x \o r) \o <<w>>
  BY <1>3, AppendIsConcat
<1> QED
  BY <1>2, <1>3, <1>4 DEF r, t

(* A word below a branch of the prefix, from the prefix and the machine.    *)
LEMMA BelowText ==
    ASSUME NEW S, NEW cfg, Node(S, cfg), Part(cfg.prefix) # <<>>, NEW v \in Words,
           NEW w \in Words
    PROVE  /\ Join(Append(Below(cfg, v), <<w>>)) =
                  joinTopic(<<cfg.prefix>>) \o <<"/", v, "/">> \o Machine(cfg) \o <<"/", w>>
           /\ Join(Append(Below(cfg, v), <<w>>)) \in Seq(S)
           /\ Append(Below(cfg, v), <<w>>) \in Seq(Seq(S))
           /\ Append(Below(cfg, v), <<w>>) # <<>>
<1> DEFINE p == Part(cfg.prefix)
           m == Machine(cfg)
           n == <<v>>
           y == <<w>>
           z == <<"/">>
           one == Append(p, n)
           two == Append(one, m)
           three == Append(two, y)
<1>1. Segments(S) \subseteq Seq(S)
  <2>1. Seq(S \ {"/"}) \subseteq Seq(S)
    BY SeqMonotonic
  <2> QED
    BY <2>1 DEF Segments
<1>2. /\ "/" \in S /\ w \in S /\ v \in S /\ p \in Seq(Segments(S)) /\ p # <<>>
      /\ joinTopic(<<cfg.prefix>>) = Join(p)
      /\ m \in Seq(S) /\ n \in Seq(S) /\ y \in Seq(S) /\ z \in Seq(S)
  <2>1. "/" \in S /\ w \in S /\ v \in S
    BY DEF Node, Rich, Literals
  <2>2. m \in Seq(S)
    BY <1>1, FormsType
  <2>3. n \in Seq(S) /\ y \in Seq(S) /\ z \in Seq(S)
    BY <2>1
  <2> QED
    BY <2>1, <2>2, <2>3, PrefixSegs
<1>3. Append(Below(cfg, v), <<w>>) = three
  BY DEF Below
<1>4. p \in Seq(Seq(S))
  BY <1>1, <1>2, SeqMonotonic
<1> HIDE DEF p, m, n, y, z, three
<1>5. one \in Seq(Seq(S)) /\ one # <<>>
  <2> HIDE DEF two
  <2>1. \A e \in Seq(S) : Append(p, e) \in Seq(Seq(S)) /\ Append(p, e) # <<>>
    BY <1>4, AppendProperties
  <2> QED
    BY <1>2, <2>1
<1>6. two \in Seq(Seq(S)) /\ two # <<>>
  <2> HIDE DEF one
  <2> QED
    BY <1>2, <1>5, AppendProperties
<1>7. Join(one) = (Join(p) \o z) \o n /\ Join(p) \in Seq(S)
  BY <1>2, <1>4, JoinAppend DEF z
<1> HIDE DEF one
<1>8. Join(two) = (Join(one) \o z) \o m /\ Join(one) \in Seq(S)
  BY <1>2, <1>5, JoinAppend DEF z
<1> HIDE DEF two
<1>9. three \in Seq(Seq(S)) /\ three # <<>> /\ three = Append(two, y)
  BY ZenonT(40), <1>2, <1>6, AppendProperties DEF three
<1>10. Join(three) = (Join(two) \o z) \o y /\ Join(two) \in Seq(S) /\ Join(three) \in Seq(S)
  BY <1>2, <1>6, <1>9, JoinAppend DEF z
<1>11. ((Join(p) \o z) \o n) \o z = Join(p) \o <<"/", v, "/">>
  BY <1>2, <1>7, SlashWord DEF z, n
<1>12. (Join(two) \o z) \o y = Join(two) \o <<"/", w>>
  BY <1>2, <1>10, SlashWord DEF z, y
<1>13. Join(two) = (Join(p) \o <<"/", v, "/">>) \o m
  BY <1>7, <1>8, <1>11
<1> QED
  BY <1>2, <1>3, <1>9, <1>10, <1>12, <1>13 DEF m

(* A topic of the node from the prefix and the machine.                     *)
LEMMA NodeTopicText ==
    ASSUME NEW S, NEW cfg, Node(S, cfg), Part(cfg.prefix) # <<>>, NEW w \in Words
    PROVE  nodeTopic(cfg, <<w>>) =
               joinTopic(<<cfg.prefix>>) \o <<"/", "nodes", "/">> \o Machine(cfg)
                   \o <<"/", w>>
<1>1. nodeTopic(cfg, <<w>>) = Join(Append(Below(cfg, "nodes"), <<w>>))
  BY NodeTopic DEF NodeSegs
<1> QED
  BY <1>1, BelowText, WordKinds

(* The configuration with its prefix as the beacon has it.                  *)
Normal(cfg) == [prefix |-> joinTopic(<<cfg.prefix>>), id |-> cfg.id]

(* Its topics have the same segments.                                       *)
LEMMA NormalNode ==
    ASSUME NEW S, NEW cfg, Node(S, cfg), Part(cfg.prefix) # <<>>
    PROVE  /\ Node(S, Normal(cfg))
           /\ \A w \in Words : Below(Normal(cfg), w) = Below(cfg, w)
           /\ \A w \in Words : NodeSegs(Normal(cfg), w) = NodeSegs(cfg, w)
<1> DEFINE text == cfg.prefix
           g == Part(text)
<1>1. /\ Literals \subseteq S /\ "/" \in S /\ text \in Seq(S) /\ g \in Seq(Segments(S))
      /\ g # <<>> /\ joinTopic(<<text>>) = Join(g)
  BY PrefixSegs DEF Node, Rich, Literals
<1>2. Split(Join(g)) = g /\ Join(g) \in Seq(S)
  <2> HIDE DEF g
  <2> QED
    BY <1>1, SegmentsTold
<1>3. clean(g) = g
  BY <1>1, PartType, CleanTwice DEF Part
<1>4. Part(Join(g)) = g
  BY <1>2, <1>3 DEF Part
<1> HIDE DEF g, text
<1>5. /\ Normal(cfg).prefix = Join(g) /\ Normal(cfg).id = cfg.id
      /\ Part(Normal(cfg).prefix) = Part(cfg.prefix)
  BY <1>1, <1>4 DEF Normal, g, text
<1>6. Machine(Normal(cfg)) = Machine(cfg)
  BY <1>5 DEF Machine
<1>7. Node(S, Normal(cfg))
  BY <1>2, <1>5 DEF Node
<1>8. \A w : Below(Normal(cfg), w) = Below(cfg, w)
  BY <1>5, <1>6 DEF Below
<1> QED
  BY <1>7, <1>8 DEF NodeSegs

(* What the beacon says of events and snapshots: the branch, and words in   *)
(* the place of the kind and the scope.                                     *)
LEMMA BranchText ==
    ASSUME NEW S, NEW cfg, Node(S, cfg), "<" \in S, ">" \in S, Part(cfg.prefix) # <<>>
    PROVE  /\ discoveryPayload(cfg).events =
                  joinTopic(<<cfg.prefix>>) \o <<"/", "events", "/">> \o Machine(cfg)
                      \o <<"/", "kind">>
           /\ discoveryPayload(cfg).snapshots =
                  joinTopic(<<cfg.prefix>>) \o <<"/", "nodes", "/">> \o Machine(cfg)
                      \o <<"/", "snapshots">> \o <<"/", "kind", "/", "scope">>
<1> DEFINE base == joinTopic(<<cfg.prefix>>)
           id == cfg.id
           k == <<"<", "kind", ">">>
           s == <<"<", "scope", ">">>
           event == <<base, <<"events">>, id>>
           node == <<base, <<"nodes">>, id, <<"snapshots">>>>
           U == Segments(S)
<1>1. /\ "events" \in Words /\ "nodes" \in Words /\ "snapshots" \in Words
      /\ "kind" \in Words /\ "scope" \in Words
  BY DEF Words
<1>2. Literals \subseteq S /\ "/" \in S /\ Words \subseteq S
  BY DEF Node, Rich, Literals
<1>3. Node(S, Normal(cfg)) /\ Normal(cfg).prefix = base /\ Normal(cfg).id = id
  BY NormalNode DEF Normal
<1>4. /\ Part(k) = << <<"kind">> >> /\ k \in Seq(S)
      /\ Part(s) = << <<"scope">> >> /\ s \in Seq(S)
  <2>1. \A c \in S : Plainly(c) =>
            Part(<<"<", c, ">">>) = << <<c>> >> /\ <<"<", c, ">">> \in Seq(S)
    BY <1>2, BracketsGo
  <2> QED
    BY <1>1, <1>2, <2>1, WordsArePlain
<1>5. <<"kind">> \in U /\ <<"scope">> \in U
  BY <1>1, FormsType
<1>6. event \in Seq(Seq(S)) /\ Segs(event) = Below(cfg, "events")
  BY <1>1, <1>3, BelowSegs, NormalNode
<1>7. node \in Seq(Seq(S)) /\ Segs(node) = NodeSegs(cfg, "snapshots")
  BY <1>1, <1>3, NodeTopic, NormalNode
<1>8. /\ discoveryPayload(cfg).events = joinTopic(Append(event, k))
      /\ discoveryPayload(cfg).snapshots = joinTopic(Append(Append(node, k), s))
  <2>1. /\ Append(event, k) = <<base, <<"events">>, id, k>>
        /\ Append(Append(node, k), s) = <<base, <<"nodes">>, id, <<"snapshots">>, k, s>>
    <3> DEFINE T == Seq(S)
               u == <<"events">>
               v == <<"nodes">>
               w == <<"snapshots">>
    <3>1. /\ base \in T /\ id \in T /\ k \in T /\ s \in T
          /\ u \in T /\ v \in T /\ w \in T
      <4>1. "events" \in S /\ "nodes" \in S /\ "snapshots" \in S
        BY <1>1, <1>2
      <4>2. base \in T /\ id \in T
        BY <1>3 DEF Node
      <4> HIDE DEF base, id, k, s
      <4>3. u \in T /\ v \in T /\ w \in T
        BY <4>1
      <4> QED
        BY <1>4, <4>2, <4>3
    <3>2. event = <<base, u, id>> /\ node = <<base, v, id, w>>
      OBVIOUS
    <3> HIDE DEF base, id, k, s, u, v, w, T, event, node
    <3>3. <<base, u, id, k>> = Append(<<base, u, id>>, k)
      BY <3>1
    <3>4. <<base, v, id, w, k>> = Append(<<base, v, id, w>>, k)
      BY <3>1
    <3>5. <<base, v, id, w, k, s>> = Append(<<base, v, id, w, k>>, s)
      BY <3>1
    <3> QED
      BY <3>2, <3>3, <3>4, <3>5 DEF u, v, w
  <2> HIDE DEF event, node
  <2> QED
    BY <2>1 DEF discoveryPayload
<1> HIDE DEF base, id, k, s, event, node, U
<1>9. \A g \in Seq(Seq(S)) :
          /\ joinTopic(g) = Join(Segs(g))
          /\ Segs(Append(g, k)) = Append(Segs(g), <<"kind">>)
          /\ Segs(Append(g, s)) = Append(Segs(g), <<"scope">>)
  <2>1. ASSUME NEW g \in Seq(Seq(S))
        PROVE  /\ joinTopic(g) = Join(Segs(g))
               /\ Segs(Append(g, k)) = Append(Segs(g), <<"kind">>)
               /\ Segs(Append(g, s)) = Append(Segs(g), <<"scope">>)
    BY <1>2, <1>4, <1>5, SegsAppend, SegsMore DEF U
  <2> QED
    BY <2>1
<1>10. /\ Append(event, k) \in Seq(Seq(S)) /\ Append(node, k) \in Seq(Seq(S))
       /\ Append(Append(node, k), s) \in Seq(Seq(S))
  BY <1>4, <1>6, <1>7, AppendProperties
<1>11. joinTopic(Append(event, k)) = Join(Append(Below(cfg, "events"), <<"kind">>))
  BY <1>6, <1>9, <1>10
<1> DEFINE x == NodeSegs(cfg, "snapshots")
           xk == Append(x, <<"kind">>)
           a == <<"kind">>
           b == <<"scope">>
           z == <<"/">>
<1>12. joinTopic(Append(Append(node, k), s)) = Join(Append(xk, b))
  BY <1>7, <1>9, <1>10
<1>13. /\ x \in Seq(Seq(S)) /\ x # <<>> /\ Join(x) \in Seq(S)
       /\ Join(x) = joinTopic(<<cfg.prefix>>) \o <<"/", "nodes", "/">> \o Machine(cfg)
                         \o <<"/", "snapshots">>
  BY <1>1, BelowText DEF NodeSegs
<1>14. a \in Seq(S) /\ b \in Seq(S) /\ z \in Seq(S) /\ "kind" \in S /\ "scope" \in S
  <2>1. "kind" \in S /\ "scope" \in S
    BY <1>1, <1>2
  <2> QED
    BY <1>2, <2>1
<1> HIDE DEF x, z, b
<1>15. xk \in Seq(Seq(S)) /\ xk # <<>> /\ xk = Append(x, a)
  <2>1. xk = Append(x, a)
    OBVIOUS
  <2> HIDE DEF xk, a
  <2>2. x \in Seq(Seq(S)) /\ a \in Seq(S)
    BY <1>13, <1>14
  <2>3. Append(x, a) \in Seq(Seq(S)) /\ Append(x, a) # <<>>
    BY <2>2, AppendProperties
  <2> QED
    BY <2>1, <2>3
<1> HIDE DEF xk, a
<1>16. Join(xk) = (Join(x) \o z) \o a /\ Join(xk) \in Seq(S)
  BY <1>2, <1>13, <1>14, <1>15, JoinAppend DEF z
<1>17. Join(Append(xk, b)) = (Join(xk) \o z) \o b
  BY <1>2, <1>14, <1>15, JoinAppend DEF z
<1>18. (Join(xk) \o z) \o b = (Join(x) \o <<"/", "kind", "/">>) \o b
  BY <1>2, <1>13, <1>14, <1>16, SlashWord DEF z, a
<1>19. (Join(x) \o <<"/", "kind", "/">>) \o b = Join(x) \o <<"/", "kind", "/", "scope">>
  <2>1. Join(x) \in Seq(S) /\ "/" \in S /\ "kind" \in S /\ "scope" \in S
    BY <1>2, <1>13, <1>14
  <2> QED
    BY <2>1, SlashMore DEF b
<1>20. Join(Append(Below(cfg, "events"), <<"kind">>)) =
           joinTopic(<<cfg.prefix>>) \o <<"/", "events", "/">> \o Machine(cfg) \o <<"/", "kind">>
  BY <1>1, BelowText
<1> QED
  BY <1>8, <1>11, <1>12, <1>13, <1>17, <1>18, <1>19, <1>20
=============================================================================
