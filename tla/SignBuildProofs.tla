--------------------------- MODULE SignBuildProofs ---------------------------
(***************************************************************************)
(* Theorems about SignBuild, for any number of edits and of signings.      *)
(*                                                                         *)
(* The invariant says of a file that each whole signature is one of what   *)
(* is before it, and that the one sign.py finds is the last segment; and   *)
(* of the outputs that are not stale that their code is the current one.   *)
(***************************************************************************)
EXTENDS SignBuild, SequenceTheorems, TLAPS

IsList(s) == \E S : s \in Seq(S)

IsSegment(x) ==
  /\ {"what", "cut"} \subseteq DOMAIN x
  /\ x.what # "sig" => "cpp" \in DOMAIN x

\* The signature sign.py takes out of s: the first section, or the text at the
\* end.
Found(s, i) ==
  /\ WholeSig(s[i])
  /\ is_wasm(s) => \A j \in 1..(i - 1) : s[j].what # "sig" /\ ~s[j].cut

Laid(s) ==
  /\ IsList(s)
  /\ \A i \in DOMAIN s : IsSegment(s[i])
  /\ \A i \in DOMAIN s : WholeSig(s[i]) => s[i].over = SubSeq(s, 1, i - 1)
  /\ \A i \in DOMAIN s : Found(s, i) => i = Len(s)

Bare(s) == \A i \in DOMAIN s : ~Found(s, i)

\* The code of t is code of s.
CodeOf(t, s) ==
  \A i \in DOMAIN t : t[i].what # "sig" =>
    i \in DOMAIN s /\ s[i].what # "sig" /\ t[i].cpp = s[i].cpp

Fresh(s) == \A i \in DOMAIN s : s[i].what # "sig" => s[i].cpp = cpp

----------------------------------------------------------------------------
(* Lists. *)

LEMMA ListFacts ==
  ASSUME NEW s, IsList(s)
  PROVE  /\ Len(s) \in Nat /\ DOMAIN s = 1..Len(s)
         /\ s = <<>> <=> Len(s) = 0
BY DEF IsList

LEMMA AppendList ==
  ASSUME NEW s, NEW x, IsList(s)
  PROVE  /\ IsList(Append(s, x)) /\ Len(Append(s, x)) = Len(s) + 1
         /\ \A i \in 1..Len(s) : Append(s, x)[i] = s[i]
         /\ Append(s, x)[Len(s) + 1] = x
<1>1. PICK S : s \in Seq(S)
  BY DEF IsList
<1>2. s \in Seq(S \cup {x})
  BY <1>1
<1>3. Append(s, x) \in Seq(S \cup {x})
  BY <1>2
<1> QED BY <1>2, <1>3 DEF IsList

LEMMA PrefixList ==
  ASSUME NEW s, IsList(s), NEW k \in 0..Len(s)
  PROVE  /\ IsList(SubSeq(s, 1, k)) /\ Len(SubSeq(s, 1, k)) = k
         /\ \A i \in 1..k : SubSeq(s, 1, k)[i] = s[i]
<1>1. PICK S : s \in Seq(S)
  BY DEF IsList
<1>2. Len(s) \in Nat /\ k \in Nat /\ k <= Len(s)
  BY <1>1
<1>3. /\ SubSeq(s, 1, k) \in Seq(S)
      /\ Len(SubSeq(s, 1, k)) = IF 1 <= k THEN k - 1 + 1 ELSE 0
      /\ \A i \in 1..k - 1 + 1 : SubSeq(s, 1, k)[i] = s[1 + i - 1]
  BY <1>1, <1>2, SubSeqProperties
<1>4. k - 1 + 1 = k /\ \A i \in 1..k : 1 + i - 1 = i
  BY <1>2
<1> QED BY <1>2, <1>3, <1>4 DEF IsList

\* Two lists that begin alike.
LEMMA SamePrefix ==
  ASSUME NEW s, NEW t, IsList(s), IsList(t), NEW k \in Nat, k <= Len(s), k <= Len(t),
         \A i \in 1..k : s[i] = t[i]
  PROVE  SubSeq(s, 1, k) = SubSeq(t, 1, k)
<1>1. \A i \in 1..k : 1 + i - 1 = i
  OBVIOUS
<1>2. \A i \in 1..k : s[i] \in {t[j] : j \in 1..k} /\ t[i] \in {t[j] : j \in 1..k}
  OBVIOUS
<1> DEFINE T == {t[j] : j \in 1..k}
<1>3. SubSeq(s, 1, k) \in Seq(T) /\ SubSeq(t, 1, k) \in Seq(T)
  <2>1. (\A i \in 1..k : s[i] \in T) /\ (\A i \in 1..k : t[i] \in T) /\ 1 \in Int /\ k \in Int
    BY <1>2
  <2> HIDE DEF T
  <2> QED BY <2>1, SubSeqProperties
<1>4. /\ Len(SubSeq(s, 1, k)) = k /\ Len(SubSeq(t, 1, k)) = k
      /\ \A i \in 1..k : SubSeq(s, 1, k)[i] = s[i] /\ SubSeq(t, 1, k)[i] = t[i]
  <2>1. k \in 0..Len(s) /\ k \in 0..Len(t)
    BY ListFacts
  <2> QED BY <2>1, PrefixList
<1> QED BY <1>3, <1>4, SeqEqual

LEMMA WholePrefix ==
  ASSUME NEW s, IsList(s)
  PROVE  SubSeq(s, 1, Len(s)) = s
<1>1. PICK S : s \in Seq(S)
  BY DEF IsList
<1> QED BY <1>1, SubSeqFull

----------------------------------------------------------------------------
(* What is written of a well laid file is well laid. *)

LEMMA LaidPrefix ==
  ASSUME NEW s, Laid(s), NEW k \in 0..Len(s)
  PROVE  /\ Laid(SubSeq(s, 1, k)) /\ Len(SubSeq(s, 1, k)) = k
         /\ \A i \in 1..k : Found(SubSeq(s, 1, k), i) => Found(s, i)
         /\ CodeOf(SubSeq(s, 1, k), s)
<1> DEFINE t == SubSeq(s, 1, k)
<1>1. IsList(s) /\ Len(s) \in Nat /\ DOMAIN s = 1..Len(s)
  BY ListFacts DEF Laid
<1>2. IsList(t) /\ Len(t) = k /\ (\A i \in 1..k : t[i] = s[i] /\ i \in 1..Len(s))
  BY <1>1, PrefixList
<1> HIDE DEF t
<1>3. DOMAIN t = 1..k /\ k \in Nat
  BY <1>1, <1>2, ListFacts
<1>4. ASSUME NEW i \in 1..k
      PROVE  SubSeq(t, 1, i - 1) = SubSeq(s, 1, i - 1)
  <2>1. i - 1 \in Nat /\ i - 1 <= Len(s) /\ i - 1 <= Len(t) /\ \A j \in 1..(i - 1) : t[j] = s[j]
    BY <1>1, <1>2
  <2> QED BY <1>1, <1>2, <2>1, SamePrefix
<1>5. ASSUME NEW i \in 1..k, Found(t, i)
      PROVE  Found(s, i)
  <2>1. s # <<>> /\ t # <<>> /\ t[1] = s[1]
    BY <1>1, <1>2, ListFacts
  <2>2. is_wasm(s) <=> is_wasm(t)
    BY <2>1 DEF is_wasm
  <2>3. \A j \in 1..(i - 1) : j \in 1..k
    BY <1>3
  <2> QED BY <1>2, <1>5, <2>2, <2>3 DEF Found
<1>6. \A i \in 1..k : Found(t, i) => i = k
  <2> SUFFICES ASSUME NEW i \in 1..k, Found(t, i)
               PROVE  i = k
    OBVIOUS
  <2>1. i = Len(s)
    BY <1>1, <1>2, <1>5 DEF Laid
  <2>2. i <= k /\ k <= Len(s) /\ i \in Int /\ k \in Int /\ Len(s) \in Int
    BY <1>3, <1>1
  <2> QED BY <2>1, <2>2
<1>7. \A i \in 1..k : IsSegment(t[i]) /\ (WholeSig(t[i]) => t[i].over = SubSeq(t, 1, i - 1))
  BY <1>1, <1>2, <1>4 DEF Laid
<1>8. Laid(t)
  BY <1>2, <1>3, <1>6, <1>7 DEF Laid
<1>9. CodeOf(t, s)
  BY <1>1, <1>2, <1>3 DEF CodeOf
<1> QED BY <1>2, <1>5, <1>8, <1>9 DEF t

LEMMA LaidSigned ==
  ASSUME NEW s, Laid(s), Bare(s)
  PROVE  /\ Laid(Append(s, Signature(s))) /\ Len(Append(s, Signature(s))) = Len(s) + 1
         /\ Append(s, Signature(s))[Len(s) + 1] = Signature(s)
         /\ CodeOf(Append(s, Signature(s)), s)
<1> DEFINE t == Append(s, Signature(s))
           n == Len(s) + 1
<1>1. IsList(s) /\ Len(s) \in Nat /\ DOMAIN s = 1..Len(s)
  BY ListFacts DEF Laid
<1>2. IsList(t) /\ Len(t) = n /\ (\A i \in 1..Len(s) : t[i] = s[i]) /\ t[n] = Signature(s)
  BY <1>1, AppendList
<1> HIDE DEF t
<1>3. DOMAIN t = 1..n /\ n \in Nat /\ \A i \in 1..n : i \in 1..Len(s) \/ i = n
  BY <1>1, <1>2, ListFacts
<1>4. IsSegment(t[n]) /\ t[n].what = "sig" /\ t[n].over = s
  BY <1>2 DEF IsSegment, Signature
<1>5. ASSUME NEW i \in 1..n
      PROVE  SubSeq(t, 1, i - 1) = SubSeq(s, 1, i - 1)
  <2>1. i - 1 \in Nat /\ i - 1 <= Len(s) /\ i - 1 <= Len(t) /\ \A j \in 1..(i - 1) : t[j] = s[j]
    BY <1>1, <1>2
  <2> QED BY <1>1, <1>2, <2>1, SamePrefix
<1>6. ASSUME NEW i \in 1..n
      PROVE  /\ IsSegment(t[i])
             /\ WholeSig(t[i]) => t[i].over = SubSeq(t, 1, i - 1)
  <2>1. CASE i \in 1..Len(s)
    BY <1>1, <1>2, <1>5, <2>1 DEF Laid
  <2>2. CASE i = n
    <3>1. i - 1 = Len(s)
      BY <1>1, <2>2
    <3>2. SubSeq(t, 1, i - 1) = s
      BY <1>1, <1>5, <3>1, WholePrefix
    <3> QED BY <1>4, <2>2, <3>2
  <2> QED BY <1>3, <2>1, <2>2
<1>7. ASSUME NEW i \in 1..n, Found(t, i)
      PROVE  i = n
  <2> SUFFICES ASSUME i \in 1..Len(s)
               PROVE  FALSE
    BY <1>3
  <2>1. s # <<>> /\ t # <<>> /\ t[1] = s[1]
    BY <1>1, <1>2, ListFacts
  <2>2. is_wasm(s) <=> is_wasm(t)
    BY <2>1 DEF is_wasm
  <2>3. \A j \in 1..(i - 1) : j \in 1..Len(s)
    BY <1>1
  <2>4. Found(s, i)
    BY <1>2, <1>7, <2>2, <2>3 DEF Found
  <2> QED BY <1>1, <2>4 DEF Bare
<1>8. Laid(t)
  BY <1>2, <1>3, <1>6, <1>7 DEF Laid
<1>9. CodeOf(t, s)
  BY <1>1, <1>2, <1>3, <1>4 DEF CodeOf
<1> QED BY <1>2, <1>8, <1>9 DEF t

LEMMA LaidCut ==
  ASSUME NEW s, Laid(s), NEW k \in DOMAIN s
  PROVE  LET t == Append(SubSeq(s, 1, k - 1), [s[k] EXCEPT !.cut = TRUE])
         IN  Laid(t) /\ Len(t) = k /\ CodeOf(t, s)
<1> DEFINE u == SubSeq(s, 1, k - 1)
           x == [s[k] EXCEPT !.cut = TRUE]
           t == Append(u, x)
<1>1. IsList(s) /\ Len(s) \in Nat /\ DOMAIN s = 1..Len(s) /\ k \in 1..Len(s)
  BY ListFacts DEF Laid
<1>2. k - 1 \in 0..Len(s) /\ k - 1 \in Nat /\ k \in Nat
  BY <1>1
<1>3. /\ Laid(u) /\ IsList(u) /\ Len(u) = k - 1 /\ DOMAIN u = 1..(k - 1)
      /\ \A i \in 1..(k - 1) : u[i] = s[i]
  BY <1>1, <1>2, LaidPrefix, PrefixList, ListFacts
<1>4. IsSegment(s[k])
  BY DEF Laid
<1>5. /\ IsSegment(x) /\ ~WholeSig(x) /\ x.what = s[k].what
      /\ x.what # "sig" => x.cpp = s[k].cpp
  BY <1>4 DEF IsSegment, WholeSig
<1> HIDE DEF u, x
<1>6. IsList(t) /\ Len(t) = k /\ (\A i \in 1..(k - 1) : t[i] = s[i]) /\ t[k] = x
  <2>1. k - 1 + 1 = k
    BY <1>2
  <2> QED BY <1>3, <2>1, AppendList
<1> HIDE DEF t
<1>7. DOMAIN t = 1..k /\ \A i \in 1..k : (i \in 1..(k - 1) \/ i = k) /\ i \in 1..Len(s)
  BY <1>1, <1>2, <1>6, ListFacts
<1>8. ASSUME NEW i \in 1..k
      PROVE  /\ IsSegment(t[i])
             /\ WholeSig(t[i]) => t[i].over = SubSeq(t, 1, i - 1)
             /\ Found(t, i) => i = k
  <2>1. CASE i = k
    BY <1>5, <1>6, <2>1
  <2>2. CASE i \in 1..(k - 1)
    <3>1. t[i] = s[i] /\ i \in DOMAIN s
      BY <1>1, <1>6, <1>7, <2>2
    <3>2. SubSeq(t, 1, i - 1) = SubSeq(s, 1, i - 1)
      <4>1. /\ i - 1 \in Nat /\ i - 1 <= Len(s) /\ i - 1 <= Len(t)
            /\ \A j \in 1..(i - 1) : t[j] = s[j]
        BY <1>1, <1>2, <1>6, <2>2
      <4> QED BY <1>1, <1>6, <4>1, SamePrefix
    <3>3. Found(t, i) => Found(s, i)
      <4>1. s # <<>> /\ t # <<>> /\ t[1] = s[1]
        <5>1. 1 \in 1..(k - 1) /\ s # <<>> /\ t # <<>>
          BY <1>1, <1>2, <1>6, <2>2, ListFacts
        <5> QED BY <1>6, <5>1
      <4>2. is_wasm(s) <=> is_wasm(t)
        BY <4>1 DEF is_wasm
      <4>3. \A j \in 1..(i - 1) : j \in 1..(k - 1)
        BY <1>2, <2>2
      <4> QED BY <1>6, <3>1, <4>2, <4>3 DEF Found
    <3>4. i # Len(s)
      <4>1. i <= k - 1 /\ k <= Len(s) /\ i \in Int /\ k \in Int /\ Len(s) \in Int
        BY <1>1, <1>2, <2>2
      <4> QED BY <4>1
    <3> QED BY <3>1, <3>2, <3>3, <3>4 DEF Laid
  <2> QED BY <1>7, <2>1, <2>2
<1>9. Laid(t)
  BY <1>6, <1>7, <1>8 DEF Laid
<1>10. CodeOf(t, s)
  BY <1>1, <1>5, <1>6, <1>7 DEF CodeOf
<1> QED BY <1>6, <1>9, <1>10 DEF t, u, x

LEMMA LaidBeginnings ==
  ASSUME NEW s, Laid(s), NEW t \in Beginnings(s)
  PROVE  Laid(t) /\ Len(t) <= Len(s) /\ CodeOf(t, s)
<1>1. Len(s) \in Nat /\ DOMAIN s = 1..Len(s)
  BY ListFacts DEF Laid
<1>2. ASSUME NEW k \in 0..(Len(s) - 1), t = SubSeq(s, 1, k)
      PROVE  Laid(t) /\ Len(t) <= Len(s) /\ CodeOf(t, s)
  <2>1. k \in 0..Len(s) /\ k <= Len(s)
    BY <1>1
  <2> QED BY <1>2, <2>1, LaidPrefix
<1>3. ASSUME NEW k \in DOMAIN s, t = Append(SubSeq(s, 1, k - 1), [s[k] EXCEPT !.cut = TRUE])
      PROVE  Laid(t) /\ Len(t) <= Len(s) /\ CodeOf(t, s)
  <2>1. k <= Len(s)
    BY <1>1
  <2> QED BY <1>3, <2>1, LaidCut
<1> QED BY <1>2, <1>3 DEF Beginnings

\* A signature at the end that sign.py finds is what it takes out.
LEMMA RemovedLast ==
  ASSUME NEW s, Laid(s), Len(s) \in DOMAIN s, Found(s, Len(s))
  PROVE  remove_old_signature(s) = SubSeq(s, 1, Len(s) - 1)
<1> DEFINE n == Len(s)
<1>1. IsList(s) /\ Len(s) \in Nat /\ DOMAIN s = 1..Len(s)
  BY ListFacts DEF Laid
<1>2. n \in DOMAIN s /\ Found(s, n) /\ n - 1 \in 0..Len(s) /\ s # <<>>
  BY <1>1, ListFacts
<1>3. CASE is_wasm(s)
  <2>1. find_sig_section(s) = {n}
    <3>1. \A i \in DOMAIN s : i \in find_sig_section(s) <=> Found(s, i)
      BY <1>3 DEF find_sig_section, Found
    <3> QED BY <1>2, <3>1 DEF find_sig_section, Laid
  <2>2. SubSeq(s, n + 1, Len(s)) = <<>>
    BY <1>1, SubSeqEmpty
  <2>3. remove_old_signature(s) = SubSeq(s, 1, n - 1) \o <<>>
    <3>1. DOMAIN s \ {n} # DOMAIN s
      BY <1>2
    <3>2. (CHOOSE k \in {n} : TRUE) = n
      OBVIOUS
    <3> QED BY <1>3, <2>1, <2>2, <3>1, <3>2 DEF remove_old_signature
  <2>4. SubSeq(s, 1, n - 1) \o <<>> = SubSeq(s, 1, n - 1)
    <3>1. IsList(SubSeq(s, 1, n - 1))
      BY <1>1, <1>2, PrefixList
    <3> QED BY <3>1, ConcatEmptySeq DEF IsList
  <2> QED BY <2>3, <2>4
<1>4. CASE ~is_wasm(s)
  BY <1>2, <1>4 DEF remove_old_signature, Found
<1> QED BY <1>3, <1>4

\* What sign.py takes out is at the end, and leaves nothing it would find.
LEMMA RemovedEnd ==
  ASSUME NEW s, Laid(s)
  PROVE  \E k \in 0..Len(s) : /\ remove_old_signature(s) = SubSeq(s, 1, k)
                              /\ Bare(SubSeq(s, 1, k))
<1>1. IsList(s) /\ Len(s) \in Nat /\ DOMAIN s = 1..Len(s)
  BY ListFacts DEF Laid
<1>2. SubSeq(s, 1, Len(s)) = s /\ Len(s) \in 0..Len(s)
  BY <1>1, WholePrefix
<1>3. CASE Bare(s)
  <2>1. CASE is_wasm(s)
    <3>1. find_sig_section(s) = {}
      BY <1>3, <2>1 DEF find_sig_section, Bare, Found
    <3>2. remove_old_signature(s) = s
      BY <2>1, <3>1 DEF remove_old_signature
    <3> QED BY <1>2, <1>3, <3>2
  <2>2. CASE ~is_wasm(s)
    <3>1. ~(s # <<>> /\ WholeSig(s[Len(s)]))
      BY <1>1, <1>3, <2>2, ListFacts DEF Bare, Found
    <3>2. remove_old_signature(s) = s
      BY <2>2, <3>1 DEF remove_old_signature
    <3> QED BY <1>2, <1>3, <3>2
  <2> QED BY <2>1, <2>2
<1>4. CASE ~Bare(s)
  <2> DEFINE n == Len(s)
  <2>1. n \in DOMAIN s /\ Found(s, n) /\ n \in 1..Len(s) /\ n - 1 \in 0..Len(s) /\ s # <<>>
    BY <1>1, <1>4, ListFacts DEF Bare, Laid
  <2>2. Bare(SubSeq(s, 1, n - 1))
    <3>1. /\ Len(SubSeq(s, 1, n - 1)) = n - 1 /\ DOMAIN SubSeq(s, 1, n - 1) = 1..(n - 1)
          /\ \A i \in 1..(n - 1) : Found(SubSeq(s, 1, n - 1), i) => Found(s, i)
      BY <1>1, <2>1, LaidPrefix, PrefixList, ListFacts
    <3>2. \A i \in 1..(n - 1) : i \in DOMAIN s /\ i # n
      <4> SUFFICES ASSUME NEW i \in 1..(n - 1)
                   PROVE  i \in 1..n /\ i # n
        BY <1>1
      <4>1. n \in Nat
        BY <1>1
      <4> HIDE DEF n
      <4> QED BY <4>1
    <3> QED BY <3>1, <3>2 DEF Bare, Laid
  <2> QED BY <2>1, <2>2, RemovedLast
<1> QED BY <1>3, <1>4

LEMMA LaidCode ==
  ASSUME NEW k \in File, NEW c, NEW h
  PROVE  /\ Laid(<<Code(k, c, h)>>) /\ Len(<<Code(k, c, h)>>) = 1
         /\ \A i \in DOMAIN <<Code(k, c, h)>> : <<Code(k, c, h)>>[i].cpp = c
<1> DEFINE x == Code(k, c, h)
<1>1. IsSegment(x) /\ ~WholeSig(x) /\ x.cpp = c
  BY DEF Code, File, IsSegment, WholeSig
<1> HIDE DEF x
<1>2. IsList(<<x>>) /\ Len(<<x>>) = 1 /\ DOMAIN <<x>> = {1} /\ <<x>>[1] = x
  <2>1. <<x>> \in Seq({x})
    OBVIOUS
  <2>2. IsList(<<x>>)
    BY <2>1 DEF IsList
  <2>3. Len(<<x>>) = 1 /\ <<x>>[1] = x
    OBVIOUS
  <2>4. 1..1 = {1}
    OBVIOUS
  <2> QED BY <2>2, <2>3, <2>4, ListFacts
<1>3. Laid(<<x>>)
  BY <1>1, <1>2 DEF Laid, Found
<1> QED BY <1>1, <1>2, <1>3 DEF x

LEMMA LaidEmpty == Laid(<<>>) /\ Len(<<>>) = 0
<1>1. IsList(<<>>)
  <2>1. <<>> \in Seq({})
    OBVIOUS
  <2> QED BY <2>1 DEF IsList
<1> QED BY <1>1 DEF Laid

----------------------------------------------------------------------------
(* The invariant. *)

FilesLaid == \A f \in File : Laid(file[f])

\* Where sign.py holds the unsigned file.
Holding == at \in {"open", "body", "sig"}

BufferReady ==
  /\ Holding => Laid(buf) /\ Bare(buf) /\ Len(buf) <= MaxSegments
  /\ at = "read" => Len(file[target]) <= MaxSegments

SignerFits ==
  /\ wamrc \/ target = "wasm"
  /\ at \in {"read", "open", "body", "sig"} /\ who = "make" => target = Final
  /\ at = "touch" => who = "make"

IsSigned(s) == s # <<>> /\ WholeSig(s[Len(s)])

StampMeans ==
  /\ "stamp" \notin stale \/ at = "touch" => IsSigned(file[Final])
  /\ at \in {"body", "sig"} /\ target = Final => "stamp" \in stale

\* No rule of make that leads to f has work to do.
Renewed(f) == "wasm" \notin stale /\ (f = "aot" => wamrc /\ "aot" \notin stale)

Current ==
  \A f \in File : Renewed(f) =>
    Fresh(file[f]) /\ (Holding /\ target = f => Fresh(buf))

BuildInv ==
  /\ TypeOK
  /\ FilesLaid
  /\ BufferReady
  /\ SignerFits
  /\ StampMeans
  /\ Current

LEMMA Bounds ==
  ASSUME BuildInv
  PROVE  /\ MaxSegments \in Nat /\ MaxEdits \in Nat
         /\ Final \in File /\ target \in File
         /\ \A f \in File : Len(file[f]) \in Nat
         /\ DOMAIN file = File
<1>1. \A f \in File : Len(file[f]) \in Nat
  BY ListFacts DEF BuildInv, FilesLaid, Laid
<1> QED BY <1>1, EditsAssumption DEF BuildInv, TypeOK, Final, File

\* One file is written, with a well laid one.
LEMMA Written ==
  ASSUME BuildInv, NEW f \in File, NEW s, Write(f, s), Laid(s), Len(s) <= MaxSegments + 1
  PROVE  /\ DOMAIN file' = File /\ file'[f] = s
         /\ \A g \in File : g # f => file'[g] = file[g]
         /\ FilesLaid'
         /\ \A g \in File : Len(file'[g]) <= MaxSegments + 1
         /\ made' = made \cup {f}
<1>1. DOMAIN file = File
  BY DEF BuildInv, TypeOK
<1>2. /\ DOMAIN file' = File /\ file'[f] = s
      /\ \A g \in File : g # f => file'[g] = file[g]
      /\ made' = made \cup {f}
  BY <1>1 DEF Write
<1>3. \A g \in File : Laid(file'[g]) /\ Len(file'[g]) <= MaxSegments + 1
  BY <1>2 DEF BuildInv, FilesLaid, TypeOK
<1> QED BY <1>2, <1>3 DEF FilesLaid

----------------------------------------------------------------------------
(* Steps that write no file. *)

LEMMA MovesKeep ==
  ASSUME BuildInv,
         StartMake \/ AotFails \/ UpToDate \/ Interrupt \/ EditHeader
  PROVE  BuildInv'
<1>1. UNCHANGED <<cpp, wamrc, file, made, stale, who, target, buf>>
  BY DEF StartMake, AotFails, UpToDate, Interrupt, EditHeader, signer
<1>2. hdr' \in 0..MaxEdits
  BY EditsAssumption
  DEF StartMake, AotFails, UpToDate, Interrupt, EditHeader, BuildInv, TypeOK
<1>3. at' = at \/ at' \in {"idle", "compile", "aot", "sign"}
  BY DEF StartMake, AotFails, UpToDate, Interrupt, EditHeader
<1>4. TypeOK'
  BY <1>1, <1>2, <1>3 DEF BuildInv, TypeOK
<1>5. FilesLaid'
  BY <1>1 DEF BuildInv, FilesLaid
<1>6. BufferReady' /\ SignerFits'
  BY <1>1, <1>3 DEF BuildInv, BufferReady, SignerFits, Holding, Final
<1>7. StampMeans'
  BY <1>1, <1>3 DEF BuildInv, StampMeans, Final
<1>8. Current'
  BY <1>1, <1>3 DEF BuildInv, Current, Renewed, Fresh, Holding
<1> QED BY <1>4, <1>5, <1>6, <1>7, <1>8 DEF BuildInv

LEMMA EditSourceKeeps ==
  ASSUME BuildInv, EditSource
  PROVE  BuildInv'
<1>1. /\ UNCHANGED <<hdr, wamrc, file, made, at, who, target, buf>>
      /\ stale' = stale \cup {"wasm"} /\ cpp' \in 0..MaxEdits
  BY EditsAssumption DEF EditSource, signer, BuildInv, TypeOK
<1>2. TypeOK'
  BY <1>1 DEF BuildInv, TypeOK
<1>3. FilesLaid' /\ BufferReady' /\ SignerFits' /\ StampMeans'
  BY <1>1 DEF BuildInv, FilesLaid, BufferReady, SignerFits, StampMeans, Holding, Final
<1>4. Current'
  BY <1>1 DEF Current, Renewed
<1> QED BY <1>2, <1>3, <1>4 DEF BuildInv

LEMMA TouchKeeps ==
  ASSUME BuildInv, Touch
  PROVE  BuildInv'
<1>1. /\ UNCHANGED <<cpp, hdr, wamrc, file, made, who, target, buf>>
      /\ at = "touch" /\ at' = "idle" /\ stale' = stale \ {"stamp"}
  BY DEF Touch, signer
<1>2. TypeOK'
  BY <1>1 DEF BuildInv, TypeOK
<1>3. FilesLaid' /\ BufferReady' /\ SignerFits'
  BY <1>1 DEF BuildInv, FilesLaid, BufferReady, SignerFits, Holding, Final
<1>4. StampMeans'
  BY <1>1 DEF BuildInv, StampMeans, Final
<1>5. Current'
  BY <1>1 DEF BuildInv, Current, Renewed, Fresh, Holding
<1> QED BY <1>2, <1>3, <1>4, <1>5 DEF BuildInv

LEMMA StartSigningKeeps ==
  ASSUME BuildInv, StartSign \/ \E f \in File : SignByHand(f)
  PROVE  BuildInv'
<1>1. /\ UNCHANGED <<cpp, hdr, wamrc, file, made, stale, buf>>
      /\ at' = "read" /\ who' \in {"make", "hand"}
      /\ who' = "make" => target' = Final
      /\ target' \in File /\ (wamrc \/ target' = "wasm") /\ Len(file[target']) <= MaxSegments
  BY DEF StartSign, SignByHand, BuildInv, TypeOK, File, Final
<1>2. TypeOK'
  BY <1>1 DEF BuildInv, TypeOK
<1>3. FilesLaid' /\ BufferReady' /\ SignerFits'
  BY <1>1 DEF BuildInv, FilesLaid, BufferReady, SignerFits, Holding, Final
<1>4. StampMeans'
  BY <1>1 DEF BuildInv, StampMeans, Final, StartSign, SignByHand
<1>5. Current'
  BY <1>1 DEF BuildInv, Current, Renewed, Fresh, Holding
<1> QED BY <1>2, <1>3, <1>4, <1>5 DEF BuildInv

LEMMA ReadKeeps ==
  ASSUME BuildInv, Read
  PROVE  BuildInv'
<1>1. /\ UNCHANGED <<cpp, hdr, wamrc, file, made, stale, who, target>>
      /\ at = "read" /\ at' = "open" /\ buf' = remove_old_signature(file[target])
  BY DEF Read
<1>2. target \in File /\ Laid(file[target]) /\ Len(file[target]) <= MaxSegments
      /\ Len(file[target]) \in Nat /\ MaxSegments \in Nat
  BY <1>1, Bounds DEF BuildInv, FilesLaid, BufferReady
<1>3. PICK k \in 0..Len(file[target]) : /\ buf' = SubSeq(file[target], 1, k)
                                        /\ Bare(SubSeq(file[target], 1, k))
  BY <1>1, <1>2, RemovedEnd
<1>4. Laid(buf') /\ Bare(buf') /\ Len(buf') = k /\ CodeOf(buf', file[target])
  BY <1>2, <1>3, LaidPrefix
<1>5. Len(buf') <= MaxSegments
  BY <1>2, <1>4
<1>6. TypeOK'
  BY <1>1 DEF BuildInv, TypeOK
<1>7. FilesLaid' /\ BufferReady' /\ SignerFits'
  BY <1>1, <1>4, <1>5 DEF BuildInv, FilesLaid, BufferReady, SignerFits, Holding, Final
<1>8. StampMeans'
  BY <1>1 DEF BuildInv, StampMeans, Final
<1>9. Current'
  <2> SUFFICES ASSUME NEW f \in File, Renewed(f)
               PROVE  Fresh(file[f])' /\ (target = f => Fresh(buf)')
    BY <1>1 DEF Current, Renewed
  <2>1. Fresh(file[f])
    BY DEF BuildInv, Current
  <2>2. Fresh(file[f])'
    BY <1>1, <2>1 DEF Fresh
  <2>3. ASSUME target = f
        PROVE  Fresh(buf)'
    BY <1>1, <1>4, <2>1, <2>3 DEF CodeOf, Fresh
  <2> QED BY <2>2, <2>3
<1> QED BY <1>6, <1>7, <1>8, <1>9 DEF BuildInv

----------------------------------------------------------------------------
(* Steps that write a file. *)

LEMMA CompileKeeps ==
  ASSUME BuildInv, Compile
  PROVE  BuildInv'
<1> DEFINE s == <<Code("wasm", cpp, hdr)>>
<1>1. /\ UNCHANGED <<cpp, hdr, wamrc, who, target, buf>>
      /\ at = "compile" /\ at' = "aot" /\ Write("wasm", s)
      /\ stale' = (stale \ {"wasm"}) \cup {Dependent("wasm")}
  BY DEF Compile, signer
<1>2. "wasm" \in File /\ Laid(s) /\ Len(s) = 1 /\ \A i \in DOMAIN s : s[i].cpp = cpp
  BY LaidCode DEF File
<1> HIDE DEF s
<1>3. Len(s) <= MaxSegments + 1
  BY <1>2, Bounds
<1>4. /\ DOMAIN file' = File /\ file'["wasm"] = s
      /\ \A g \in File : g # "wasm" => file'[g] = file[g]
      /\ FilesLaid'
      /\ \A g \in File : Len(file'[g]) <= MaxSegments + 1
      /\ made' = made \cup {"wasm"}
  BY <1>1, <1>2, <1>3, Written
<1>5. TypeOK'
  BY <1>1, <1>4 DEF BuildInv, TypeOK, Dependent, File
<1>6. BufferReady' /\ SignerFits'
  BY <1>1 DEF BuildInv, BufferReady, SignerFits, Holding, Final
<1>7. StampMeans'
  <2>1. CASE wamrc
    <3>1. Final = "aot" /\ Final' = "aot" /\ file'["aot"] = file["aot"]
      BY <1>1, <1>4, <2>1 DEF Final, File
    <3>2. "stamp" \notin stale' => "stamp" \notin stale
      BY <1>1
    <3> QED BY <1>1, <3>1, <3>2 DEF BuildInv, StampMeans
  <2>2. CASE ~wamrc
    BY <1>1, <2>2 DEF StampMeans, Dependent
  <2> QED BY <2>1, <2>2
<1>8. Current'
  <2> SUFFICES ASSUME NEW f \in File, Renewed(f)'
               PROVE  Fresh(file[f])'
    BY <1>1 DEF Current, Holding
  <2>1. f = "wasm"
    BY <1>1 DEF Renewed, Dependent, File
  <2> QED BY <1>1, <1>2, <1>4, <2>1 DEF Fresh
<1> QED BY <1>4, <1>5, <1>6, <1>7, <1>8 DEF BuildInv

LEMMA CompileAotKeeps ==
  ASSUME BuildInv, CompileAot
  PROVE  BuildInv'
<1> DEFINE c == file["wasm"][1].cpp
           h == file["wasm"][1].hdr
           s == <<Code("aot", c, h)>>
<1>1. /\ UNCHANGED <<cpp, hdr, wamrc, who, target, buf>>
      /\ at = "aot" /\ at' = "sign" /\ Write("aot", s) /\ wamrc
      /\ stale' = (stale \ {"aot"}) \cup {"stamp"}
      /\ Unsigned(file["wasm"]) = {1}
  BY DEF CompileAot, signer
<1>2. "aot" \in File /\ "wasm" \in File /\ Laid(s) /\ Len(s) = 1
      /\ \A i \in DOMAIN s : s[i].cpp = c
  <2>1. "aot" \in File /\ "wasm" \in File
    BY DEF File
  <2> HIDE DEF c, h
  <2> QED BY <2>1, LaidCode
<1>3. "wasm" \notin stale => c = cpp
  BY <1>1, <1>2 DEF Unsigned, BuildInv, Current, Renewed, Fresh
<1> HIDE DEF s, c
<1>4. Len(s) <= MaxSegments + 1
  BY <1>2, Bounds
<1>5. /\ DOMAIN file' = File /\ file'["aot"] = s
      /\ \A g \in File : g # "aot" => file'[g] = file[g]
      /\ FilesLaid'
      /\ \A g \in File : Len(file'[g]) <= MaxSegments + 1
      /\ made' = made \cup {"aot"}
  BY <1>1, <1>2, <1>4, Written
<1>6. TypeOK'
  BY <1>1, <1>5 DEF BuildInv, TypeOK, File
<1>7. BufferReady' /\ SignerFits'
  BY <1>1 DEF BuildInv, BufferReady, SignerFits, Holding, Final
<1>8. StampMeans'
  BY <1>1 DEF StampMeans
<1>9. Current'
  <2> SUFFICES ASSUME NEW f \in File, Renewed(f)'
               PROVE  Fresh(file[f])'
    BY <1>1 DEF Current, Holding
  <2>1. CASE f = "wasm"
    <3>1. Fresh(file["wasm"])
      BY <1>1, <1>2, <2>1 DEF BuildInv, Current, Renewed
    <3>2. file'["wasm"] = file["wasm"]
      BY <1>2, <1>5
    <3> QED BY <1>1, <2>1, <3>1, <3>2 DEF Fresh
  <2>2. CASE f = "aot"
    <3>1. c = cpp
      BY <1>1, <1>3, <2>2 DEF Renewed
    <3> QED BY <1>1, <1>2, <1>5, <2>2, <3>1 DEF Fresh
  <2> QED BY <2>1, <2>2 DEF File
<1> QED BY <1>5, <1>6, <1>7, <1>8, <1>9 DEF BuildInv

LEMMA TruncateKeeps ==
  ASSUME BuildInv, Truncate
  PROVE  BuildInv'
<1>1. /\ UNCHANGED <<cpp, hdr, wamrc, who, target, buf>>
      /\ at = "open" /\ at' = "body" /\ Write(target, <<>>)
      /\ stale' = stale \cup {Dependent(target)}
  BY DEF Truncate, signer
<1>2. target \in File /\ Len(<<>>) <= MaxSegments + 1
  BY Bounds, LaidEmpty
<1>3. /\ DOMAIN file' = File /\ file'[target] = <<>>
      /\ \A g \in File : g # target => file'[g] = file[g]
      /\ FilesLaid'
      /\ \A g \in File : Len(file'[g]) <= MaxSegments + 1
      /\ made' = made \cup {target}
  BY <1>1, <1>2, LaidEmpty, Written
<1>4. wamrc \/ target = "wasm"
  BY DEF BuildInv, SignerFits
<1>5. TypeOK'
  BY <1>1, <1>2, <1>3, <1>4 DEF BuildInv, TypeOK, Dependent, File
<1>6. BufferReady' /\ SignerFits'
  BY <1>1 DEF BuildInv, BufferReady, SignerFits, Holding, Final
<1>7. StampMeans'
  <2>1. CASE target = Final
    <3>1. "stamp" \in stale'
      BY <1>1, <2>1 DEF Final, Dependent
    <3> QED BY <1>1, <3>1 DEF StampMeans
  <2>2. CASE target # Final
    <3>1. file'[Final] = file[Final] /\ Final' = Final
      BY <1>1, <1>3, <2>2, Bounds DEF Final
    <3>2. IsSigned(file[Final]) => IsSigned(file'[Final'])
      BY <3>1
    <3> QED BY <1>1, <2>2, <3>1, <3>2 DEF BuildInv, StampMeans
  <2> QED BY <2>1, <2>2
<1>8. Current'
  <2> SUFFICES ASSUME NEW f \in File, Renewed(f)'
               PROVE  Fresh(file[f])' /\ (target = f => Fresh(buf)')
    BY <1>1 DEF Current, Holding
  <2>1. Renewed(f)
    BY <1>1 DEF Renewed
  <2>2. Fresh(file[f]) /\ (target = f => Fresh(buf))
    BY <1>1, <2>1 DEF BuildInv, Current, Holding
  <2>3. Fresh(file[f])'
    <3>1. CASE f = target
      BY <1>3, <3>1 DEF Fresh
    <3>2. CASE f # target
      BY <1>1, <1>3, <2>2, <3>2 DEF Fresh
    <3> QED BY <3>1, <3>2
  <2> QED BY <1>1, <2>2, <2>3 DEF Fresh
<1> QED BY <1>3, <1>5, <1>6, <1>7, <1>8 DEF BuildInv

\* The three steps that write what sign.py holds, with the signature or not,
\* and as far as it goes.
LEMMA WritingKeeps ==
  ASSUME BuildInv, at \in {"body", "sig"},
         NEW s, Laid(s), Len(s) <= MaxSegments + 1, CodeOf(s, buf), Write(target, s),
         UNCHANGED <<cpp, hdr, wamrc, stale, who, target, buf>>,
         at' \in {"sig", "touch", "idle"},
         at' = "touch" => who = "make" /\ IsSigned(s)
  PROVE  BuildInv'
<1>1. target \in File
  BY Bounds
<1>2. /\ DOMAIN file' = File /\ file'[target] = s
      /\ \A g \in File : g # target => file'[g] = file[g]
      /\ FilesLaid'
      /\ \A g \in File : Len(file'[g]) <= MaxSegments + 1
      /\ made' = made \cup {target}
  BY <1>1, Written
<1>3. wamrc \/ target = "wasm"
  BY DEF BuildInv, SignerFits
<1>4. TypeOK'
  BY <1>1, <1>2, <1>3 DEF BuildInv, TypeOK, File
<1>5. BufferReady' /\ SignerFits'
  BY DEF BuildInv, BufferReady, SignerFits, Holding, Final
<1>6. StampMeans'
  <2>1. CASE target = Final
    <3>1. "stamp" \in stale' /\ file'[Final'] = s
      BY <1>2, <2>1 DEF BuildInv, StampMeans, Final
    <3> QED BY <3>1 DEF StampMeans
  <2>2. CASE target # Final
    <3>1. file'[Final] = file[Final] /\ Final' = Final
      BY <1>2, <2>2, Bounds DEF Final
    <3>2. IsSigned(file[Final]) => IsSigned(file'[Final'])
      BY <3>1
    <3>3. at' # "touch"
      BY <2>2 DEF BuildInv, SignerFits
    <3> QED BY <2>2, <3>1, <3>2, <3>3 DEF BuildInv, StampMeans
  <2> QED BY <2>1, <2>2
<1>7. Current'
  <2> SUFFICES ASSUME NEW f \in File, Renewed(f)
               PROVE  Fresh(file[f])' /\ (target = f => Fresh(buf)')
    BY DEF Current, Renewed
  <2>1. Fresh(file[f]) /\ (target = f => Fresh(buf))
    BY DEF BuildInv, Current, Holding
  <2>2. Fresh(file[f])'
    <3>1. CASE f = target
      BY <1>2, <2>1, <3>1 DEF CodeOf, Fresh
    <3>2. CASE f # target
      BY <1>2, <2>1, <3>2 DEF Fresh
    <3> QED BY <3>1, <3>2
  <2> QED BY <2>1, <2>2 DEF Fresh
<1> QED BY <1>2, <1>4, <1>5, <1>6, <1>7 DEF BuildInv

\* What sign.py holds, and the same with its signature.
LEMMA HeldFits ==
  ASSUME BuildInv, Holding
  PROVE  /\ Laid(buf) /\ Len(buf) \in Nat /\ Len(buf) <= MaxSegments + 1 /\ CodeOf(buf, buf)
         /\ Laid(Signed) /\ Len(Signed) \in Nat /\ Len(Signed) <= MaxSegments + 1
         /\ CodeOf(Signed, buf) /\ IsSigned(Signed)
<1>1. Laid(buf) /\ Bare(buf) /\ Len(buf) <= MaxSegments /\ MaxSegments \in Nat
  BY Bounds DEF BuildInv, BufferReady
<1>2. Len(buf) \in Nat /\ IsList(buf)
  BY <1>1, ListFacts DEF Laid
<1>3. /\ Laid(Signed) /\ Len(Signed) = Len(buf) + 1
      /\ Signed[Len(buf) + 1] = Signature(buf) /\ CodeOf(Signed, buf)
  BY <1>1, LaidSigned DEF Signed
<1>4. Len(Signed) \in Nat /\ Len(Signed) # 0
  BY <1>2, <1>3
<1>5. IsSigned(Signed)
  <2>1. Signed # <<>>
    BY <1>3, <1>4, LaidEmpty
  <2>2. WholeSig(Signature(buf))
    BY DEF WholeSig, Signature
  <2> QED BY <1>3, <2>1, <2>2 DEF IsSigned
<1>6. CodeOf(buf, buf)
  BY DEF CodeOf
<1>7. Len(buf) <= MaxSegments + 1 /\ Len(Signed) <= MaxSegments + 1
  BY <1>1, <1>2, <1>3
<1> QED BY <1>1, <1>2, <1>3, <1>4, <1>5, <1>6, <1>7

LEMMA WriteBodyKeeps ==
  ASSUME BuildInv, WriteBody
  PROVE  BuildInv'
<1>1. /\ at = "body" /\ Holding /\ Write(target, buf) /\ at' = "sig"
      /\ UNCHANGED <<cpp, hdr, wamrc, stale, who, target, buf>>
  BY DEF WriteBody, signer, Holding
<1> QED BY <1>1, HeldFits, WritingKeeps

LEMMA WriteSignatureKeeps ==
  ASSUME BuildInv, WriteSignature
  PROVE  BuildInv'
<1>1. /\ at = "sig" /\ Holding /\ Write(target, Signed)
      /\ at' \in {"sig", "touch", "idle"} /\ (at' = "touch" => who = "make")
      /\ UNCHANGED <<cpp, hdr, wamrc, stale, who, target, buf>>
  BY DEF WriteSignature, signer, Holding
<1> QED BY <1>1, HeldFits, WritingKeeps

LEMMA WriteFailsKeeps ==
  ASSUME BuildInv, WriteFails
  PROVE  BuildInv'
<1> DEFINE whole == IF at = "body" THEN buf ELSE Signed
<1>1. /\ at \in {"body", "sig"} /\ Holding /\ at' = "idle"
      /\ UNCHANGED <<cpp, hdr, wamrc, stale, who, target, buf>>
  BY DEF WriteFails, signer, Holding, AfterError
<1>2. PICK s \in Beginnings(whole) : Write(target, s)
  BY DEF WriteFails
<1>3. Laid(whole) /\ Len(whole) \in Nat /\ Len(whole) <= MaxSegments + 1 /\ CodeOf(whole, buf)
  BY <1>1, HeldFits
<1> HIDE DEF whole
<1>4. Laid(s) /\ Len(s) <= Len(whole) /\ CodeOf(s, whole)
  BY <1>2, <1>3, LaidBeginnings
<1>5. Len(s) <= MaxSegments + 1
  <2>1. Len(s) \in Nat /\ MaxSegments \in Nat
    BY <1>4, ListFacts, Bounds DEF Laid
  <2> QED BY <1>3, <1>4, <2>1
<1>6. CodeOf(s, buf)
  BY <1>3, <1>4 DEF CodeOf
<1> QED BY <1>1, <1>2, <1>4, <1>5, <1>6, WritingKeeps

----------------------------------------------------------------------------
(* Theorems. *)

LEMMA BuildInitial ==
  ASSUME Init
  PROVE  BuildInv
<1>1. file = [f \in File |-> <<>>] /\ DOMAIN file = File /\ \A f \in File : file[f] = <<>>
  BY DEF Init
<1>2. MaxSegments \in Nat /\ MaxEdits \in Nat /\ "wasm" \in File
  BY EditsAssumption DEF File
<1>3. TypeOK
  BY <1>1, <1>2, LaidEmpty DEF Init, TypeOK, File
<1>4. FilesLaid
  BY <1>1, LaidEmpty DEF FilesLaid
<1>5. BufferReady /\ SignerFits /\ StampMeans
  BY DEF Init, BufferReady, SignerFits, StampMeans, Holding
<1>6. Current
  BY DEF Init, Current, Renewed
<1> QED BY <1>3, <1>4, <1>5, <1>6 DEF BuildInv

LEMMA BuildInductive ==
  ASSUME BuildInv, [Next]_vars
  PROVE  BuildInv'
<1>1. CASE StartMake \/ AotFails \/ UpToDate \/ Interrupt \/ EditHeader
  BY <1>1, MovesKeep
<1>2. CASE EditSource \/ Touch \/ StartSign \/ \E f \in File : SignByHand(f)
  BY <1>2, EditSourceKeeps, TouchKeeps, StartSigningKeeps
<1>3. CASE Compile \/ CompileAot \/ Read \/ Truncate
  BY <1>3, CompileKeeps, CompileAotKeeps, ReadKeeps, TruncateKeeps
<1>4. CASE WriteBody \/ WriteSignature \/ WriteFails
  BY <1>4, WriteBodyKeeps, WriteSignatureKeeps, WriteFailsKeeps
<1>5. CASE UNCHANGED vars
  <2>1. UNCHANGED <<cpp, hdr, wamrc, file, made, stale, at, who, target, buf>>
    BY <1>5 DEF vars, signer
  <2> QED BY <2>1
      DEF BuildInv, TypeOK, FilesLaid, BufferReady, SignerFits, StampMeans, Current, Renewed,
          Fresh, Holding, Final
<1> QED BY <1>1, <1>2, <1>3, <1>4, <1>5 DEF Next

\* What add_kmod's rules and sign.py keep true of files, stamps and versions,
\* through edits, signings by hand, failed writes and interrupts anywhere.
THEOREM BuildCorrect == Spec => []BuildInv
<1>1. Init => BuildInv
  BY BuildInitial
<1>2. BuildInv /\ [Next]_vars => BuildInv'
  BY BuildInductive
<1> QED BY <1>1, <1>2, PTL DEF Spec

\* The state of a build keeps its shape.
THEOREM BuildTypes == Spec => []TypeOK
<1>1. BuildInv => TypeOK
  BY DEF BuildInv
<1> QED BY <1>1, BuildCorrect, PTL

\* A signature that ends a file is one of exactly what is before it.
THEOREM SignaturesMatch == Spec => []SignatureMatches
<1>1. BuildInv => SignatureMatches
  <2> SUFFICES ASSUME BuildInv, NEW f \in File, file[f] # <<>>,
                      WholeSig(file[f][Len(file[f])])
               PROVE  file[f][Len(file[f])].over = SubSeq(file[f], 1, Len(file[f]) - 1)
    BY DEF SignatureMatches
  <2>1. Laid(file[f])
    BY DEF BuildInv, FilesLaid
  <2>2. Len(file[f]) \in DOMAIN file[f]
    BY <2>1, ListFacts DEF Laid
  <2> QED BY <2>1, <2>2 DEF Laid
<1> QED BY <1>1, BuildCorrect, PTL

\* A file that no failure has damaged has one signature, however often signed.
THEOREM SignedOnce == Spec => []OneSignature
<1>1. BuildInv => OneSignature
  <2> SUFFICES ASSUME BuildInv, NEW f \in File, ~Damaged(file[f]),
                      NEW i \in DOMAIN file[f], file[f][i].what = "sig"
               PROVE  i = Len(file[f])
    BY DEF OneSignature
  <2> DEFINE s == file[f]
  <2>1. Laid(s) /\ DOMAIN s = 1..Len(s) /\ Len(s) \in Nat
    BY ListFacts DEF BuildInv, FilesLaid, Laid
  <2>2. Unsigned(s) = {1} /\ \A j \in DOMAIN s : ~s[j].cut
    BY DEF Damaged
  <2>3. \A j \in DOMAIN s : j # 1 => WholeSig(s[j])
    BY <2>2 DEF Unsigned, WholeSig
  <2>4. 1 \in DOMAIN s /\ i # 1 /\ s # <<>>
    BY <2>1, <2>2, ListFacts DEF Unsigned, Laid
  <2> HIDE DEF s
  <2>5. 2 \in DOMAIN s
    BY <2>1, <2>4 DEF s
  <2>6. Found(s, 2)
    <3>1. \A j \in 1..(2 - 1) : j = 1
      OBVIOUS
    <3> QED BY <2>2, <2>3, <2>4, <2>5, <3>1 DEF Found, Unsigned
  <2>7. Len(s) = 2
    BY <2>1, <2>5, <2>6 DEF Laid
  <2> QED BY <2>1, <2>4, <2>7 DEF s
<1> QED BY <1>1, BuildCorrect, PTL

\* make rests only at a final file that ends with a signature.
THEOREM RestsSigned == Spec => []StampedIsSigned
<1>1. BuildInv => StampedIsSigned
  BY DEF BuildInv, StampMeans, StampedIsSigned, BuildIsDone, IsSigned
<1> QED BY <1>1, BuildCorrect, PTL

\* make rests only at a final file made of the current sources, or a damaged one.
THEOREM RestsCurrent == Spec => []StampedIsCurrent
<1>1. BuildInv => StampedIsCurrent
  <2> SUFFICES ASSUME BuildInv, BuildIsDone, ~Damaged(file[Final])
               PROVE  file[Final][1].cpp = cpp
    BY DEF StampedIsCurrent
  <2>1. Renewed(Final) /\ Final \in File
    BY Bounds DEF BuildIsDone, Renewed, Final
  <2>2. Fresh(file[Final])
    BY <2>1 DEF BuildInv, Current
  <2>3. 1 \in DOMAIN file[Final] /\ file[Final][1].what # "sig"
    BY DEF Damaged, Unsigned
  <2> QED BY <2>2, <2>3 DEF Fresh
<1> QED BY <1>1, BuildCorrect, PTL

----------------------------------------------------------------------------
(* What a failure alone can damage. *)

\* The files are whole modules but for the one sign.py has just emptied, whose
\* contents it holds; and a build that comes to a rule has the files before it.
WholeInv ==
  /\ \A f \in made : ~Damaged(file[f]) \/ (at = "body" /\ target = f)
  /\ Holding => ~Damaged(buf)
  /\ at = "read" \/ Holding => target \in made
  /\ at = "aot" => "wasm" \in made
  /\ at = "sign" => Final \in made
  /\ \A f \in File : f \in made \cup stale \/ (f = "aot" /\ ~wamrc)

LEMMA CodeIsWhole ==
  ASSUME NEW k \in File, NEW c, NEW h
  PROVE  ~Damaged(<<Code(k, c, h)>>)
<1> DEFINE x == Code(k, c, h)
<1>1. x.what # "sig" /\ ~x.cut
  BY DEF Code, File
<1> HIDE DEF x
<1>2. DOMAIN <<x>> = {1} /\ <<x>>[1] = x
  <2>1. DOMAIN <<x>> = 1..1 /\ 1..1 = {1}
    OBVIOUS
  <2> QED BY <2>1
<1>3. Unsigned(<<x>>) = {1}
  BY <1>1, <1>2 DEF Unsigned
<1> QED BY <1>1, <1>2, <1>3 DEF Damaged, x

\* Signing keeps a whole file whole.
LEMMA SignedIsWhole ==
  ASSUME NEW s, Laid(s), ~Damaged(s)
  PROVE  ~Damaged(Append(s, Signature(s)))
<1> DEFINE x == Signature(s)
           t == Append(s, x)
<1>1. x.what = "sig" /\ ~x.cut
  BY DEF Signature
<1> HIDE DEF x
<1>2. IsList(s) /\ Len(s) \in Nat /\ DOMAIN s = 1..Len(s)
  BY ListFacts DEF Laid
<1>3. /\ IsList(t) /\ Len(t) = Len(s) + 1 /\ t[Len(s) + 1] = x
      /\ \A i \in 1..Len(s) : t[i] = s[i]
  BY <1>2, AppendList
<1> HIDE DEF t
<1>4. DOMAIN t = 1..(Len(s) + 1)
  BY <1>3, ListFacts
<1>5. \A i \in DOMAIN t : i \in DOMAIN s \/ i = Len(s) + 1
  BY <1>2, <1>4
<1>6. \A i \in DOMAIN s : i \in DOMAIN t
  BY <1>2, <1>4
<1>7. Unsigned(t) = Unsigned(s)
  BY <1>1, <1>2, <1>3, <1>5, <1>6 DEF Unsigned
<1>8. \A i \in DOMAIN t : ~t[i].cut
  BY <1>1, <1>2, <1>3, <1>5 DEF Damaged
<1> QED BY <1>7, <1>8 DEF Damaged, t, x

\* So does taking out what sign.py takes for the old signature.
LEMMA RemovedIsWhole ==
  ASSUME NEW s, Laid(s), ~Damaged(s)
  PROVE  ~Damaged(remove_old_signature(s))
<1>1. IsList(s) /\ Len(s) \in Nat /\ DOMAIN s = 1..Len(s)
  BY ListFacts DEF Laid
<1>2. PICK k \in 0..Len(s) : /\ remove_old_signature(s) = SubSeq(s, 1, k)
                             /\ Bare(SubSeq(s, 1, k))
  BY RemovedEnd
<1> DEFINE t == SubSeq(s, 1, k)
<1>3. IsList(t) /\ Len(t) = k /\ \A i \in 1..k : t[i] = s[i]
  BY <1>1, <1>2, PrefixList
<1>4. remove_old_signature(s) = t
  BY <1>2
<1>5. k >= 1
  <2> SUFFICES ASSUME k = 0 PROVE FALSE
    BY <1>1, <1>2
  <2>1. t = <<>>
    BY <1>3, ListFacts
  <2>2. 1 \in DOMAIN s /\ s[1].what # "sig" /\ s # <<>> /\ ~s[1].cut
    BY <1>1, ListFacts DEF Damaged, Unsigned
  <2>3. remove_old_signature(s) # <<>>
    <3>1. ASSUME Len(s) - 1 = 0 \/ Len(s) = 1
          PROVE  ~WholeSig(s[Len(s)])
      BY <1>1, <2>2, <3>1 DEF WholeSig
    <3>2. CASE ~is_wasm(s)
      <4>1. CASE WholeSig(s[Len(s)])
        <5>1. Len(s) - 1 \in 0..Len(s) /\ Len(s) - 1 # 0
          BY <1>1, <2>2, <3>1, <4>1
        <5>2. Len(SubSeq(s, 1, Len(s) - 1)) = Len(s) - 1
          BY <1>1, <5>1, PrefixList
        <5>3. SubSeq(s, 1, Len(s) - 1) # <<>>
          BY <5>1, <5>2
        <5> QED BY <2>2, <3>2, <4>1, <5>3 DEF remove_old_signature
      <4>2. CASE ~WholeSig(s[Len(s)])
        BY <2>2, <3>2, <4>2 DEF remove_old_signature
      <4> QED BY <4>1, <4>2
    <3>3. CASE is_wasm(s) /\ find_sig_section(s) \cap DOMAIN s = {}
      <4>1. DOMAIN s \ find_sig_section(s) = DOMAIN s
        BY <3>3
      <4> QED BY <2>2, <3>3, <4>1 DEF remove_old_signature
    <3>4. CASE is_wasm(s) /\ find_sig_section(s) \cap DOMAIN s # {}
      <4> DEFINE i == CHOOSE m \in find_sig_section(s) : TRUE
      <4>1. i \in DOMAIN s /\ i \in find_sig_section(s)
        BY <3>4 DEF find_sig_section
      <4>2. remove_old_signature(s) = SubSeq(s, 1, i - 1) \o SubSeq(s, i + 1, Len(s))
        <5>1. DOMAIN s \ find_sig_section(s) # DOMAIN s
          BY <4>1
        <5> QED BY <3>4, <5>1 DEF remove_old_signature
      <4>3. i # 1
        BY <2>2, <4>1 DEF find_sig_section, WholeSig
      <4> HIDE DEF i
      <4>4. PICK S : s \in Seq(S)
        BY <1>1 DEF IsList
      <4>5. /\ SubSeq(s, 1, i - 1) \in Seq(S) /\ SubSeq(s, i + 1, Len(s)) \in Seq(S)
            /\ Len(SubSeq(s, 1, i - 1)) = i - 1 /\ i - 1 > 0
        <5>1. i - 1 \in 0..Len(s) /\ i - 1 > 0
          BY <1>1, <4>1, <4>3
        <5> QED BY <1>1, <4>1, <4>4, <5>1, PrefixList
      <4> DEFINE u == SubSeq(s, 1, i - 1)
                 v == SubSeq(s, i + 1, Len(s))
      <4>6. u \in Seq(S) /\ v \in Seq(S) /\ Len(u) > 0
        BY <4>5
      <4> HIDE DEF u, v
      <4>7. Len(u \o v) = Len(u) + Len(v) /\ Len(u) \in Nat /\ Len(v) \in Nat
        BY <4>6
      <4>8. u \o v # <<>>
        BY <4>6, <4>7
      <4> QED BY <4>2, <4>8 DEF u, v
    <3> QED BY <3>2, <3>3, <3>4
  <2> QED BY <1>4, <2>1, <2>3
<1> HIDE DEF t
<1>6. DOMAIN t = 1..k /\ 1 \in DOMAIN t /\ \A i \in DOMAIN t : i \in DOMAIN s /\ t[i] = s[i]
  <2>1. DOMAIN t = 1..k
    BY <1>3, ListFacts
  <2> QED BY <1>1, <1>2, <1>3, <1>5, <2>1
<1>7. Unsigned(t) = {1}
  BY <1>6 DEF Damaged, Unsigned
<1>8. \A i \in DOMAIN t : ~t[i].cut
  BY <1>6 DEF Damaged
<1> QED BY <1>4, <1>7, <1>8 DEF Damaged

LEMMA WholeInitial == Init => WholeInv
<1> SUFFICES ASSUME Init PROVE WholeInv
  OBVIOUS
<1>1. \A f \in File : f \in stale \/ (f = "aot" /\ ~wamrc)
  BY DEF Init, File
<1> QED BY <1>1 DEF Init, WholeInv, Holding

LEMMA WholeStep ==
  ASSUME BuildInv, WholeInv, [Next]_vars, [~Damages]_vars
  PROVE  WholeInv'
<1>1. Final \in File /\ target \in File /\ DOMAIN file = File
      /\ \A f \in File : Laid(file[f])
  BY Bounds DEF BuildInv, FilesLaid
<1>2. made \subseteq File
  BY DEF BuildInv, TypeOK
<1>3. CASE UNCHANGED vars
  <2>1. UNCHANGED <<wamrc, file, made, stale, at, target, buf>>
    BY <1>3 DEF vars, signer
  <2> QED BY <2>1 DEF WholeInv, Holding, Final
<1>4. CASE StartMake \/ AotFails \/ UpToDate \/ EditHeader \/ EditSource \/ Touch
  <2>1. UNCHANGED <<wamrc, file, made, target, buf>>
    BY <1>4 DEF StartMake, AotFails, UpToDate, EditHeader, EditSource, Touch, signer
  <2>2. stale \subseteq stale' \cup {"stamp"}
    BY <1>4 DEF StartMake, AotFails, UpToDate, EditHeader, EditSource, Touch
  <2>3. \/ at' = at
        \/ at \notin {"body"} /\ at' \in {"idle", "compile"}
        \/ at = "compile" /\ at' = "aot" /\ "wasm" \notin stale
        \/ at = "aot" /\ at' = "sign" /\ ~(wamrc /\ "aot" \in stale)
    BY <1>4 DEF StartMake, AotFails, UpToDate, EditHeader, EditSource, Touch
  <2>4. \A f \in File : f # "stamp"
    BY DEF File
  <2>5. \A f \in File : f \in made' \cup stale' \/ (f = "aot" /\ ~wamrc')
    BY <2>1, <2>2, <2>4 DEF WholeInv
  <2>6. at' = "aot" => "wasm" \in made'
    BY <2>1, <2>3 DEF WholeInv, File
  <2>7. at' = "sign" => Final' \in made'
    BY <2>1, <2>3 DEF WholeInv, Final, File
  <2>8. at' = at \/ (at # "body" /\ at' \notin {"read", "open", "body", "sig"})
    BY <2>3
  <2> QED BY <2>1, <2>5, <2>6, <2>7, <2>8 DEF WholeInv, Holding
<1>5. CASE Interrupt
  <2>1. UNCHANGED <<wamrc, file, made, stale, target, buf>> /\ at' = "idle" /\ at # at'
    BY <1>5 DEF Interrupt, signer
  <2>2. at # "body"
    BY <1>5, <2>1 DEF Damages, vars
  <2> QED BY <2>1, <2>2 DEF WholeInv, Holding
<1>6. CASE StartSign \/ \E f \in File : SignByHand(f)
  <2>1. UNCHANGED <<wamrc, file, made, stale, buf>> /\ at' = "read" /\ at # "body"
        /\ target' \in made
    BY <1>6 DEF StartSign, SignByHand, WholeInv
  <2> QED BY <2>1 DEF WholeInv, Holding
<1>7. CASE Compile
  <2>1. /\ Write("wasm", <<Code("wasm", cpp, hdr)>>) /\ at = "compile" /\ at' = "aot"
        /\ stale' = (stale \ {"wasm"}) \cup {Dependent("wasm")}
        /\ UNCHANGED <<wamrc, target, buf>>
    BY <1>7 DEF Compile, signer
  <2>2. "wasm" \in File /\ ~Damaged(<<Code("wasm", cpp, hdr)>>)
    BY CodeIsWhole DEF File
  <2>3. \A f \in made' : ~Damaged(file'[f])
    BY <1>1, <1>2, <2>1, <2>2 DEF Write, WholeInv
  <2> QED BY <2>1, <2>3 DEF Write, WholeInv, Holding, File
<1>8. CASE CompileAot
  <2> DEFINE x == Code("aot", file["wasm"][1].cpp, file["wasm"][1].hdr)
  <2>1. /\ Write("aot", <<x>>) /\ at = "aot" /\ at' = "sign" /\ wamrc
        /\ stale' = (stale \ {"aot"}) \cup {"stamp"}
        /\ UNCHANGED <<wamrc, target, buf>>
    BY <1>8 DEF CompileAot, signer
  <2>2. "aot" \in File /\ ~Damaged(<<x>>)
    BY CodeIsWhole DEF File
  <2> HIDE DEF x
  <2>3. \A f \in made' : ~Damaged(file'[f])
    BY <1>1, <1>2, <2>1, <2>2 DEF Write, WholeInv
  <2> QED BY <2>1, <2>3 DEF Write, WholeInv, Holding, File, Final
<1>9. CASE Read
  <2>1. /\ UNCHANGED <<wamrc, file, made, stale, target>> /\ at = "read" /\ at' = "open"
        /\ buf' = remove_old_signature(file[target])
    BY <1>9 DEF Read
  <2>2. ~Damaged(file[target])
    BY <2>1 DEF WholeInv
  <2>3. ~Damaged(buf')
    BY <1>1, <2>1, <2>2, RemovedIsWhole
  <2> QED BY <2>1, <2>3 DEF WholeInv, Holding
<1>10. CASE Truncate
  <2>1. /\ Write(target, <<>>) /\ at = "open" /\ at' = "body"
        /\ stale' = stale \cup {Dependent(target)}
        /\ UNCHANGED <<wamrc, target, buf>>
    BY <1>10 DEF Truncate, signer
  <2>2. target \in made /\ made' = made /\ \A f \in made : f # target => file'[f] = file[f]
    BY <1>1, <1>2, <2>1 DEF WholeInv, Holding, Write
  <2> QED BY <2>1, <2>2 DEF WholeInv, Holding
<1>11. CASE WriteBody
  <2>1. /\ Write(target, buf) /\ at = "body" /\ at' = "sig"
        /\ UNCHANGED <<wamrc, stale, target, buf>>
    BY <1>11 DEF WriteBody, signer
  <2>2. target \in made /\ ~Damaged(buf)
    BY <2>1 DEF WholeInv, Holding
  <2>3. \A f \in made' : ~Damaged(file'[f])
    BY <1>1, <1>2, <2>1, <2>2 DEF Write, WholeInv
  <2> QED BY <2>1, <2>2, <2>3 DEF WholeInv, Holding, Write
<1>12. CASE WriteSignature
  <2>1. /\ Write(target, Signed) /\ at = "sig" /\ at' \in {"touch", "idle"}
        /\ UNCHANGED <<wamrc, stale, target, buf>>
    BY <1>12 DEF WriteSignature, signer
  <2>2. target \in made /\ ~Damaged(Signed)
    BY <2>1, SignedIsWhole DEF WholeInv, Holding, Signed, BuildInv, BufferReady
  <2>3. \A f \in made' : ~Damaged(file'[f])
    BY <1>1, <1>2, <2>1, <2>2 DEF Write, WholeInv
  <2> QED BY <2>1, <2>2, <2>3 DEF WholeInv, Holding, Write
<1>13. CASE WriteFails
  <2>1. at' # at
    BY <1>13 DEF WriteFails, AfterError
  <2> QED BY <1>13, <2>1 DEF Damages, vars
<1> QED BY <1>3, <1>4, <1>5, <1>6, <1>7, <1>8, <1>9, <1>10, <1>11, <1>12, <1>13 DEF Next

\* What make takes for done is a whole module, as long as sign.py is not killed
\* while its file is empty and none of its writes fails: no other interrupt, no
\* edit and no signing by hand, at any point of a build, damages a file.
THEOREM WholeUnlessStopped == Spec /\ [][~Damages]_vars => []StampedIsWhole
<1>1. Init => WholeInv
  BY WholeInitial
<1>2. BuildInv /\ WholeInv /\ [Next]_vars /\ [~Damages]_vars => WholeInv'
  BY WholeStep
<1>3. BuildInv /\ WholeInv => StampedIsWhole
  <2> SUFFICES ASSUME BuildInv, WholeInv, BuildIsDone PROVE ~Damaged(file[Final])
    BY DEF StampedIsWhole
  <2>1. Final \in File /\ Final \notin stale /\ ~(Final = "aot" /\ ~wamrc) /\ at # "body"
    BY Bounds DEF BuildIsDone, Final
  <2> QED BY <2>1 DEF WholeInv
<1> QED BY <1>1, <1>2, <1>3, BuildCorrect, PTL DEF Spec

\* sign.py undoes its own work: a file that has no signature it would find is what
\* is left of it once it was signed and is signed again, so signing again, by hand
\* or by make, does not change a signed file.  A .wasm has to be whole for that:
\* behind a section that was cut off the signature is not found.
THEOREM SigningAgain ==
  ASSUME NEW s, Laid(s), Bare(s), is_wasm(s) => ~Damaged(s)
  PROVE  remove_old_signature(Append(s, Signature(s))) = s
<1> DEFINE x == Signature(s)
           t == Append(s, x)
           n == Len(s) + 1
<1>1. IsList(s) /\ Len(s) \in Nat /\ DOMAIN s = 1..Len(s)
  BY ListFacts DEF Laid
<1>2. WholeSig(x)
  BY DEF WholeSig, Signature
<1>3. Laid(t)
  BY LaidSigned
<1> HIDE DEF x
<1>4. /\ IsList(t) /\ Len(t) = n /\ t[n] = x
      /\ \A i \in 1..Len(s) : t[i] = s[i]
  BY <1>1, AppendList
<1> HIDE DEF t
<1>5. n \in DOMAIN t /\ n - 1 = Len(s)
  <2>1. DOMAIN t = 1..n
    BY <1>4, ListFacts
  <2> QED BY <1>1, <2>1
<1>6. Found(t, n)
  <2> SUFFICES ASSUME is_wasm(t)
               PROVE  \A j \in 1..(n - 1) : t[j].what # "sig" /\ ~t[j].cut
    BY <1>2, <1>4 DEF Found
  <2>1. CASE s = <<>>
    BY <1>1, <1>5, <2>1
  <2>2. CASE s # <<>>
    <3>1. 1 \in 1..Len(s) /\ t[1] = s[1]
      BY <1>1, <1>4, <2>2, ListFacts
    <3>2. is_wasm(s)
      BY <2>2, <3>1 DEF is_wasm
    <3>3. Unsigned(s) = {1} /\ \A i \in DOMAIN s : ~s[i].cut
      BY <3>2 DEF Damaged
    <3>4. Len(s) = 1
      <4> SUFFICES ASSUME Len(s) # 1 PROVE FALSE
        OBVIOUS
      <4>1. 2 \in DOMAIN s
        BY <1>1, <2>2, <3>1
      <4>2. s[2].what = "sig" /\ ~s[2].cut
        BY <3>3, <4>1 DEF Unsigned
      <4>3. Found(s, 2)
        <5>1. \A j \in 1..(2 - 1) : j = 1
          OBVIOUS
        <5>2. s[1].what # "sig" /\ ~s[1].cut
          BY <1>1, <3>1, <3>3 DEF Unsigned
        <5> QED BY <4>2, <5>1, <5>2 DEF Found, WholeSig
      <4> QED BY <4>1, <4>3 DEF Bare
    <3>5. \A j \in 1..(n - 1) : j = 1
      BY <1>5, <3>4
    <3>6. s[1].what # "sig" /\ ~s[1].cut
      BY <1>1, <3>1, <3>3 DEF Unsigned
    <3> QED BY <3>1, <3>5, <3>6
  <2> QED BY <2>1, <2>2
<1>7. remove_old_signature(t) = SubSeq(t, 1, Len(s))
  BY <1>3, <1>4, <1>5, <1>6, RemovedLast
<1>8. SubSeq(t, 1, Len(s)) = SubSeq(s, 1, Len(s))
  BY <1>1, <1>4, SamePrefix
<1>9. SubSeq(s, 1, Len(s)) = s
  BY <1>1, WholePrefix
<1> QED BY <1>7, <1>8, <1>9 DEF t, x
=============================================================================
