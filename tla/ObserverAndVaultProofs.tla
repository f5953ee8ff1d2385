----------------------- MODULE ObserverAndVaultProofs -----------------------
(***************************************************************************)
(* Theorems about the two systems that MCLive puts side by side.           *)
(*                                                                         *)
(* ObserverRun, for every list of phases and any number of containers, of  *)
(* late answers and of observers: what the tool writes of its run is what  *)
(* the observer saw of it.                                                 *)
(*                                                                         *)
(* WalletWallVault, for every set of owners, guardians, keys, amounts and  *)
(* engines and every value of the delays and bounds: typing, custody, the  *)
(* time lock of the operator's parameters, and the safety of funds,        *)
(* approvals and credentials.                                              *)
(***************************************************************************)
EXTENDS MCLive, FiniteSetTheorems, SequenceTheorems, TLAPS

-----------------------------------------------------------------------------
(* Sequences, as far as their elements go *)

Marks(s) == {s[k] : k \in DOMAIN s}

\* At most one element is not w.
OnlyOneBut(w, s) == \A k, l \in DOMAIN s : s[k] # w /\ s[l] # w => k = l

LEMMA NothingMarked ==
    Marks(<<>>) = {} /\ \A w : OnlyOneBut(w, <<>>)
BY DEF Marks, OnlyOneBut

\* Append adds one element, at the end.
LEMMA Pushed ==
    ASSUME NEW S, NEW s \in Seq(S), NEW e \in S
    PROVE  /\ Append(s, e) \in Seq(S) /\ Append(s, e) # <<>>
           /\ Marks(Append(s, e)) = Marks(s) \cup {e}
           /\ s # <<>> => Head(Append(s, e)) = Head(s) /\ Tail(Append(s, e)) = Append(Tail(s), e)
           /\ s = <<>> => Append(s, e) = <<e>>
           /\ \A w : OnlyOneBut(w, s) /\ (e = w \/ Marks(s) \subseteq {w})
                       => OnlyOneBut(w, Append(s, e))
<1> DEFINE t == Append(s, e)
<1>1. /\ s \in [1..Len(s) -> S] /\ Len(s) \in Nat /\ DOMAIN s = 1..Len(s)
      /\ t \in Seq(S) /\ Len(t) = Len(s) + 1 /\ DOMAIN t = 1..(Len(s) + 1)
      /\ \A k \in 1..Len(s) : t[k] = s[k]
      /\ t[Len(s) + 1] = e
  <2>1. s \in [1..Len(s) -> S] /\ Len(s) \in Nat /\ DOMAIN s = 1..Len(s)
    BY LenProperties
  <2>2. /\ t \in Seq(S) /\ Len(t) = Len(s) + 1
        /\ \A k \in 1..Len(s) : t[k] = s[k]
        /\ t[Len(s) + 1] = e
    BY AppendProperties
  <2> HIDE DEF t
  <2>3. DOMAIN t = 1..Len(t)
    BY <2>2, LenProperties
  <2>4. DOMAIN t = 1..(Len(s) + 1)
    BY <2>2, <2>3
  <2> QED  BY <2>1, <2>2, <2>4, Zenon
<1>2. t # <<>> /\ (s = <<>> => t = <<e>>)
  <2>1. t # <<>>
    BY AppendProperties
  <2>2. s = <<>> => t = <<e>>
    OBVIOUS
  <2> QED  BY <2>1, <2>2
<1>3. Marks(t) = Marks(s) \cup {e}
  <2> HIDE DEF t
  <2>1. ASSUME NEW x \in Marks(t)  PROVE x \in Marks(s) \cup {e}
    <3>1. PICK k \in 1..(Len(s) + 1) : x = t[k]
      BY <1>1 DEF Marks
    <3>2. CASE k \in 1..Len(s)
      BY <1>1, <3>1, <3>2 DEF Marks
    <3>3. CASE k = Len(s) + 1
      BY <1>1, <3>1, <3>3
    <3> QED  BY <1>1, <3>1, <3>2, <3>3
  <2>2. Marks(s) \subseteq Marks(t)
    BY <1>1 DEF Marks
  <2>3. e \in Marks(t)
    <3>1. Len(s) + 1 \in DOMAIN t
      BY <1>1
    <3> QED  BY <1>1, <3>1 DEF Marks
  <2> QED  BY <2>1, <2>2, <2>3
<1>4. s # <<>> => Head(t) = Head(s) /\ Tail(t) = Append(Tail(s), e)
  <2> SUFFICES ASSUME s # <<>>
               PROVE  Head(t) = Head(s) /\ Tail(t) = Append(Tail(s), e)
    OBVIOUS
  <2>1. Len(s) >= 1
    BY <1>1
  <2>2. Head(t) = Head(s)
    BY <1>1, <2>1
  <2>3. /\ Tail(t) \in Seq(S) /\ Append(Tail(s), e) \in Seq(S)
        /\ Len(Tail(t)) = Len(s) /\ Len(Append(Tail(s), e)) = Len(s)
    BY <1>1, <1>2, <2>1, HeadTailProperties
  <2>4. ASSUME NEW k \in 1..Len(s)
        PROVE  Tail(t)[k] = Append(Tail(s), e)[k]
    <3>1. Tail(s) \in Seq(S) /\ Len(Tail(s)) = Len(s) - 1
      BY <1>1, <2>1, HeadTailProperties
    <3>2. Tail(t)[k] = t[k + 1]
      <4> HIDE DEF t
      <4>1. /\ Len(Tail(t)) = Len(t) - 1
            /\ \A i \in 1..Len(Tail(t)) : Tail(t)[i] = t[i + 1]
        BY <1>1, <1>2, HeadTailProperties
      <4>2. k \in 1..Len(Tail(t))
        BY <1>1, <4>1
      <4> QED  BY <4>1, <4>2
    <3>3. CASE k = Len(s)
      <4>1. Append(Tail(s), e)[Len(Tail(s)) + 1] = e
        BY <3>1, AppendProperties, Zenon
      <4>2. k = Len(Tail(s)) + 1 /\ k + 1 = Len(s) + 1
        BY <1>1, <3>1, <3>3
      <4>3. t[k + 1] = e
        BY <1>1, <4>2
      <4>4. Append(Tail(s), e)[k] = e
        BY <4>1, <4>2
      <4> HIDE DEF t
      <4> QED  BY <3>2, <4>3, <4>4
    <3>4. CASE k # Len(s)
      <4>1. k \in 1..(Len(s) - 1) /\ k + 1 \in 1..Len(s)
        <5>1. Len(s) \in Nat
          BY <1>1
        <5> QED  BY <3>4, <5>1
      <4>2. Append(Tail(s), e)[k] = Tail(s)[k]
        BY <3>1, <4>1, AppendProperties
      <4>3. Tail(s)[k] = s[k + 1]
        BY <1>1, <3>1, <4>1, <2>1, HeadTailProperties
      <4> QED  BY <1>1, <3>2, <4>1, <4>2, <4>3
    <3> QED  BY <3>3, <3>4
  <2>5. Tail(t) = Append(Tail(s), e)
    <3> HIDE DEF t
    <3> QED  BY <2>3, <2>4, SeqEqual
  <2> QED  BY <2>2, <2>5
<1>5. ASSUME NEW w, OnlyOneBut(w, s), e = w \/ Marks(s) \subseteq {w}
      PROVE  OnlyOneBut(w, t)
  <2> HIDE DEF t
  <2>1. SUFFICES ASSUME NEW k \in 1..(Len(s) + 1), NEW l \in 1..(Len(s) + 1), t[k] # w, t[l] # w
                 PROVE  k = l
    BY <1>1 DEF OnlyOneBut
  <2>2. CASE e = w
    <3>1. k \in 1..Len(s) /\ l \in 1..Len(s)
      BY <1>1, <2>1, <2>2
    <3> QED  BY <1>1, <1>5, <2>1, <3>1 DEF OnlyOneBut
  <2>3. CASE Marks(s) \subseteq {w}
    <3>1. \A m \in 1..Len(s) : t[m] = w
      BY <1>1, <2>3 DEF Marks
    <3>2. k = Len(s) + 1 /\ l = Len(s) + 1
      BY <1>1, <2>1, <3>1
    <3> QED  BY <3>2
  <2> QED  BY <1>5, <2>2, <2>3
<1> QED  BY <1>1, <1>2, <1>3, <1>4, <1>5

\* Tail drops the first.
LEMMA Popped ==
    ASSUME NEW S, NEW s \in Seq(S), s # <<>>
    PROVE  /\ Head(s) \in S /\ Tail(s) \in Seq(S)
           /\ Marks(s) = {Head(s)} \cup Marks(Tail(s))
           /\ \A w : OnlyOneBut(w, s) => OnlyOneBut(w, Tail(s))
           /\ \A w : OnlyOneBut(w, s) /\ Head(s) # w => Marks(Tail(s)) \subseteq {w}
           /\ \A e : s = <<e>> => Tail(s) = <<>> /\ Head(s) = e
<1> DEFINE t == Tail(s)
<1>1. /\ Len(s) \in Nat /\ Len(s) >= 1 /\ DOMAIN s = 1..Len(s) /\ Head(s) = s[1] /\ Head(s) \in S
      /\ t \in Seq(S) /\ Len(t) = Len(s) - 1 /\ DOMAIN t = 1..(Len(s) - 1)
      /\ \A k \in 1..(Len(s) - 1) : t[k] = s[k + 1]
  BY HeadTailProperties
<1>2. Marks(s) = {Head(s)} \cup Marks(t)
  <2> HIDE DEF t
  <2>1. ASSUME NEW x \in Marks(s)  PROVE x \in {Head(s)} \cup Marks(t)
    <3>1. PICK k \in 1..Len(s) : x = s[k]
      BY <1>1 DEF Marks
    <3>2. CASE k = 1
      BY <1>1, <3>1, <3>2
    <3>3. CASE k # 1
      <4>1. k - 1 \in DOMAIN t /\ t[k - 1] = s[k]
        BY <1>1, <3>1, <3>3
      <4> QED  BY <3>1, <4>1 DEF Marks
    <3> QED  BY <3>2, <3>3
  <2>2. Head(s) \in Marks(s)
    <3>1. 1 \in DOMAIN s
      BY <1>1
    <3> QED  BY <1>1, <3>1 DEF Marks
  <2>3. ASSUME NEW x \in Marks(t)  PROVE x \in Marks(s)
    <3>1. PICK k \in 1..(Len(s) - 1) : x = t[k]
      BY <1>1 DEF Marks
    <3>2. k + 1 \in DOMAIN s /\ x = s[k + 1]
      BY <1>1, <3>1
    <3> QED  BY <3>2 DEF Marks
  <2> QED  BY <2>1, <2>2, <2>3
<1>3. ASSUME NEW w, OnlyOneBut(w, s)
      PROVE  OnlyOneBut(w, t)
  <2> HIDE DEF t
  <2>1. SUFFICES ASSUME NEW k \in 1..(Len(s) - 1), NEW l \in 1..(Len(s) - 1), t[k] # w, t[l] # w
                 PROVE  k = l
    BY <1>1 DEF OnlyOneBut
  <2>2. /\ k + 1 \in DOMAIN s /\ l + 1 \in DOMAIN s
        /\ s[k + 1] # w /\ s[l + 1] # w
    BY <1>1, <2>1
  <2>3. k + 1 = l + 1
    BY <1>3, <2>2 DEF OnlyOneBut
  <2> QED  BY <2>3
<1>4. ASSUME NEW w, OnlyOneBut(w, s), Head(s) # w
      PROVE  Marks(t) \subseteq {w}
  <2> HIDE DEF t
  <2>1. SUFFICES ASSUME NEW k \in 1..(Len(s) - 1), t[k] # w  PROVE FALSE
    BY <1>1 DEF Marks
  <2>2. /\ 1 \in DOMAIN s /\ k + 1 \in DOMAIN s
        /\ s[1] # w /\ s[k + 1] # w
    BY <1>1, <1>4, <2>1
  <2>3. 1 = k + 1
    BY <1>4, <2>2 DEF OnlyOneBut
  <2> QED  BY <2>3
<1>5. \A e : s = <<e>> => Tail(s) = <<>> /\ Head(s) = e
  OBVIOUS
<1> QED  BY <1>1, <1>2, <1>3, <1>4, <1>5

-----------------------------------------------------------------------------
(* The phases of a trace *)

Phases == Observation!Phases
Word == Phases \cup Observation!Words

\* InPhaseOrder of ObserverRun, of any trace.
PhaseOrder(t, n) ==
    /\ \A i \in DOMAIN PhaseNames : PhaseNames[i] \in Marks(t) <=> i < n
    /\ \A i, j \in DOMAIN PhaseNames : \A p, q \in DOMAIN t :
          t[p] = PhaseNames[i] /\ t[q] = PhaseNames[j] => (p < q <=> i < j)

LEMMA PhaseFacts ==
    /\ PhaseNames \in Seq(Phases) /\ Phases \cap Observation!Words = {}
    /\ Len(PhaseNames) \in Nat /\ DOMAIN PhaseNames = 1..Len(PhaseNames)
    /\ \A i \in DOMAIN PhaseNames : PhaseNames[i] \in Phases
    /\ \A i, j \in DOMAIN PhaseNames : PhaseNames[i] = PhaseNames[j] => i = j
    /\ \A w \in Phases : \E i \in DOMAIN PhaseNames : w = PhaseNames[i]
<1>1. /\ PhaseNames \in Seq(Phases) /\ Phases \cap Observation!Words = {}
      /\ \A i, j \in DOMAIN PhaseNames : PhaseNames[i] = PhaseNames[j] => i = j
  BY PhasesAssumption DEF Observation!PhaseAssumption, Phases
<1>2. Len(PhaseNames) \in Nat /\ DOMAIN PhaseNames = 1..Len(PhaseNames)
      /\ \A i \in DOMAIN PhaseNames : PhaseNames[i] \in Phases
  BY <1>1, LenProperties
<1>3. \A w \in Phases : \E i \in DOMAIN PhaseNames : w = PhaseNames[i]
  BY DEF Phases, Observation!Phases, Observation!ToSet
<1> QED  BY <1>1, <1>2, <1>3

LEMMA NothingInOrder == PhaseOrder(<<>>, 1)
<1>1. \A i \in DOMAIN PhaseNames : ~ (i < 1)
  BY PhaseFacts
<1>2. DOMAIN <<>> = {}
  OBVIOUS
<1> QED  BY <1>1, <1>2, NothingMarked DEF PhaseOrder

\* What follows a trace and is no phase does not disturb it.
LEMMA OrderExtended ==
    ASSUME NEW n, NEW t \in Seq(Word), NEW u \in Seq(Word), PhaseOrder(t, n),
           Len(t) <= Len(u), \A k \in 1..Len(t) : u[k] = t[k],
           \A k \in 1..Len(u) : k > Len(t) => u[k] \notin Phases
    PROVE  PhaseOrder(u, n)
<1>1. /\ DOMAIN t = 1..Len(t) /\ DOMAIN u = 1..Len(u)
      /\ Len(t) \in Nat /\ Len(u) \in Nat
  BY LenProperties
<1>2. ASSUME NEW i \in DOMAIN PhaseNames, NEW p \in DOMAIN u, u[p] = PhaseNames[i]
      PROVE  p \in DOMAIN t /\ t[p] = PhaseNames[i]
  <2>1. u[p] \in Phases
    BY <1>2, PhaseFacts
  <2>2. ~ (p > Len(t))
    BY <1>1, <2>1
  <2>3. p \in 1..Len(t)
    BY <1>1, <2>2
  <2> QED  BY <1>1, <1>2, <2>3
<1>3. \A p \in DOMAIN t : p \in DOMAIN u /\ u[p] = t[p]
  BY <1>1
<1>4. ASSUME NEW i \in DOMAIN PhaseNames
      PROVE  PhaseNames[i] \in Marks(u) <=> i < n
  <2>1. PhaseNames[i] \in Marks(u) <=> PhaseNames[i] \in Marks(t)
    BY <1>2, <1>3 DEF Marks
  <2> QED  BY <2>1 DEF PhaseOrder
<1>5. ASSUME NEW i \in DOMAIN PhaseNames, NEW j \in DOMAIN PhaseNames,
             NEW p \in DOMAIN u, NEW q \in DOMAIN u, u[p] = PhaseNames[i], u[q] = PhaseNames[j]
      PROVE  p < q <=> i < j
  BY <1>2, <1>5 DEF PhaseOrder
<1> QED  BY <1>4, <1>5 DEF PhaseOrder

LEMMA OrderKept ==
    ASSUME NEW n, NEW t \in Seq(Word), PhaseOrder(t, n), NEW w \in Observation!Words
    PROVE  PhaseOrder(Append(t, w), n)
<1>1. w \in Word /\ w \notin Phases
  BY PhaseFacts DEF Word
<1> DEFINE u == Append(t, w)
<1>2. /\ u \in Seq(Word) /\ Len(u) = Len(t) + 1 /\ Len(t) \in Nat
      /\ \A k \in 1..Len(t) : u[k] = t[k]
      /\ u[Len(t) + 1] = w
  BY <1>1, AppendProperties, LenProperties
<1> HIDE DEF u
<1>3. \A k \in 1..Len(u) : k > Len(t) => u[k] \notin Phases
  <2>1. SUFFICES ASSUME NEW k \in 1..Len(u), k > Len(t)  PROVE u[k] \notin Phases
    OBVIOUS
  <2>2. k = Len(t) + 1
    BY <1>2, <2>1
  <2> QED  BY <1>1, <1>2, <2>2
<1>4. PhaseOrder(u, n)
  <2>1. Len(t) <= Len(u)
    BY <1>2
  <2> QED  BY <1>2, <1>3, <2>1, OrderExtended
<1> QED  BY <1>4 DEF u

LEMMA OrderKeptByAll ==
    ASSUME NEW n, NEW t \in Seq(Word), PhaseOrder(t, n), NEW v \in Seq(Observation!Words)
    PROVE  /\ t \o v \in Seq(Word)
           /\ PhaseOrder(t \o v, n)
           /\ Marks(t \o v) = Marks(t) \cup Marks(v)
<1>1. v \in Seq(Word) /\ \A k \in 1..Len(v) : v[k] \notin Phases
  <2>1. v \in Seq(Word)
    BY SeqMonotonic DEF Word
  <2>2. \A k \in 1..Len(v) : v[k] \in Observation!Words
    BY ElementOfSeq
  <2> QED  BY <2>1, <2>2, PhaseFacts
<1> DEFINE u == t \o v
<1>2. /\ u \in Seq(Word) /\ Len(u) = Len(t) + Len(v)
      /\ \A k \in 1..(Len(t) + Len(v)) : u[k] = IF k <= Len(t) THEN t[k] ELSE v[k - Len(t)]
  BY <1>1, ConcatProperties
<1>3. Len(t) \in Nat /\ Len(v) \in Nat /\ DOMAIN t = 1..Len(t) /\ DOMAIN v = 1..Len(v)
  BY <1>1, LenProperties
<1> HIDE DEF u
<1>4. DOMAIN u = 1..Len(u)
  BY <1>2, LenProperties
<1>5. \A k \in 1..Len(t) : k \in 1..Len(u) /\ u[k] = t[k]
  BY <1>2, <1>3
<1>6. \A k \in 1..Len(v) : Len(t) + k \in 1..Len(u) /\ u[Len(t) + k] = v[k]
  BY <1>2, <1>3
<1>7. \A k \in 1..Len(u) : k > Len(t) => k - Len(t) \in 1..Len(v) /\ u[k] = v[k - Len(t)]
  BY <1>2, <1>3
<1>8. PhaseOrder(u, n)
  <2>1. \A k \in 1..Len(u) : k > Len(t) => u[k] \notin Phases
    BY <1>1, <1>7
  <2>2. Len(t) <= Len(u)
    BY <1>2, <1>3
  <2>3. \A k \in 1..Len(t) : u[k] = t[k]
    BY <1>5
  <2> QED  BY <1>2, <2>1, <2>2, <2>3, OrderExtended
<1>9. Marks(u) = Marks(t) \cup Marks(v)
  <2>1. ASSUME NEW x \in Marks(u)  PROVE x \in Marks(t) \cup Marks(v)
    <3>1. PICK k \in 1..Len(u) : x = u[k]
      BY <1>4 DEF Marks
    <3>2. CASE k > Len(t)
      BY <1>3, <1>7, <3>1, <3>2 DEF Marks
    <3>3. CASE ~ (k > Len(t))
      <4>1. k \in 1..Len(t)
        BY <1>2, <1>3, <3>3
      <4> QED  BY <1>3, <1>5, <3>1, <4>1 DEF Marks
    <3> QED  BY <3>2, <3>3
  <2>2. Marks(t) \subseteq Marks(u)
    BY <1>3, <1>4, <1>5 DEF Marks
  <2>3. Marks(v) \subseteq Marks(u)
    BY <1>3, <1>4, <1>6 DEF Marks
  <2> QED  BY <2>1, <2>2, <2>3
<1> QED  BY <1>2, <1>8, <1>9 DEF u

\* The next phase comes after all others.
LEMMA OrderAdvances ==
    ASSUME NEW n \in DOMAIN PhaseNames, NEW t \in Seq(Word), PhaseOrder(t, n)
    PROVE  PhaseOrder(Append(t, PhaseNames[n]), n + 1)
<1> DEFINE w == PhaseNames[n]
           u == Append(t, w)
<1>1. w \in Word
  BY PhaseFacts DEF Word
<1>2. /\ u \in Seq(Word) /\ Len(u) = Len(t) + 1 /\ Len(t) \in Nat
      /\ \A k \in 1..Len(t) : u[k] = t[k]
      /\ u[Len(t) + 1] = w
      /\ Marks(u) = Marks(t) \cup {w}
  <2> HIDE DEF w
  <2> QED  BY <1>1, AppendProperties, LenProperties, Pushed
<1> HIDE DEF u
<1>3. /\ DOMAIN t = 1..Len(t) /\ DOMAIN u = 1..(Len(t) + 1)
  BY <1>2, LenProperties
<1>4. ASSUME NEW i \in DOMAIN PhaseNames
      PROVE  PhaseNames[i] \in Marks(u) <=> i < n + 1
  <2>1. PhaseNames[i] \in Marks(t) <=> i < n
    BY DEF PhaseOrder
  <2>2. PhaseNames[i] = w <=> i = n
    BY PhaseFacts
  <2>3. i \in Nat /\ n \in Nat
    BY PhaseFacts
  <2>4. i < n + 1 <=> i < n \/ i = n
    BY <2>3
  <2> QED  BY <1>2, <2>1, <2>2, <2>4
<1>5. ASSUME NEW i \in DOMAIN PhaseNames, NEW p \in DOMAIN u, u[p] = PhaseNames[i]
      PROVE  \/ p \in DOMAIN t /\ t[p] = PhaseNames[i] /\ i < n
             \/ p = Len(t) + 1 /\ i = n
  <2>1. CASE p \in DOMAIN t
    <3>1. t[p] = PhaseNames[i]
      BY <1>2, <1>3, <1>5, <2>1
    <3>2. PhaseNames[i] \in Marks(t)
      BY <2>1, <3>1 DEF Marks
    <3> QED  BY <2>1, <3>1, <3>2 DEF PhaseOrder
  <2>2. CASE p \notin DOMAIN t
    <3>1. p = Len(t) + 1
      BY <1>2, <1>3, <2>2
    <3> QED  BY <1>2, <1>5, <3>1, PhaseFacts
  <2> QED  BY <2>1, <2>2
<1>6. ASSUME NEW i \in DOMAIN PhaseNames, NEW j \in DOMAIN PhaseNames,
             NEW p \in DOMAIN u, NEW q \in DOMAIN u, u[p] = PhaseNames[i], u[q] = PhaseNames[j]
      PROVE  p < q <=> i < j
  <2>1. i \in Nat /\ j \in Nat /\ n \in Nat /\ p \in Nat /\ q \in Nat
    BY <1>2, <1>3, PhaseFacts
  <2>2. p \in DOMAIN t => p < Len(t) + 1
    BY <1>2, <1>3
  <2>3. q \in DOMAIN t => q < Len(t) + 1
    BY <1>2, <1>3
  <2>4. /\ \/ p \in DOMAIN t /\ t[p] = PhaseNames[i] /\ i < n
           \/ p = Len(t) + 1 /\ i = n
        /\ \/ q \in DOMAIN t /\ t[q] = PhaseNames[j] /\ j < n
           \/ q = Len(t) + 1 /\ j = n
    BY <1>5, <1>6
  <2>5. CASE p \in DOMAIN t /\ t[p] = PhaseNames[i] /\ q \in DOMAIN t /\ t[q] = PhaseNames[j]
    BY <2>5 DEF PhaseOrder
  <2>6. CASE p \in DOMAIN t /\ i < n /\ q = Len(t) + 1 /\ j = n
    BY <1>2, <2>1, <2>2, <2>6
  <2>7. CASE p = Len(t) + 1 /\ i = n /\ q \in DOMAIN t /\ j < n
    BY <1>2, <2>1, <2>3, <2>7
  <2>8. CASE p = Len(t) + 1 /\ i = n /\ q = Len(t) + 1 /\ j = n
    BY <1>2, <2>1, <2>8
  <2> QED  BY <2>4, <2>5, <2>6, <2>7, <2>8
<1> QED
  <2>1. PhaseOrder(u, n + 1)
    <3> HIDE DEF w
    <3> QED  BY <1>4, <1>6 DEF PhaseOrder
  <2> QED  BY <2>1 DEF u

-----------------------------------------------------------------------------
(* The tool's script: HELLO, the phases, DONE *)

Script == Observation!Script

DoneAt == Len(PhaseNames) + 2

LEMMA ScriptFacts ==
    /\ Len(Script) = DoneAt /\ DoneAt \in Nat /\ DoneAt >= 2
    /\ Script[1] = "HELLO" /\ Script[DoneAt] = "DONE"
    /\ \A i \in 1..DoneAt : Script[i] \in Phases \cup {"HELLO", "DONE"}
    /\ \A i, j \in 1..DoneAt : Script[i] = Script[j] => i = j
<1> DEFINE S == Word
           all == PhaseNames
           front == <<"HELLO">> \o all
<1>1. /\ all \in Seq(S) /\ Len(all) \in Nat /\ DoneAt = Len(all) + 2
      /\ \A i \in 1..Len(all) : all[i] \in Phases
      /\ \A i, j \in 1..Len(all) : all[i] = all[j] => i = j
      /\ "HELLO" \notin Phases /\ "DONE" \notin Phases
  <2>1. PhaseNames \in Seq(S)
    BY PhaseFacts, SeqMonotonic DEF Word
  <2>2. "HELLO" \in Observation!Words /\ "DONE" \in Observation!Words
    BY DEF Observation!Words
  <2> QED  BY <2>1, <2>2, PhaseFacts DEF DoneAt
<1>2. /\ <<"HELLO">> \in Seq(S) /\ <<"DONE">> \in Seq(S)
      /\ Len(<<"HELLO">>) = 1 /\ Len(<<"DONE">>) = 1
      /\ <<"HELLO">>[1] = "HELLO" /\ <<"DONE">>[1] = "DONE"
  <2>1. "HELLO" \in S /\ "DONE" \in S
    BY DEF Word, Observation!Words
  <2> HIDE DEF S
  <2> QED  BY <2>1
<1> HIDE DEF S, all
<1>3. /\ front \in Seq(S) /\ Len(front) = 1 + Len(all)
      /\ \A i \in 1..(1 + Len(all)) : front[i] = IF i <= 1 THEN <<"HELLO">>[i] ELSE all[i - 1]
  BY <1>1, <1>2, ConcatProperties
<1> HIDE DEF front
<1>4. /\ Len(front \o <<"DONE">>) = Len(front) + 1
      /\ \A i \in 1..(Len(front) + 1) :
            (front \o <<"DONE">>)[i] = IF i <= Len(front) THEN front[i] ELSE <<"DONE">>[i - Len(front)]
  BY <1>2, <1>3, ConcatProperties
<1>5. Script = front \o <<"DONE">>
  BY DEF Script, Observation!Script, front, all
<1>6. /\ Len(Script) = DoneAt
      /\ \A i \in 1..DoneAt :
            /\ i = 1 => Script[i] = "HELLO"
            /\ i = DoneAt => Script[i] = "DONE"
            /\ i # 1 /\ i # DoneAt => i - 1 \in 1..Len(all) /\ Script[i] = all[i - 1]
  <2>1. Len(Script) = DoneAt
    BY <1>1, <1>3, <1>4, <1>5
  <2>2. ASSUME NEW i \in 1..DoneAt
        PROVE  /\ i = 1 => Script[i] = "HELLO"
               /\ i = DoneAt => Script[i] = "DONE"
               /\ i # 1 /\ i # DoneAt => i - 1 \in 1..Len(all) /\ Script[i] = all[i - 1]
    <3>1. Script[i] = IF i <= Len(front) THEN front[i] ELSE <<"DONE">>[i - Len(front)]
      BY <1>1, <1>3, <1>4, <1>5
    <3>2. CASE i = 1
      BY <1>1, <1>2, <1>3, <3>1, <3>2
    <3>3. CASE i = DoneAt
      BY <1>1, <1>2, <1>3, <3>1, <3>3
    <3>4. CASE i # 1 /\ i # DoneAt
      <4>1. i - 1 \in 1..Len(all) /\ i <= Len(front) /\ i \in 1..(1 + Len(all)) /\ ~ (i <= 1)
        BY <1>1, <1>3, <3>4
      <4>2. front[i] = all[i - 1]
        BY <1>3, <4>1
      <4> QED  BY <3>1, <3>4, <4>1, <4>2
    <3> QED  BY <3>2, <3>3, <3>4
  <2> QED  BY <2>1, <2>2
<1>7. ASSUME NEW i \in 1..DoneAt  PROVE Script[i] \in Phases \cup {"HELLO", "DONE"}
  BY <1>1, <1>6
<1>8. ASSUME NEW i \in 1..DoneAt, NEW j \in 1..DoneAt, Script[i] = Script[j]
      PROVE  i = j
  <2>1. /\ i \in Int /\ j \in Int /\ DoneAt \in Int
        /\ i # 1 /\ i # DoneAt => Script[i] \in Phases /\ i - 1 \in 1..Len(all) /\ Script[i] = all[i - 1]
        /\ j # 1 /\ j # DoneAt => Script[j] \in Phases /\ j - 1 \in 1..Len(all) /\ Script[j] = all[j - 1]
    BY <1>1, <1>6
  <2>2. CASE i = 1 \/ i = DoneAt
    BY <1>1, <1>6, <1>8, <2>1, <2>2
  <2>3. CASE j = 1 \/ j = DoneAt
    BY <1>1, <1>6, <1>8, <2>1, <2>3
  <2>4. CASE i # 1 /\ i # DoneAt /\ j # 1 /\ j # DoneAt
    <3>1. i - 1 = j - 1
      BY <1>1, <1>8, <2>1, <2>4
    <3> QED  BY <2>1, <3>1
  <2> QED  BY <2>2, <2>3, <2>4
<1>9. DoneAt \in Nat /\ DoneAt >= 2 /\ 1 \in 1..DoneAt /\ DoneAt \in 1..DoneAt
  BY <1>1
<1> QED  BY <1>6, <1>7, <1>8, <1>9

\* What the tool asks for, and no other word of the exchange.
LEMMA AskedWord ==
    ASSUME NEW i \in 1..DoneAt
    PROVE  Script[i] \notin {"CONTAINER", "ABORT"}
<1>1. "CONTAINER" \in Observation!Words /\ "ABORT" \in Observation!Words
  BY DEF Observation!Words
<1> QED  BY <1>1, ScriptFacts, PhaseFacts

-----------------------------------------------------------------------------
(* The invariant *)

Request == Phases \cup {"HELLO", "CONTAINER", "DONE", "ABORT"}
Answer == {"READY", "ACK", "STOPPED", "FAIL"}

Observers ==
    [nonce : Nat, failures : Nat, next : Nat, exitCode : Nat,
     hello : BOOLEAN, stopping : BOOLEAN, early : BOOLEAN,
     pc : {"precheck", "open", "starting", "running", "stopping", "closing", "waiting", "exited",
           "crashed"}]

Tools ==
    [pid : {"none", "running", "gone", "killed"}, host : {"none", "running", "ended"},
     at : Nat, containers : Nat, asking : BOOLEAN, wrote : BOOLEAN]

Clients ==
    [failure : BOOLEAN, ended : BOOLEAN, waiting : BOOLEAN, lines : Seq(Answer),
     queue : Seq(Request)]

ObserverTyped ==
    /\ oTracefs \in [instances : SUBSET Nat, probes : SUBSET Nat, lost : BOOLEAN]
    /\ oTrace \in Seq(Word)
    /\ oObserver \in Observers /\ oTool \in Tools /\ oClient \in Clients
    /\ oToTool \in Seq(Answer) /\ oToObserver \in Seq(Request)
    /\ oLost \in BOOLEAN

\* The session as the observer has it.
SessionInv ==
    LET o == oObserver IN
    /\ PhaseOrder(oTrace, o.next) /\ o.next \in 1..(DoneAt - 1)
    /\ o.pc \in {"precheck", "open", "starting"} =>
          oTrace = <<>> /\ o.failures = 0 /\ ~ o.stopping /\ o.next = 1 /\ oTool.pid = "none"
    /\ o.pc \in {"precheck", "open"} => ~ oLost
    /\ o.pc \in {"starting", "running", "stopping"} =>
          o.nonce \in oTracefs.instances /\ (oLost => oTracefs.lost)
    /\ o.pc = "running" => ~ o.stopping
    /\ o.pc = "stopping" => o.stopping
    /\ o.failures = 0 => ~ o.early /\ "FAIL" \notin Marks(oTrace)
    /\ o.stopping /\ ~ o.early => o.next = DoneAt - 1
    /\ o.pc = "closing" /\ o.failures = 0 =>
          o.stopping /\ ~ oLost /\ {"STOP_CLEAN", "TOOL_DONE_OK"} \subseteq Marks(oTrace)

\* The session came to a clean end, and nothing of it is left.
CleanEnd ==
    LET o == oObserver IN
    /\ o.pc \in {"waiting", "exited", "crashed"} /\ o.next = DoneAt - 1
    /\ {"STOP_CLEAN", "TOOL_DONE_OK"} \subseteq Marks(oTrace) /\ "FAIL" \notin Marks(oTrace)
    /\ ~ oLost
    /\ o.nonce \notin oTracefs.instances /\ o.nonce \notin oTracefs.probes

\* What the tool has done was marked, and what it wrote is of a clean end.
ToolInv ==
    LET t == oTool IN
    /\ t.at \in 0..(DoneAt + 2)
    /\ t.pid = "none" => t = Observation!NoTool
    /\ t.at = 0 => t.host = "none" /\ ~ t.wrote /\ ~ t.asking
    /\ \A i \in 1..(DoneAt - 1) : t.at \in (i + 1)..(DoneAt + 1) => Script[i] \in Marks(oTrace)
    /\ t.at = DoneAt + 1 \/ t.wrote => CleanEnd
    /\ t.host # "none" => \A i \in 1..DoneAt : Script[i] = "HOST_SPAWN" => t.at > i
    /\ t.host = "running" => "HOST_SPAWN" \in Marks(oTrace)
    /\ t.host # "ended" =>
          "HOST_EXIT" \notin (Marks(oTrace) \cup Marks(oToObserver)) \cup Marks(oClient.queue)

\* At most one request is of the script, and it is the one the tool waits for.
QueueInv ==
    LET t == oTool
        q == oClient.queue IN
    /\ OnlyOneBut("CONTAINER", q)
    /\ \A w \in Marks(q) \ {"CONTAINER"} :
          t.asking /\ t.at \in 1..DoneAt /\ (w = Script[t.at] \/ (t.at = 1 /\ w = "ABORT"))

\* A tool in its script whose client has not failed.
InStep == oTool.pid = "running" /\ oTool.at \in 1..DoneAt /\ ~ oClient.failure

FailsOnly(s) == Marks(s) \subseteq {"FAIL"}

\* The request that is waited for is sent, or answered, or neither; and nothing else is
\* under way but the news of a failure.
Exchange ==
    LET word == Head(oClient.queue) IN
    /\ oClient.lines = <<>>
    /\ ~ oClient.waiting => oToObserver = <<>> /\ FailsOnly(oToTool)
    /\ oToObserver # <<>> => oToObserver = <<word>> /\ FailsOnly(oToTool)
    /\ Marks(oToTool) \subseteq {"FAIL", "ACK", "STOPPED"} /\ OnlyOneBut("FAIL", oToTool)
    /\ "ACK" \in Marks(oToTool) => word \notin {"DONE", "ABORT"} /\ word \in Marks(oTrace)
    /\ "STOPPED" \in Marks(oToTool) => word = "DONE" /\ CleanEnd
    /\ oObserver.stopping /\ oObserver.failures = 0 /\ oObserver.pc \in {"stopping", "closing"} =>
          oClient.waiting /\ word = "DONE" /\ oToObserver = <<>> /\ FailsOnly(oToTool)

\* Before the first answer is read there is nothing but READY.
Greeting ==
    /\ oClient = Observation!NoClient /\ oToObserver = <<>>
    /\ oToTool # <<>> /\ Head(oToTool) = "READY" /\ FailsOnly(Tail(oToTool))
    /\ oObserver.failures = 0 => ~ oObserver.stopping

PipeInv ==
    /\ oClient.waiting => ~ oClient.failure /\ oClient.queue # <<>>
    /\ oTool.pid = "none" => oClient = Observation!NoClient /\ oToObserver = <<>>
    /\ oTool.pid = "running" /\ oTool.at = 0 => Greeting
    /\ InStep => Exchange

ObserverInv == ObserverTyped /\ SessionInv /\ ToolInv /\ QueueInv /\ PipeInv

-----------------------------------------------------------------------------
(* The observer fails *)

\* The tool's side, when only the observer's moves.
LEMMA ToolAside ==
    ASSUME ObserverInv, UNCHANGED <<oTool, oClient>>,
           Marks(oTrace) \subseteq Marks(oTrace'), Marks(oToObserver') \subseteq Marks(oToObserver),
           Marks(oTrace') \cap {"HOST_EXIT"} \subseteq Marks(oTrace) \cup Marks(oToObserver),
           CleanEnd => CleanEnd'
    PROVE  ToolInv' /\ QueueInv'
<1>1. QueueInv'
  BY DEF ObserverInv, QueueInv
<1>2. ToolInv'
  BY DEF ObserverInv, ToolInv
<1> QED  BY <1>1, <1>2

TracefsTyped == oTracefs \in [instances : SUBSET Nat, probes : SUBSET Nat, lost : BOOLEAN]

\* What Fails leaves of the trace and of the pipe.
LEMMA Failed ==
    ASSUME ObserverInv, NEW then \in Observers, Observation!Fails(then)
    PROVE  /\ oObserver' \in Observers /\ oObserver'.failures # 0
           /\ oObserver' = [then EXCEPT !.failures = oObserver'.failures]
           /\ oTrace' \in Seq(Word) /\ PhaseOrder(oTrace', oObserver.next)
           /\ Marks(oTrace) \subseteq Marks(oTrace')
           /\ Marks(oTrace') \subseteq Marks(oTrace) \cup {"FAIL"}
           /\ oToTool' \in Seq(Answer)
           /\ IF oTool.pid = "running" THEN oToTool' = Append(oToTool, "FAIL")
                                       ELSE oToTool' = oToTool
<1>1. /\ oTrace \in Seq(Word) /\ PhaseOrder(oTrace, oObserver.next) /\ oToTool \in Seq(Answer)
  BY DEF ObserverInv, ObserverTyped, SessionInv
<1>2. /\ oObserver' = [then EXCEPT !.failures = IF @ = 0 THEN 1 ELSE @]
      /\ oTrace' = IF oObserver.nonce \in oTracefs.instances THEN Append(oTrace, "FAIL") ELSE oTrace
      /\ oToTool' = IF oTool.pid = "running" THEN Append(oToTool, "FAIL") ELSE oToTool
  BY DEF Observation!Fails, Observation!Mark
<1>3. oObserver' \in Observers /\ oObserver'.failures # 0
      /\ oObserver' = [then EXCEPT !.failures = oObserver'.failures]
  BY <1>2 DEF Observers
<1>4. "FAIL" \in Observation!Words /\ "FAIL" \in Word /\ "FAIL" \in Answer
  BY DEF Observation!Words, Word, Answer
<1>5. /\ Append(oTrace, "FAIL") \in Seq(Word) /\ PhaseOrder(Append(oTrace, "FAIL"), oObserver.next)
      /\ Marks(Append(oTrace, "FAIL")) = Marks(oTrace) \cup {"FAIL"}
      /\ Append(oToTool, "FAIL") \in Seq(Answer)
  BY <1>1, <1>4, OrderKept, Pushed
<1> QED  BY <1>1, <1>2, <1>3, <1>5

\* The pipes, when FAIL goes to the tool.
LEMMA FailSent ==
    ASSUME ObserverInv, UNCHANGED <<oTool, oClient>>,
           oObserver'.failures # 0, Marks(oTrace) \subseteq Marks(oTrace'), CleanEnd => CleanEnd',
           oTool.pid = "running" => oToTool' = Append(oToTool, "FAIL"),
           \/ UNCHANGED oToObserver
           \/ oToObserver # <<>> /\ oToObserver' = Tail(oToObserver)
    PROVE  PipeInv'
<1>1. oTool.pid = "none" => oClient' = Observation!NoClient /\ oToObserver' = <<>>
  BY DEF ObserverInv, PipeInv
<1>2. ASSUME oTool.pid = "running", oTool.at = 0
      PROVE  Greeting'
  <2>1. Greeting
    BY <1>2 DEF ObserverInv, PipeInv
  <2>2. oToTool' = Append(oToTool, "FAIL")
    BY <1>2
  <2>3. /\ oToTool' # <<>> /\ Head(oToTool') = "READY" /\ Tail(oToTool') = Append(Tail(oToTool), "FAIL")
        /\ Tail(oToTool) \in Seq(Answer) /\ "FAIL" \in Answer
    <3>1. oToTool # <<>> /\ Head(oToTool) = "READY" /\ oToTool \in Seq(Answer) /\ "FAIL" \in Answer
      BY <2>1 DEF Greeting, ObserverInv, ObserverTyped, Answer
    <3>2. Tail(oToTool) \in Seq(Answer)
      BY <3>1, Popped
    <3>3. /\ Append(oToTool, "FAIL") # <<>> /\ Head(Append(oToTool, "FAIL")) = "READY"
          /\ Tail(Append(oToTool, "FAIL")) = Append(Tail(oToTool), "FAIL")
      BY <3>1, Pushed
    <3> QED  BY <2>2, <3>1, <3>2, <3>3
  <2>4. FailsOnly(Tail(oToTool'))
    <3>1. Marks(Append(Tail(oToTool), "FAIL")) = Marks(Tail(oToTool)) \cup {"FAIL"}
      <4>1. PICK rest \in Seq(Answer) : rest = Tail(oToTool)
        BY <2>3
      <4>2. "FAIL" \in Answer
        BY <2>3
      <4>3. Marks(Append(rest, "FAIL")) = Marks(rest) \cup {"FAIL"}
        BY <4>2, Pushed
      <4> QED  BY <4>1, <4>3
    <3> QED  BY <2>1, <2>3, <3>1 DEF Greeting, FailsOnly
  <2> QED  BY <2>1, <2>3, <2>4 DEF Greeting
<1>3. ASSUME InStep
      PROVE  Exchange'
  <2>1. Exchange
    BY <1>3 DEF ObserverInv, PipeInv
  <2>2. oToTool' = Append(oToTool, "FAIL") /\ "FAIL" \in Answer /\ oToTool \in Seq(Answer)
    BY <1>3 DEF InStep, ObserverInv, ObserverTyped, Answer
  <2>3. Marks(oToTool') = Marks(oToTool) \cup {"FAIL"} /\ (OnlyOneBut("FAIL", oToTool) => OnlyOneBut("FAIL", oToTool'))
    BY <2>2, Pushed
  <2>4. oToObserver' = oToObserver \/ oToObserver' = <<>>
    BY <2>1, Popped DEF Exchange, ObserverInv, ObserverTyped
  <2> QED  BY <2>1, <2>3, <2>4 DEF Exchange, FailsOnly
<1> QED  BY <1>1, <1>2, <1>3 DEF PipeInv, InStep, ObserverInv

LEMMA FailingStep ==
    ASSUME ObserverInv, NEW then \in Observers, Observation!Fails(then),
           oObserver.pc \in {"precheck", "open", "starting", "running", "stopping"},
           then.next = oObserver.next,
           then.stopping /\ ~ then.early => oObserver.stopping /\ ~ oObserver.early,
           \/ then.pc = "closing"
           \/ /\ oObserver.pc = "running" /\ UNCHANGED oTracefs /\ then.nonce = oObserver.nonce
              /\ \/ then.pc = "running" /\ ~ then.stopping
                 \/ then.pc = "stopping" /\ then.stopping,
           TracefsTyped', UNCHANGED <<oLost, oTool, oClient>>,
           \/ UNCHANGED oToObserver
           \/ oToObserver # <<>> /\ oToObserver' = Tail(oToObserver)
    PROVE  ObserverInv'
<1>1. /\ oObserver' \in Observers /\ oObserver'.failures # 0
      /\ oObserver' = [then EXCEPT !.failures = oObserver'.failures]
      /\ oTrace' \in Seq(Word) /\ PhaseOrder(oTrace', oObserver.next)
      /\ Marks(oTrace) \subseteq Marks(oTrace')
      /\ Marks(oTrace') \subseteq Marks(oTrace) \cup {"FAIL"}
      /\ oToTool' \in Seq(Answer)
      /\ IF oTool.pid = "running" THEN oToTool' = Append(oToTool, "FAIL")
                                  ELSE oToTool' = oToTool
  BY Failed
<1>2. /\ oObserver'.next = oObserver.next /\ oObserver'.pc = then.pc
      /\ oObserver'.nonce = then.nonce /\ oObserver'.stopping = then.stopping
      /\ oObserver'.early = then.early
  BY <1>1 DEF Observers
<1>3. /\ oToObserver \in Seq(Request) /\ oToObserver' \in Seq(Request)
      /\ Marks(oToObserver') \subseteq Marks(oToObserver)
  <2>1. oToObserver \in Seq(Request)
    BY DEF ObserverInv, ObserverTyped
  <2>2. oToObserver # <<>> =>
          Tail(oToObserver) \in Seq(Request) /\ Marks(Tail(oToObserver)) \subseteq Marks(oToObserver)
    <3>1. CASE oToObserver = <<>>
      BY <3>1
    <3>2. CASE oToObserver # <<>>
      BY <2>1, <3>2, Popped, Zenon
    <3> QED  BY <3>1, <3>2
  <2> QED  BY <2>1, <2>2
<1>4. ObserverTyped'
  BY <1>1, <1>3 DEF ObserverInv, ObserverTyped, TracefsTyped
<1>5. SessionInv'
  <2>1. PhaseOrder(oTrace', oObserver'.next) /\ oObserver'.next \in 1..(DoneAt - 1)
    BY <1>1, <1>2 DEF ObserverInv, SessionInv
  <2>2. oObserver'.pc \in {"closing", "running", "stopping"}
    BY <1>2
  <2>3. oObserver'.pc \in {"running", "stopping"} =>
          oObserver'.nonce \in oTracefs'.instances /\ (oLost' => oTracefs'.lost)
    BY <1>2 DEF ObserverInv, SessionInv
  <2>4. /\ oObserver'.pc = "running" => ~ oObserver'.stopping
        /\ oObserver'.pc = "stopping" => oObserver'.stopping
    BY <1>2
  <2>5. oObserver'.stopping /\ ~ oObserver'.early => oObserver'.next = DoneAt - 1
    BY <1>2 DEF ObserverInv, SessionInv
  <2> QED  BY <1>1, <2>1, <2>2, <2>3, <2>4, <2>5 DEF SessionInv
<1>6. ~ CleanEnd
  BY DEF CleanEnd
<1>7. ToolInv' /\ QueueInv'
  BY <1>1, <1>3, <1>6, ToolAside
<1>8. PipeInv'
  BY <1>1, <1>6, FailSent
<1> QED  BY <1>4, <1>5, <1>7, <1>8 DEF ObserverInv

-----------------------------------------------------------------------------
(* The steps of the observer *)

\* The pipes, when the observer moves and writes nothing to them.
LEMMA PipesAside ==
    ASSUME ObserverInv, UNCHANGED <<oTool, oClient, oToTool, oToObserver>>,
           Marks(oTrace) \subseteq Marks(oTrace'), CleanEnd => CleanEnd',
           oObserver'.failures = 0 /\ oObserver'.stopping => oObserver.failures = 0 /\ oObserver.stopping,
           oObserver'.failures = 0 /\ oObserver'.pc \in {"stopping", "closing"} =>
               oObserver.pc \in {"stopping", "closing"}
    PROVE  PipeInv'
<1>1. ASSUME Greeting  PROVE Greeting'
  BY <1>1 DEF Greeting
<1>2. ASSUME Exchange  PROVE Exchange'
  BY <1>2 DEF Exchange
<1>3. InStep' <=> InStep
  BY DEF InStep
<1> QED  BY <1>1, <1>2, <1>3 DEF ObserverInv, PipeInv

LEMMA StepPrecheck == ObserverInv /\ Observation!precheck => ObserverInv'
<1> SUFFICES ASSUME ObserverInv, Observation!precheck  PROVE ObserverInv'
  OBVIOUS
<1>1. /\ oObserver.pc = "precheck" /\ oObserver \in Observers
      /\ UNCHANGED <<oTracefs, oToObserver, oTool, oClient, oTimeouts, oLost>>
      /\ ~ oObserver.stopping
  BY DEF Observation!precheck, ObserverInv, ObserverTyped, SessionInv
<1>2. CASE Observation!Precheck
  <2>1. oObserver' = [oObserver EXCEPT !.pc = "open"] /\ UNCHANGED <<oTrace, oToTool>>
    BY <1>2 DEF Observation!precheck
  <2>2. ObserverTyped'
    BY <1>1, <2>1 DEF ObserverInv, ObserverTyped, Observers
  <2>3. SessionInv'
    BY <1>1, <2>1 DEF ObserverInv, SessionInv, Observers
  <2>4. ~ CleanEnd
    BY <1>1 DEF CleanEnd
  <2>5. ToolInv' /\ QueueInv'
    BY <1>1, <2>1, <2>4, ToolAside
  <2>6. PipeInv'
    <3>1. oObserver'.stopping = oObserver.stopping /\ oObserver'.pc = "open"
      BY <1>1, <2>1 DEF Observers
    <3> QED  BY <1>1, <2>1, <2>4, <3>1, PipesAside
  <2> QED  BY <2>2, <2>3, <2>5, <2>6 DEF ObserverInv
<1>3. CASE ~ Observation!Precheck
  <2>1. PICK then : then = [oObserver EXCEPT !.pc = "closing"]
    OBVIOUS
  <2>2. /\ then \in Observers /\ then.next = oObserver.next /\ ~ then.stopping /\ then.pc = "closing"
    BY <1>1, <2>1 DEF Observers
  <2>3. Observation!Fails(then)
    BY <1>3, <2>1 DEF Observation!precheck
  <2>4. TracefsTyped'
    BY <1>1 DEF TracefsTyped, ObserverInv, ObserverTyped
  <2> QED  BY <1>1, <2>2, <2>3, <2>4, FailingStep
<1> QED  BY <1>2, <1>3

LEMMA StepOpen == ObserverInv /\ Observation!open => ObserverInv'
<1> SUFFICES ASSUME ObserverInv, Observation!open  PROVE ObserverInv'
  OBVIOUS
<1>1. /\ oObserver.pc = "open" /\ oObserver \in Observers
      /\ UNCHANGED <<oToObserver, oTool, oClient, oTimeouts, oLost>>
      /\ ~ oObserver.stopping /\ ~ oLost
  BY DEF Observation!open, ObserverInv, ObserverTyped, SessionInv
<1>2. PICK made \in {"nothing", "instance", "all"} :
         /\ oTracefs' = [oTracefs EXCEPT
                          !.instances = IF made = "nothing" THEN @ ELSE @ \cup {oObserver.nonce},
                          !.probes = IF made = "all" THEN @ \cup {oObserver.nonce} ELSE @,
                          !.lost = FALSE]
         /\ IF made = "all"
            THEN oObserver' = [oObserver EXCEPT !.pc = "starting"] /\ UNCHANGED <<oTrace, oToTool>>
            ELSE Observation!Fails([oObserver EXCEPT !.pc = "closing"])
  BY DEF Observation!open
<1>3. TracefsTyped' /\ (made = "all" => oObserver.nonce \in oTracefs'.instances)
  <2>1. TracefsTyped /\ oObserver.nonce \in Nat
    BY <1>1 DEF TracefsTyped, ObserverInv, ObserverTyped, Observers
  <2> QED  BY <1>2, <2>1 DEF TracefsTyped
<1>4. CASE made = "all"
  <2>1. oObserver' = [oObserver EXCEPT !.pc = "starting"] /\ UNCHANGED <<oTrace, oToTool>>
    BY <1>2, <1>4
  <2>2. ObserverTyped'
    BY <1>1, <1>3, <2>1 DEF ObserverInv, ObserverTyped, Observers, TracefsTyped
  <2>3. SessionInv'
    BY <1>1, <1>3, <1>4, <2>1 DEF ObserverInv, SessionInv, Observers
  <2>4. ~ CleanEnd
    BY <1>1 DEF CleanEnd
  <2>5. ToolInv' /\ QueueInv'
    BY <1>1, <2>1, <2>4, ToolAside
  <2>6. PipeInv'
    <3>1. oObserver'.stopping = oObserver.stopping /\ oObserver'.pc = "starting"
      BY <1>1, <2>1 DEF Observers
    <3> QED  BY <1>1, <2>1, <2>4, <3>1, PipesAside
  <2> QED  BY <2>2, <2>3, <2>5, <2>6 DEF ObserverInv
<1>5. CASE made # "all"
  <2>1. PICK then : then = [oObserver EXCEPT !.pc = "closing"]
    OBVIOUS
  <2>2. /\ then \in Observers /\ then.next = oObserver.next /\ ~ then.stopping /\ then.pc = "closing"
    BY <1>1, <2>1 DEF Observers
  <2>3. Observation!Fails(then)
    BY <1>2, <1>5, <2>1
  <2> QED  BY <1>1, <1>3, <2>2, <2>3, FailingStep
<1> QED  BY <1>4, <1>5

LEMMA StepBeat == ObserverInv /\ Observation!beat => ObserverInv'
<1> SUFFICES ASSUME ObserverInv, Observation!beat  PROVE ObserverInv'
  OBVIOUS
<1>1. /\ oObserver.pc = "running" /\ oObserver \in Observers /\ Observation!Fails(oObserver)
      /\ UNCHANGED <<oTracefs, oToObserver, oTool, oClient, oTimeouts, oLost>>
      /\ ~ oObserver.stopping /\ TracefsTyped'
  BY DEF Observation!beat, Observation!Running, ObserverInv, ObserverTyped, SessionInv, TracefsTyped
<1> QED  BY <1>1, FailingStep

LEMMA StepToolExit == ObserverInv /\ Observation!toolExit => ObserverInv'
<1> SUFFICES ASSUME ObserverInv, Observation!toolExit  PROVE ObserverInv'
  OBVIOUS
<1>1. /\ oObserver.pc = "running" /\ oObserver \in Observers
      /\ Observation!Fails([oObserver EXCEPT !.stopping = TRUE, !.early = TRUE, !.pc = "stopping"])
      /\ UNCHANGED <<oTracefs, oToObserver, oTool, oClient, oTimeouts, oLost>>
      /\ TracefsTyped'
  BY DEF Observation!toolExit, Observation!Running, ObserverInv, ObserverTyped, TracefsTyped
<1>2. PICK then : then = [oObserver EXCEPT !.stopping = TRUE, !.early = TRUE, !.pc = "stopping"]
  OBVIOUS
<1>3. /\ then \in Observers /\ then.next = oObserver.next /\ then.nonce = oObserver.nonce
      /\ then.stopping /\ then.early /\ then.pc = "stopping"
  BY <1>1, <1>2 DEF Observers
<1> QED  BY <1>1, <1>2, <1>3, FailingStep

LEMMA StepStart == ObserverInv /\ Observation!start => ObserverInv'
<1> SUFFICES ASSUME ObserverInv, Observation!start  PROVE ObserverInv'
  OBVIOUS
<1>1. /\ oObserver.pc = "starting" /\ oObserver \in Observers
      /\ UNCHANGED <<oTracefs, oToObserver, oTimeouts, oLost>>
      /\ ~ oObserver.stopping /\ oObserver.failures = 0 /\ TracefsTyped'
      /\ oTrace \in Seq(Word) /\ PhaseOrder(oTrace, oObserver.next) /\ oTrace = <<>>
      /\ oTool.pid = "none" /\ oToObserver = <<>> /\ oTool = Observation!NoTool
  BY DEF Observation!start, ObserverInv, ObserverTyped, SessionInv, TracefsTyped, ToolInv, PipeInv
<1>2. CASE oTracefs.lost
  <2>1. PICK then : then = [oObserver EXCEPT !.pc = "closing"]
    OBVIOUS
  <2>2. /\ then \in Observers /\ then.next = oObserver.next /\ ~ then.stopping /\ then.pc = "closing"
    BY <1>1, <2>1 DEF Observers
  <2>3. Observation!Fails(then) /\ UNCHANGED <<oTool, oClient>>
    BY <1>2, <2>1 DEF Observation!start
  <2> QED  BY <1>1, <2>2, <2>3, FailingStep
<1>3. CASE ~ oTracefs.lost
  <2> DEFINE first == <<"READY", "COUNTERS", "HEARTBEAT", "SPAWNED">>
  <2>1. /\ oObserver' = [oObserver EXCEPT !.pc = "running"]
        /\ oTrace' = oTrace \o first
        /\ oTool' = [Observation!NoTool EXCEPT !.pid = "running"]
        /\ oClient' = Observation!NoClient
        /\ oToTool' = <<"READY">>
    BY <1>3 DEF Observation!start
  <2>2. first \in Seq(Observation!Words) /\ Marks(first) = {"READY", "COUNTERS", "HEARTBEAT", "SPAWNED"}
    <3>1. {"READY", "COUNTERS", "HEARTBEAT", "SPAWNED"} \subseteq Observation!Words
      BY DEF Observation!Words
    <3>2. first \in Seq(Observation!Words)
      BY <3>1
    <3>3. DOMAIN first = 1..4
      OBVIOUS
    <3> QED  BY <3>2, <3>3 DEF Marks
  <2> HIDE DEF first
  <2>3. /\ oTrace' \in Seq(Word) /\ PhaseOrder(oTrace', oObserver.next)
        /\ Marks(oTrace') = Marks(first)
    <3>1. /\ oTrace \o first \in Seq(Word) /\ PhaseOrder(oTrace \o first, oObserver.next)
          /\ Marks(oTrace \o first) = Marks(oTrace) \cup Marks(first)
      BY <1>1, <2>2, OrderKeptByAll
    <3> QED  BY <1>1, <2>1, <3>1, NothingMarked
  <2>4. ObserverTyped'
    <3>1. oObserver' \in Observers /\ oTool' \in Tools
      BY <1>1, <2>1 DEF Observers, Tools, Observation!NoTool
    <3>2. oClient' \in Clients
      BY <2>1 DEF Clients, Observation!NoClient
    <3>3. oToTool' \in Seq(Answer)
      BY <2>1 DEF Answer
    <3> QED  BY <1>1, <2>3, <3>1, <3>2, <3>3 DEF ObserverInv, ObserverTyped, TracefsTyped
  <2>5. SessionInv'
    <3>1. /\ oObserver'.pc = "running" /\ oObserver'.next = oObserver.next /\ oObserver'.failures = 0
          /\ ~ oObserver'.stopping /\ oObserver'.early = oObserver.early
          /\ oObserver'.nonce = oObserver.nonce
      BY <1>1, <2>1 DEF Observers
    <3>2. "FAIL" \notin Marks(oTrace')
      BY <2>2, <2>3
    <3> QED  BY <1>1, <2>3, <3>1, <3>2 DEF ObserverInv, SessionInv
  <2>6. ToolInv'
    <3>1. /\ oTool'.pid = "running" /\ oTool'.at = 0 /\ oTool'.host = "none"
          /\ ~ oTool'.wrote /\ ~ oTool'.asking
      BY <2>1 DEF Observation!NoTool
    <3>2. /\ Marks(oToObserver') = {} /\ Marks(oClient'.queue) = {}
      BY <1>1, <2>1, NothingMarked DEF Observation!NoClient
    <3>3. "HOST_EXIT" \notin Marks(oTrace')
      BY <2>2, <2>3
    <3> QED  BY <3>1, <3>2, <3>3, ScriptFacts DEF ToolInv
  <2>7. QueueInv'
    BY <2>1, NothingMarked DEF QueueInv, Observation!NoClient
  <2>8. PipeInv'
    <3>1. Head(oToTool') = "READY" /\ Tail(oToTool') = <<>> /\ oToTool' # <<>>
      BY <2>1
    <3>2. Greeting'
      BY <1>1, <2>1, <3>1, NothingMarked DEF Greeting, FailsOnly, Observers
    <3>3. oTool'.pid = "running" /\ oTool'.at = 0 /\ ~ oClient'.waiting
      BY <2>1 DEF Observation!NoTool, Observation!NoClient
    <3> QED  BY <3>2, <3>3 DEF PipeInv, InStep
  <2> QED  BY <2>4, <2>5, <2>6, <2>7, <2>8 DEF ObserverInv
<1> QED  BY <1>2, <1>3

LEMMA StepStop == ObserverInv /\ Observation!stop => ObserverInv'
<1> SUFFICES ASSUME ObserverInv, Observation!stop  PROVE ObserverInv'
  OBVIOUS
<1>1. /\ oObserver.pc = "stopping" /\ oObserver \in Observers
      /\ UNCHANGED <<oTracefs, oToObserver, oTool, oClient, oTimeouts, oLost>>
      /\ oObserver.stopping /\ TracefsTyped'
      /\ oTrace \in Seq(Word) /\ PhaseOrder(oTrace, oObserver.next)
  BY DEF Observation!stop, ObserverInv, ObserverTyped, SessionInv, TracefsTyped
<1>2. PICK drained \in BOOLEAN :
         IF Observation!FinalBeatFails \/ ~drained
         THEN Observation!Fails([oObserver EXCEPT !.pc = "closing"])
         ELSE /\ oObserver' = [oObserver EXCEPT !.pc = "closing",
                                              !.exitCode = IF oObserver.early THEN 4 ELSE 0]
              /\ oTrace' = oTrace \o
                    <<IF oObserver.failures = 0 /\ ~oObserver.early THEN "TOOL_DONE_OK" ELSE "TOOL_DONE",
                      "COUNTERS", "HEARTBEAT", IF oObserver.failures = 0 THEN "STOP_CLEAN" ELSE "STOP">>
              /\ UNCHANGED oToTool
  BY DEF Observation!stop
<1>3. CASE Observation!FinalBeatFails \/ ~drained
  <2>1. PICK then : then = [oObserver EXCEPT !.pc = "closing"]
    OBVIOUS
  <2>2. /\ then \in Observers /\ then.next = oObserver.next /\ then.pc = "closing"
        /\ then.early = oObserver.early
    BY <1>1, <2>1 DEF Observers
  <2>3. Observation!Fails(then)
    BY <1>2, <1>3, <2>1
  <2> QED  BY <1>1, <2>2, <2>3, FailingStep
<1>4. CASE ~ Observation!FinalBeatFails /\ drained
  <2>1. PICK done, stopped :
          /\ done = IF oObserver.failures = 0 /\ ~oObserver.early THEN "TOOL_DONE_OK" ELSE "TOOL_DONE"
          /\ stopped = IF oObserver.failures = 0 THEN "STOP_CLEAN" ELSE "STOP"
    OBVIOUS
  <2> DEFINE last == <<done, "COUNTERS", "HEARTBEAT", stopped>>
  <2>2. /\ oObserver' = [oObserver EXCEPT !.pc = "closing",
                                          !.exitCode = IF oObserver.early THEN 4 ELSE 0]
        /\ oTrace' = oTrace \o last /\ UNCHANGED oToTool
    BY <1>2, <1>4, <2>1
  <2>3. ~ oLost
    BY <1>1, <1>4 DEF Observation!FinalBeatFails, ObserverInv, SessionInv
  <2>4. last \in Seq(Observation!Words) /\ Marks(last) = {done, "COUNTERS", "HEARTBEAT", stopped}
    <3>1. {done, "COUNTERS", "HEARTBEAT", stopped} \subseteq Observation!Words
      BY <2>1 DEF Observation!Words
    <3>2. last \in Seq(Observation!Words)
      BY <3>1
    <3>3. DOMAIN last = 1..4
      OBVIOUS
    <3> QED  BY <3>2, <3>3 DEF Marks
  <2> HIDE DEF last
  <2>5. /\ oTrace' \in Seq(Word) /\ PhaseOrder(oTrace', oObserver.next)
        /\ Marks(oTrace') = Marks(oTrace) \cup {done, "COUNTERS", "HEARTBEAT", stopped}
    <3>1. /\ oTrace \o last \in Seq(Word) /\ PhaseOrder(oTrace \o last, oObserver.next)
          /\ Marks(oTrace \o last) = Marks(oTrace) \cup Marks(last)
      BY <1>1, <2>4, OrderKeptByAll
    <3> QED  BY <2>2, <2>4, <3>1
  <2>6. /\ oObserver' \in Observers
        /\ oObserver'.pc = "closing" /\ oObserver'.next = oObserver.next
        /\ oObserver'.failures = oObserver.failures
        /\ oObserver'.stopping = oObserver.stopping /\ oObserver'.early = oObserver.early
    BY <1>1, <2>2 DEF Observers
  <2>7. ObserverTyped'
    BY <1>1, <2>2, <2>5, <2>6 DEF ObserverInv, ObserverTyped, TracefsTyped
  <2>8. SessionInv'
    <3>1. oObserver'.failures = 0 => ~ oObserver'.early /\ "FAIL" \notin Marks(oTrace')
      BY <2>1, <2>5, <2>6 DEF ObserverInv, SessionInv
    <3>2. oObserver'.failures = 0 => {"STOP_CLEAN", "TOOL_DONE_OK"} \subseteq Marks(oTrace')
      BY <2>1, <2>5, <2>6 DEF ObserverInv, SessionInv
    <3> QED  BY <1>1, <2>3, <2>5, <2>6, <3>1, <3>2 DEF ObserverInv, SessionInv
  <2>9. ~ CleanEnd
    BY <1>1 DEF CleanEnd
  <2>10. ToolInv' /\ QueueInv'
    <3>1. done # "HOST_EXIT" /\ stopped # "HOST_EXIT"
      BY <2>1
    <3> QED  BY <1>1, <2>5, <2>9, <3>1, ToolAside
  <2>11. PipeInv'
    BY <1>1, <2>2, <2>5, <2>6, <2>9, PipesAside
  <2> QED  BY <2>7, <2>8, <2>10, <2>11 DEF ObserverInv
<1> QED  BY <1>3, <1>4

\* Which request is in order.
LEMMA Orderly ==
    ASSUME ObserverInv, NEW msg \in Request, Observation!InOrder(msg)
    PROVE  /\ msg \in Observation!Words => msg \in {"HELLO", "CONTAINER", "DONE"}
           /\ msg = "DONE" => oObserver.next = DoneAt - 1
           /\ msg \in Phases => /\ oObserver.next \in DOMAIN PhaseNames
                                /\ PhaseNames[oObserver.next] = msg
<1>1. {"HELLO", "CONTAINER", "DONE", "ABORT"} \subseteq Observation!Words
  BY DEF Observation!Words
<1>2. msg \in Phases => msg \notin {"HELLO", "CONTAINER", "DONE", "ABORT"}
  BY <1>1, PhaseFacts
<1>3. msg # "ABORT"
  BY DEF Observation!InOrder
<1>4. msg = "DONE" => oObserver.next = Len(PhaseNames) + 1
  BY DEF Observation!InOrder
<1>5. msg \notin {"HELLO", "CONTAINER", "DONE", "ABORT"} =>
        oObserver.next \in DOMAIN PhaseNames /\ PhaseNames[oObserver.next] = msg
  BY DEF Observation!InOrder
<1>6. oObserver.next = Len(PhaseNames) + 1 => oObserver.next = DoneAt - 1
  BY PhaseFacts DEF DoneAt
<1> QED  BY <1>2, <1>3, <1>4, <1>5, <1>6, PhaseFacts DEF Request

LEMMA StepAccept == ObserverInv /\ Observation!accept => ObserverInv'
<1> SUFFICES ASSUME ObserverInv, Observation!accept  PROVE ObserverInv'
  OBVIOUS
<1>1. /\ oObserver.pc = "running" /\ ~ oObserver.stopping /\ oToObserver # <<>>
      /\ oToObserver' = Tail(oToObserver)
      /\ UNCHANGED <<oTracefs, oTool, oClient, oTimeouts, oLost>>
  BY DEF Observation!accept, Observation!Running
<1>2. /\ oObserver \in Observers /\ oToObserver \in Seq(Request) /\ oToTool \in Seq(Answer)
      /\ oTrace \in Seq(Word) /\ PhaseOrder(oTrace, oObserver.next)
      /\ oObserver.next \in 1..(DoneAt - 1) /\ oObserver.nonce \in oTracefs.instances /\ TracefsTyped'
  BY <1>1 DEF ObserverInv, ObserverTyped, TracefsTyped, SessionInv
<1>3. PICK msg \in Request : msg = Head(oToObserver)
  BY <1>1, <1>2, Popped
<1>4. /\ oToObserver' \in Seq(Request) /\ Marks(oToObserver) = {msg} \cup Marks(oToObserver')
      /\ \A e : oToObserver = <<e>> => oToObserver' = <<>> /\ e = msg
  <2>1. /\ Tail(oToObserver) \in Seq(Request)
        /\ Marks(oToObserver) = {Head(oToObserver)} \cup Marks(Tail(oToObserver))
        /\ \A e : oToObserver = <<e>> => Tail(oToObserver) = <<>> /\ Head(oToObserver) = e
    BY <1>1, <1>2, Popped, Zenon
  <2> QED  BY <1>1, <1>3, <2>1
<1>5. ~ CleanEnd
  BY <1>1 DEF CleanEnd
<1>6. /\ oTool.pid # "none"
      /\ ~ (oTool.pid = "running" /\ oTool.at = 0)
  BY <1>1 DEF ObserverInv, PipeInv, Greeting
<1>7. CASE ~ Observation!InOrder(msg)
  <2>1. Observation!Fails(oObserver)
    BY <1>3, <1>7 DEF Observation!accept
  <2> QED  BY <1>1, <1>2, <2>1, FailingStep
<1>8. CASE Observation!InOrder(msg) /\ msg = "DONE"
  <2>1. /\ oObserver' = [oObserver EXCEPT !.stopping = TRUE, !.pc = "stopping"]
        /\ UNCHANGED <<oTrace, oToTool>>
    BY <1>3, <1>8 DEF Observation!accept
  <2>2. /\ oObserver' \in Observers /\ oObserver'.pc = "stopping" /\ oObserver'.stopping
        /\ oObserver'.next = oObserver.next /\ oObserver'.nonce = oObserver.nonce
        /\ oObserver'.failures = oObserver.failures /\ oObserver'.early = oObserver.early
    BY <1>2, <2>1 DEF Observers
  <2>3. ObserverTyped'
    BY <1>1, <1>2, <1>4, <2>1, <2>2 DEF ObserverInv, ObserverTyped
  <2>4. SessionInv'
    <3>1. oObserver.next = DoneAt - 1
      BY <1>8, Orderly
    <3> QED  BY <1>1, <1>2, <2>1, <2>2, <3>1 DEF ObserverInv, SessionInv
  <2>5. ToolInv' /\ QueueInv'
    BY <1>1, <1>4, <1>5, <2>1, ToolAside
  <2>6. PipeInv'
    <3>1. ASSUME InStep  PROVE Exchange'
      <4>1. Exchange
        BY <3>1 DEF ObserverInv, PipeInv
      <4>2. oToObserver' = <<>> /\ Head(oClient.queue) = "DONE" /\ oClient.waiting /\ FailsOnly(oToTool)
        BY <1>1, <1>4, <1>8, <4>1 DEF Exchange
      <4> QED  BY <1>1, <1>5, <2>1, <4>1, <4>2 DEF Exchange, FailsOnly
    <3> QED  BY <1>1, <1>6, <3>1 DEF PipeInv, InStep, ObserverInv
  <2> QED  BY <2>3, <2>4, <2>5, <2>6 DEF ObserverInv
<1>9. CASE Observation!InOrder(msg) /\ msg # "DONE"
  <2>1. /\ oTrace' = Append(oTrace, msg) /\ oToTool' = Append(oToTool, "ACK")
        /\ oObserver' = [oObserver EXCEPT !.hello = @ \/ msg = "HELLO",
                                          !.next = IF msg \in Phases THEN @ + 1 ELSE @]
    BY <1>2, <1>3, <1>9 DEF Observation!accept, Observation!Mark, Phases
  <2>2. msg \in Word /\ msg # "FAIL" /\ msg # "ABORT"
        /\ (msg \notin Phases => msg \in Observation!Words)
    <3>1. {"HELLO", "CONTAINER", "DONE", "ABORT", "FAIL"} \subseteq Observation!Words
      BY DEF Observation!Words
    <3>2. "FAIL" \notin Phases
      BY <3>1, PhaseFacts
    <3>3. msg # "ABORT"
      BY <1>9, <3>1, Orderly
    <3> QED  BY <3>1, <3>2, <3>3 DEF Request, Word
  <2>3. /\ oObserver' \in Observers /\ oObserver'.pc = "running" /\ ~ oObserver'.stopping
        /\ oObserver'.nonce = oObserver.nonce
        /\ oObserver'.failures = oObserver.failures /\ oObserver'.early = oObserver.early
        /\ oObserver'.next = IF msg \in Phases THEN oObserver.next + 1 ELSE oObserver.next
    <3>1. PICK greeted \in BOOLEAN : greeted = (oObserver.hello \/ msg = "HELLO")
      OBVIOUS
    <3>2. PICK after \in Nat : after = IF msg \in Phases THEN oObserver.next + 1 ELSE oObserver.next
      BY <1>2 DEF Observers
    <3>3. oObserver' = [oObserver EXCEPT !.hello = greeted, !.next = after]
      BY <1>2, <2>1, <3>1, <3>2, Zenon
    <3> QED  BY <1>1, <1>2, <3>2, <3>3 DEF Observers
  <2>4. PhaseOrder(oTrace', oObserver'.next) /\ oObserver'.next \in 1..(DoneAt - 1)
    <3>1. PICK n : n = oObserver.next
      OBVIOUS
    <3>2. CASE msg \in Phases
      <4>1. n \in DOMAIN PhaseNames /\ PhaseNames[n] = msg
        BY <1>9, <3>1, <3>2, Orderly
      <4>2. PhaseOrder(Append(oTrace, msg), n + 1)
        BY <1>2, <3>1, <4>1, OrderAdvances
      <4>3. n + 1 \in 1..(DoneAt - 1)
        BY <4>1, PhaseFacts DEF DoneAt
      <4> QED  BY <2>1, <2>3, <3>1, <3>2, <4>2, <4>3
    <3>3. CASE msg \notin Phases
      <4>1. PhaseOrder(Append(oTrace, msg), n)
        BY <1>2, <2>2, <3>1, <3>3, OrderKept
      <4> QED  BY <1>2, <2>1, <2>3, <3>1, <3>3, <4>1
    <3> QED  BY <3>2, <3>3
  <2>5. oTrace' \in Seq(Word) /\ Marks(oTrace') = Marks(oTrace) \cup {msg}
    BY <1>2, <2>1, <2>2, Pushed
  <2>6. "ACK" \in Answer
    BY DEF Answer
  <2>7. /\ oToTool' \in Seq(Answer) /\ Marks(oToTool') = Marks(oToTool) \cup {"ACK"}
        /\ OnlyOneBut("FAIL", oToTool) /\ FailsOnly(oToTool) => OnlyOneBut("FAIL", oToTool')
    BY <1>2, <2>1, <2>6, Pushed DEF FailsOnly
  <2>8. ObserverTyped'
    BY <1>1, <1>4, <2>3, <2>5, <2>7 DEF ObserverInv, ObserverTyped
  <2>9. SessionInv'
    BY <1>1, <1>2, <2>2, <2>3, <2>4, <2>5 DEF ObserverInv, SessionInv
  <2>10. ToolInv' /\ QueueInv'
    BY <1>1, <1>4, <1>5, <2>5, ToolAside
  <2>11. PipeInv'
    <3>1. ASSUME InStep  PROVE Exchange'
      <4>1. Exchange
        BY <3>1 DEF ObserverInv, PipeInv
      <4>2. oToObserver' = <<>> /\ Head(oClient.queue) = msg /\ oClient.waiting /\ FailsOnly(oToTool)
        BY <1>1, <1>4, <4>1 DEF Exchange
      <4>3. Marks(oToTool') \subseteq {"FAIL", "ACK"} /\ OnlyOneBut("FAIL", oToTool')
        BY <2>7, <4>1, <4>2 DEF Exchange, FailsOnly
      <4> QED  BY <1>1, <1>9, <2>2, <2>3, <2>5, <4>1, <4>2, <4>3 DEF Exchange
    <3> QED  BY <1>1, <1>6, <3>1 DEF PipeInv, InStep, ObserverInv
  <2> QED  BY <2>8, <2>9, <2>10, <2>11 DEF ObserverInv
<1> QED  BY <1>7, <1>8, <1>9

LEMMA StepClose == ObserverInv /\ Observation!close => ObserverInv'
<1> SUFFICES ASSUME ObserverInv, Observation!close  PROVE ObserverInv'
  OBVIOUS
<1>1. /\ oObserver.pc = "closing" /\ oObserver \in Observers /\ TracefsTyped /\ oToTool \in Seq(Answer)
      /\ UNCHANGED <<oTrace, oToObserver, oTool, oClient, oTimeouts, oLost>>
  BY DEF Observation!close, ObserverInv, ObserverTyped, TracefsTyped
<1>2. PICK keptInstance \in SUBSET (oTracefs.instances \cap {oObserver.nonce}),
           keptProbes \in SUBSET (oTracefs.probes \cap {oObserver.nonce}) :
        /\ oTracefs' = [oTracefs EXCEPT
                         !.instances = (@ \ {oObserver.nonce}) \cup keptInstance,
                         !.probes = (@ \ {oObserver.nonce}) \cup keptProbes]
        /\ LET left == keptInstance \cup keptProbes # {}
               failed == oObserver.failures + (IF left THEN 1 ELSE 0)
           IN  /\ oObserver' = [oObserver EXCEPT !.pc = "waiting", !.failures = failed]
               /\ oToTool' = IF oTool.pid # "running" THEN oToTool
                             ELSE Append(oToTool, IF failed = 0 THEN "STOPPED" ELSE "FAIL")
  BY DEF Observation!close, Observation!Close
<1>3. PICK failed \in Nat :
        failed = oObserver.failures + (IF keptInstance \cup keptProbes # {} THEN 1 ELSE 0)
  BY <1>1 DEF Observers
<1>4. failed = 0 => oObserver.failures = 0 /\ keptInstance = {} /\ keptProbes = {}
  BY <1>1, <1>3 DEF Observers
<1>5. oObserver' = [oObserver EXCEPT !.pc = "waiting", !.failures = failed]
  BY <1>2, <1>3
<1>6. /\ oObserver' \in Observers /\ oObserver'.pc = "waiting" /\ oObserver'.failures = failed
      /\ oObserver'.nonce = oObserver.nonce /\ oObserver'.next = oObserver.next
      /\ oObserver'.stopping = oObserver.stopping /\ oObserver'.early = oObserver.early
  BY <1>1, <1>5 DEF Observers
<1>7. oToTool' = IF oTool.pid # "running" THEN oToTool
                 ELSE Append(oToTool, IF failed = 0 THEN "STOPPED" ELSE "FAIL")
  BY <1>2, <1>3
<1>8. TracefsTyped'
  BY <1>1, <1>2 DEF TracefsTyped
<1>9. failed = 0 => CleanEnd'
  <2>1. ASSUME failed = 0
        PROVE  oObserver'.nonce \notin oTracefs'.instances /\ oObserver'.nonce \notin oTracefs'.probes
    BY <1>1, <1>2, <1>4, <1>6, <2>1 DEF TracefsTyped
  <2>2. ASSUME failed = 0
        PROVE  /\ oObserver.next = DoneAt - 1 /\ ~ oLost
               /\ {"STOP_CLEAN", "TOOL_DONE_OK"} \subseteq Marks(oTrace) /\ "FAIL" \notin Marks(oTrace)
    BY <1>1, <1>4, <2>2 DEF ObserverInv, SessionInv
  <2> QED  BY <1>1, <1>6, <2>1, <2>2 DEF CleanEnd
<1>10. ObserverTyped'
  <2>1. oToTool' \in Seq(Answer)
    <3>1. "STOPPED" \in Answer /\ "FAIL" \in Answer
      BY DEF Answer
    <3> QED  BY <1>1, <1>7, <3>1, Pushed
  <2> QED  BY <1>1, <1>6, <1>8, <2>1 DEF ObserverInv, ObserverTyped, TracefsTyped
<1>11. SessionInv'
  BY <1>1, <1>4, <1>6 DEF ObserverInv, SessionInv
<1>12. ~ CleanEnd
  BY <1>1 DEF CleanEnd
<1>13. ToolInv' /\ QueueInv'
  BY <1>1, <1>12, ToolAside
<1>14. CASE failed # 0
  <2>1. PipeInv'
    BY <1>1, <1>6, <1>7, <1>12, <1>14, FailSent
  <2> QED  BY <1>10, <1>11, <1>13, <2>1 DEF ObserverInv
<1>15. CASE failed = 0
  <2>1. oObserver.stopping /\ oObserver.failures = 0
    BY <1>1, <1>4, <1>15 DEF ObserverInv, SessionInv
  <2>2. ~ (oTool.pid = "running" /\ oTool.at = 0)
    BY <2>1 DEF ObserverInv, PipeInv, Greeting
  <2>3. ASSUME InStep  PROVE Exchange'
    <3>1. Exchange
      BY <2>3 DEF ObserverInv, PipeInv
    <3>2. oClient.waiting /\ Head(oClient.queue) = "DONE" /\ oToObserver = <<>> /\ FailsOnly(oToTool)
      BY <1>1, <2>1, <3>1 DEF Exchange
    <3>3. "STOPPED" \in Answer /\ oToTool' = Append(oToTool, "STOPPED")
      BY <1>7, <1>15, <2>3 DEF InStep, Answer
    <3>4. /\ Marks(oToTool') = Marks(oToTool) \cup {"STOPPED"}
          /\ OnlyOneBut("FAIL", oToTool) /\ Marks(oToTool) \subseteq {"FAIL"} => OnlyOneBut("FAIL", oToTool')
      BY <1>1, <3>3, Pushed
    <3> QED  BY <1>1, <1>6, <1>9, <1>15, <3>1, <3>2, <3>4 DEF Exchange, FailsOnly
  <2>4. PipeInv'
    BY <1>1, <2>2, <2>3 DEF ObserverInv, PipeInv, InStep
  <2> QED  BY <1>10, <1>11, <1>13, <2>4 DEF ObserverInv
<1> QED  BY <1>14, <1>15

\* What only ends a process, or loses an event, leaves all else.
LEMMA StepExit == ObserverInv /\ Observation!exit => ObserverInv'
<1> SUFFICES ASSUME ObserverInv, Observation!exit  PROVE ObserverInv'
  OBVIOUS
<1>1. /\ oObserver.pc = "waiting" /\ oObserver \in Observers /\ oTool \in Tools
      /\ oTool' = [oTool EXCEPT !.pid = IF @ = "running" THEN "killed" ELSE @]
      /\ oObserver' = [oObserver EXCEPT !.pc = "exited",
                      !.exitCode = IF oObserver.failures > 0 THEN 3
                                   ELSE IF @ = 0 /\ oTool.pid # "gone" THEN 1 ELSE @]
      /\ UNCHANGED <<oTracefs, oTrace, oToTool, oToObserver, oClient, oTimeouts, oLost>>
  BY DEF Observation!exit, Observation!pipes, ObserverInv, ObserverTyped
<1>2. /\ oObserver' \in Observers /\ oObserver'.pc = "exited"
      /\ oObserver'.failures = oObserver.failures
      /\ oObserver'.nonce = oObserver.nonce /\ oObserver'.next = oObserver.next
      /\ oObserver'.stopping = oObserver.stopping /\ oObserver'.early = oObserver.early
  BY <1>1 DEF Observers
<1>3. /\ oTool' \in Tools /\ oTool'.pid # "running" /\ (oTool'.pid = "none" => oTool' = oTool)
      /\ oTool'.at = oTool.at /\ oTool'.host = oTool.host /\ oTool'.wrote = oTool.wrote
      /\ oTool'.asking = oTool.asking
  BY <1>1 DEF Tools
<1>4. CleanEnd => CleanEnd'
  BY <1>1, <1>2 DEF CleanEnd
<1>5. ObserverTyped'
  BY <1>1, <1>2, <1>3 DEF ObserverInv, ObserverTyped
<1>6. SessionInv'
  BY <1>1, <1>2 DEF ObserverInv, SessionInv
<1>7. ToolInv'
  BY <1>1, <1>3, <1>4 DEF ObserverInv, ToolInv
<1>8. QueueInv'
  BY <1>1, <1>3 DEF ObserverInv, QueueInv
<1>9. PipeInv'
  BY <1>1, <1>3 DEF ObserverInv, PipeInv, InStep
<1> QED  BY <1>5, <1>6, <1>7, <1>8, <1>9 DEF ObserverInv

LEMMA StepCrash == ObserverInv /\ Observation!crash => ObserverInv'
<1> SUFFICES ASSUME ObserverInv, Observation!crash  PROVE ObserverInv'
  OBVIOUS
<1>1. /\ oObserver' = [oObserver EXCEPT !.pc = "crashed"] /\ oObserver \in Observers
      /\ UNCHANGED <<oTracefs, oTrace, oToTool, oToObserver, oTool, oClient, oTimeouts, oLost>>
  BY DEF Observation!crash, Observation!pipes, ObserverInv, ObserverTyped
<1>2. /\ oObserver' \in Observers /\ oObserver'.pc = "crashed"
      /\ oObserver'.failures = oObserver.failures
      /\ oObserver'.nonce = oObserver.nonce /\ oObserver'.next = oObserver.next
      /\ oObserver'.stopping = oObserver.stopping /\ oObserver'.early = oObserver.early
  BY <1>1 DEF Observers
<1>3. CleanEnd => CleanEnd'
  BY <1>1, <1>2 DEF CleanEnd
<1>4. ObserverTyped'
  BY <1>1, <1>2 DEF ObserverInv, ObserverTyped
<1>5. SessionInv'
  BY <1>1, <1>2 DEF ObserverInv, SessionInv
<1>6. ToolInv' /\ QueueInv'
  BY <1>1, <1>3, ToolAside
<1>7. PipeInv'
  BY <1>1, <1>2, <1>3, PipesAside
<1> QED  BY <1>4, <1>5, <1>6, <1>7 DEF ObserverInv

LEMMA StepLoseEvent == ObserverInv /\ Observation!loseEvent => ObserverInv'
<1> SUFFICES ASSUME ObserverInv, Observation!loseEvent  PROVE ObserverInv'
  OBVIOUS
<1>1. /\ oObserver.pc \in {"starting", "running", "stopping"} /\ TracefsTyped
      /\ oTracefs' = [oTracefs EXCEPT !.lost = TRUE]
      /\ oLost' = ~oObserver.stopping
      /\ UNCHANGED <<oTrace, oObserver, oToTool, oToObserver, oTool, oClient, oTimeouts>>
  BY DEF Observation!loseEvent, Observation!pipes, ObserverInv, ObserverTyped, TracefsTyped
<1>2. /\ TracefsTyped' /\ oTracefs'.lost /\ oTracefs'.instances = oTracefs.instances
      /\ oLost' \in BOOLEAN
  BY <1>1 DEF TracefsTyped
<1>3. ~ CleanEnd
  BY <1>1 DEF CleanEnd
<1>4. ObserverTyped'
  BY <1>1, <1>2 DEF ObserverInv, ObserverTyped, TracefsTyped
<1>5. SessionInv'
  BY <1>1, <1>2 DEF ObserverInv, SessionInv
<1>6. ToolInv' /\ QueueInv'
  BY <1>1, <1>3, ToolAside
<1>7. PipeInv'
  BY <1>1, <1>3, PipesAside
<1> QED  BY <1>4, <1>5, <1>6, <1>7 DEF ObserverInv

-----------------------------------------------------------------------------
(* A new observer, its tool not started *)

Anew ==
    /\ TracefsTyped /\ \E n \in Nat : oObserver = Observation!NewObserver(n)
    /\ oTrace = <<>> /\ oToTool = <<>> /\ oToObserver = <<>>
    /\ oTool = Observation!NoTool /\ oClient = Observation!NoClient /\ oLost = FALSE

LEMMA AnewHolds == Anew => ObserverInv
<1> SUFFICES ASSUME Anew  PROVE ObserverInv
  OBVIOUS
<1>1. /\ oObserver \in Observers /\ oObserver.pc = "precheck" /\ oObserver.next = 1
      /\ oObserver.failures = 0 /\ ~ oObserver.stopping /\ ~ oObserver.early
  BY DEF Anew, Observation!NewObserver, Observers
<1>2. /\ oTool \in Tools /\ oTool.pid = "none" /\ oTool.at = 0 /\ oTool.host = "none"
      /\ ~ oTool.wrote /\ ~ oTool.asking
  BY DEF Anew, Observation!NoTool, Tools
<1>3. oClient \in Clients /\ oClient.queue = <<>> /\ ~ oClient.waiting
  BY DEF Anew, Observation!NoClient, Clients
<1>4. ObserverTyped
  <2>1. oTrace \in Seq(Word) /\ oToTool \in Seq(Answer) /\ oToObserver \in Seq(Request)
    BY EmptySeq DEF Anew
  <2> QED  BY <1>1, <1>2, <1>3, <2>1 DEF Anew, ObserverTyped, TracefsTyped
<1>5. SessionInv
  <2>1. 1 \in 1..(DoneAt - 1)
    BY ScriptFacts
  <2> QED  BY <1>1, <1>2, <2>1, NothingInOrder, NothingMarked DEF Anew, SessionInv
<1>6. ToolInv
  BY <1>2, <1>3, ScriptFacts, NothingMarked DEF Anew, ToolInv
<1>7. QueueInv
  BY <1>3, NothingMarked DEF Anew, QueueInv
<1>8. PipeInv
  BY <1>2, <1>3 DEF Anew, PipeInv, InStep
<1> QED  BY <1>4, <1>5, <1>6, <1>7, <1>8 DEF ObserverInv

LEMMA StepAgain == ObserverInv /\ Observation!again => ObserverInv'
<1>1. ObserverInv /\ Observation!again => Anew'
  <2> SUFFICES ASSUME ObserverInv, Observation!again  PROVE Anew'
    OBVIOUS
  <2>1. oObserver.nonce + 1 \in Nat /\ TracefsTyped
    BY DEF ObserverInv, ObserverTyped, TracefsTyped, Observers
  <2>2. /\ oObserver' = Observation!NewObserver(oObserver.nonce + 1)
        /\ oTrace' = <<>> /\ oToTool' = <<>> /\ oToObserver' = <<>>
        /\ oTool' = Observation!NoTool /\ oClient' = Observation!NoClient /\ oLost' = FALSE
        /\ UNCHANGED oTracefs
    BY DEF Observation!again
  <2>3. TracefsTyped'
    BY <2>1, <2>2 DEF TracefsTyped
  <2> QED  BY <2>1, <2>2, <2>3 DEF Anew, Observation!NewObserver
<1>2. Anew' => ObserverInv'
  BY AnewHolds, PTL
<1> QED  BY <1>1, <1>2

-----------------------------------------------------------------------------
(* The steps of the client *)

\* The session, when only the tool's side moves.
LEMMA SessionAside ==
    ASSUME ObserverInv, oTool.pid = "running", UNCHANGED <<oTracefs, oTrace, oObserver, oLost>>
    PROVE  SessionInv' /\ (CleanEnd => CleanEnd') /\ (TracefsTyped /\ TracefsTyped')
<1>1. SessionInv'
  BY DEF ObserverInv, SessionInv
<1>2. CleanEnd => CleanEnd'
  BY DEF CleanEnd
<1>3. TracefsTyped /\ TracefsTyped'
  BY DEF ObserverInv, ObserverTyped, TracefsTyped
<1> QED  BY <1>1, <1>2, <1>3

LEMMA FailsAreOneKind == ASSUME NEW s, FailsOnly(s)  PROVE OnlyOneBut("FAIL", s)
BY DEF FailsOnly, OnlyOneBut, Marks

\* The request at the head of the queue is the one of the script that is waited for, or
\* a container's.
LEMMA HeadOfQueue ==
    ASSUME ObserverInv, oTool.pid = "running", oClient.queue # <<>>
    PROVE  /\ Head(oClient.queue) \in Request /\ Tail(oClient.queue) \in Seq(Request)
           /\ Marks(oClient.queue) = {Head(oClient.queue)} \cup Marks(Tail(oClient.queue))
           /\ OnlyOneBut("CONTAINER", Tail(oClient.queue))
           /\ Head(oClient.queue) # "CONTAINER" =>
                 /\ Marks(Tail(oClient.queue)) \subseteq {"CONTAINER"}
                 /\ oTool.asking /\ oTool.at \in 1..DoneAt
                 /\ \/ Head(oClient.queue) = Script[oTool.at]
                    \/ oTool.at = 1 /\ Head(oClient.queue) = "ABORT"
           /\ oTool.at \in 1..(DoneAt + 2)
<1>1. oClient.queue \in Seq(Request)
  BY DEF ObserverInv, ObserverTyped, Clients
<1>2. PICK q \in Seq(Request) : q = oClient.queue
  BY <1>1
<1>3. q # <<>>
  BY <1>2
<1>4. /\ Head(q) \in Request /\ Tail(q) \in Seq(Request)
      /\ Marks(q) = {Head(q)} \cup Marks(Tail(q))
      /\ OnlyOneBut("CONTAINER", q) => OnlyOneBut("CONTAINER", Tail(q))
      /\ OnlyOneBut("CONTAINER", q) /\ Head(q) # "CONTAINER" => Marks(Tail(q)) \subseteq {"CONTAINER"}
  BY <1>3, Popped
<1>5. /\ OnlyOneBut("CONTAINER", q)
      /\ \A w \in Marks(q) \ {"CONTAINER"} :
            oTool.asking /\ oTool.at \in 1..DoneAt /\ (w = Script[oTool.at] \/ (oTool.at = 1 /\ w = "ABORT"))
  BY <1>2 DEF ObserverInv, QueueInv
<1>6. oTool.at \in 0..(DoneAt + 2) /\ oTool.at # 0
  BY <1>2, <1>3 DEF ObserverInv, ToolInv, PipeInv, Greeting, Observation!NoClient
<1>7. oTool.at \in 1..(DoneAt + 2)
  BY <1>6, ScriptFacts
<1>8. Head(q) # "CONTAINER" => Head(q) \in Marks(q) \ {"CONTAINER"}
  BY <1>4
<1> QED  BY <1>2, <1>4, <1>5, <1>7, <1>8

LEMMA Answering ==
    ASSUME ObserverInv, oTool.pid = "running", oClient.queue # <<>>,
           UNCHANGED <<oTracefs, oTrace, oObserver, oLost>>,
           NEW c \in Clients, c.queue = oClient.queue, NEW answer \in Answer \cup {"rejected"},
           Observation!Answered(c, answer),
           oToTool' \in Seq(Answer), oToObserver' \in Seq(Request),
           Marks(oToObserver') \subseteq Marks(oToObserver) \cup Marks(oClient.queue),
           oTool.at \in 1..DoneAt /\ answer = "ACK" =>
               Head(oClient.queue) \notin {"DONE", "ABORT"} /\ Head(oClient.queue) \in Marks(oTrace),
           oTool.at \in 1..DoneAt /\ answer = "STOPPED" => Head(oClient.queue) = "DONE" /\ CleanEnd,
           InStep /\ ~ c.failure /\ answer = "ACK" =>
               c.lines = <<>> /\ oToObserver' = <<>> /\ FailsOnly(oToTool')
    PROVE  ObserverInv'
<1>1. PICK word, rest : word = Head(oClient.queue) /\ rest = Tail(oClient.queue)
  OBVIOUS
<1>2. /\ word \in Request /\ rest \in Seq(Request)
      /\ Marks(oClient.queue) = {word} \cup Marks(rest)
      /\ OnlyOneBut("CONTAINER", rest)
      /\ word # "CONTAINER" =>
            /\ Marks(rest) \subseteq {"CONTAINER"}
            /\ oTool.asking /\ oTool.at \in 1..DoneAt
            /\ word = Script[oTool.at] \/ (oTool.at = 1 /\ word = "ABORT")
      /\ oTool.at \in 1..(DoneAt + 2)
  BY <1>1, HeadOfQueue
<1>3. oTool \in Tools /\ oClient \in Clients /\ Len(Script) = DoneAt /\ DoneAt \in Nat /\ DoneAt >= 2
  BY ScriptFacts DEF ObserverInv, ObserverTyped
<1>4. PICK failure \in BOOLEAN :
        failure <=> oClient.failure \/ (word = "CONTAINER" /\ answer # "ACK") \/ c.failure
  OBVIOUS
<1>5. oClient' = [c EXCEPT !.queue = rest, !.waiting = FALSE, !.failure = failure]
  <2>1. failure = (Observation!FailureAfter(word, answer) \/ c.failure)
    BY <1>3, <1>4 DEF Observation!FailureAfter, Clients
  <2> QED  BY <1>1, <2>1 DEF Observation!Answered
<1>6. PICK settled : settled = Observation!Settled(word, answer)
  OBVIOUS
<1>7. oTool' = [settled EXCEPT !.host = IF failure /\ @ = "running" THEN "ended" ELSE @]
  <2>1. failure = (Observation!FailureAfter(word, answer) \/ c.failure)
    BY <1>3, <1>4 DEF Observation!FailureAfter, Clients
  <2> QED  BY <1>1, <1>6, <2>1 DEF Observation!Answered
<1> DEFINE Goes == word # "CONTAINER" /\ ((word = "DONE" /\ answer = "STOPPED") \/ (word # "DONE" /\ answer = "ACK"))
           Stays == word = "CONTAINER"
           Throws == word # "CONTAINER" /\ ~ ((word = "DONE" /\ answer = "STOPPED") \/ (word # "DONE" /\ answer = "ACK"))
<1>8. /\ oTool' \in Tools /\ oTool'.pid = "running" /\ oTool'.wrote = oTool.wrote
      /\ Stays => oTool'.at = oTool.at /\ oTool'.asking = oTool.asking
      /\ Goes => oTool'.at = oTool.at + 1
      /\ Throws => oTool'.at = DoneAt + 2
      /\ \/ oTool'.host = oTool.host
         \/ oTool.host = "running" /\ oTool'.host = "ended"
         \/ Goes /\ word = "HOST_SPAWN" /\ oTool'.host \in {"running", "ended"}
  <2>1. CASE Stays
    <3>1. settled = [oTool EXCEPT !.host = Observation!HostAfter(oClient.failure)]
      BY <1>6, <2>1 DEF Observation!Settled
    <3>2. settled \in Tools /\ settled.pid = "running" /\ settled.wrote = oTool.wrote
          /\ settled.at = oTool.at /\ settled.asking = oTool.asking
          /\ (settled.host = oTool.host \/ (oTool.host = "running" /\ settled.host = "ended"))
      BY <1>3, <3>1 DEF Tools, Observation!HostAfter
    <3> QED  BY <1>7, <2>1, <3>2 DEF Tools
  <2>2. CASE Goes
    <3>1. settled = [oTool EXCEPT !.at = @ + 1, !.asking = FALSE,
                                  !.host = IF word = "HOST_SPAWN" THEN "running" ELSE @]
      BY <1>6, <2>2 DEF Observation!Settled
    <3>2. settled \in Tools /\ settled.pid = "running" /\ settled.wrote = oTool.wrote
          /\ settled.at = oTool.at + 1
          /\ (settled.host = oTool.host \/ (word = "HOST_SPAWN" /\ settled.host = "running"))
      <4>1. PICK after, host : /\ after = oTool.at + 1
                               /\ host = IF word = "HOST_SPAWN" THEN "running" ELSE oTool.host
        OBVIOUS
      <4>2. after \in Nat /\ host \in {"none", "running", "ended"}
        BY <1>3, <4>1 DEF Tools
      <4>3. settled = [oTool EXCEPT !.at = after, !.asking = FALSE, !.host = host]
        BY <1>3, <3>1, <4>1 DEF Tools
      <4>4. settled \in Tools /\ settled.pid = oTool.pid /\ settled.wrote = oTool.wrote
            /\ settled.at = after /\ settled.host = host
        BY <1>3, <4>2, <4>3 DEF Tools
      <4> QED  BY <4>1, <4>4
    <3> QED  BY <1>7, <2>2, <3>2 DEF Tools
  <2>3. CASE Throws
    <3>1. settled = [oTool EXCEPT !.at = DoneAt + 2, !.asking = FALSE]
      BY <1>3, <1>6, <2>3 DEF Observation!Settled, Script
    <3>2. settled \in Tools /\ settled.pid = "running" /\ settled.wrote = oTool.wrote
          /\ settled.at = DoneAt + 2 /\ settled.host = oTool.host
      <4>1. PICK after \in Nat : after = DoneAt + 2
        BY <1>3
      <4>2. settled = [oTool EXCEPT !.at = after, !.asking = FALSE]
        BY <3>1, <4>1
      <4>3. settled \in Tools /\ settled.pid = oTool.pid /\ settled.wrote = oTool.wrote
            /\ settled.at = after /\ settled.host = oTool.host
        BY <1>3, <4>2 DEF Tools
      <4> QED  BY <4>1, <4>3
    <3> QED  BY <1>7, <2>3, <3>2 DEF Tools
  <2> QED  BY <2>1, <2>2, <2>3
<1>9. /\ oClient' \in Clients /\ oClient'.queue = rest /\ ~ oClient'.waiting /\ oClient'.lines = c.lines
      /\ oClient'.failure = failure
  BY <1>2, <1>5 DEF Clients
<1>10. /\ Goes => oTool.at \in 1..DoneAt /\ oTool.asking
       /\ Goes /\ word = "DONE" => oTool.at = DoneAt /\ CleanEnd
       /\ Goes /\ word # "DONE" =>
             word = Script[oTool.at] /\ word \in Marks(oTrace) /\ oTool.at # DoneAt /\ answer = "ACK"
  <2>1. Goes => oTool.at \in 1..DoneAt /\ oTool.asking
    BY <1>2
  <2>2. ASSUME Goes, word = "DONE"  PROVE oTool.at = DoneAt /\ CleanEnd
    <3>1. CleanEnd /\ word = Script[oTool.at]
      BY <1>1, <1>2, <2>1, <2>2
    <3>2. DoneAt \in 1..DoneAt /\ Script[DoneAt] = "DONE"
      BY <1>3, ScriptFacts
    <3> QED  BY <2>1, <2>2, <3>1, <3>2, ScriptFacts
  <2>3. ASSUME Goes, word # "DONE"
        PROVE  word = Script[oTool.at] /\ word \in Marks(oTrace) /\ oTool.at # DoneAt /\ answer = "ACK"
    BY <1>1, <1>2, <2>1, <2>3, ScriptFacts
  <2> QED  BY <2>1, <2>2, <2>3
<1>11. SessionInv' /\ (CleanEnd => CleanEnd') /\ TracefsTyped'
  BY SessionAside
<1>12. ObserverTyped'
  BY <1>8, <1>9, <1>11 DEF ObserverInv, ObserverTyped, TracefsTyped
<1>13. QueueInv'
  <2>1. CASE Stays
    BY <1>2, <1>8, <1>9, <2>1 DEF ObserverInv, QueueInv
  <2>2. CASE ~ Stays
    BY <1>2, <1>9, <2>2 DEF QueueInv
  <2> QED  BY <2>1, <2>2
<1>14. ToolInv'
  <2>1. oTool'.at \in 0..(DoneAt + 2) /\ oTool'.at # 0
    BY <1>2, <1>3, <1>8, <1>10
  <2>2. ASSUME NEW i \in 1..(DoneAt - 1), oTool'.at \in (i + 1)..(DoneAt + 1)
        PROVE  Script[i] \in Marks(oTrace)
    <3>1. oTool.at \in (i + 1)..(DoneAt + 1) => Script[i] \in Marks(oTrace)
      BY DEF ObserverInv, ToolInv
    <3>2. CASE Stays
      BY <1>8, <2>2, <3>1, <3>2
    <3>3. CASE Goes
      BY <1>3, <1>8, <1>10, <2>2, <3>1, <3>3
    <3>4. CASE Throws
      BY <1>3, <1>8, <2>2, <3>4
    <3> QED  BY <3>2, <3>3, <3>4
  <2>3. oTool'.at = DoneAt + 1 \/ oTool'.wrote => CleanEnd'
    <3>1. oTool.at = DoneAt + 1 \/ oTool.wrote => CleanEnd
      BY DEF ObserverInv, ToolInv
    <3>2. Goes /\ oTool.at + 1 = DoneAt + 1 => CleanEnd
      BY <1>3, <1>10
    <3>3. DoneAt + 2 # DoneAt + 1
      BY <1>3
    <3> QED  BY <1>8, <1>11, <3>1, <3>2, <3>3
  <2>4. ASSUME NEW i \in 1..DoneAt, Script[i] = "HOST_SPAWN", oTool'.host # "none"
        PROVE  oTool'.at > i
    <3>1. oTool.at \in Nat /\ i \in Nat /\ i <= DoneAt
      BY <1>2, <1>3
    <3>2. CASE Throws
      BY <1>3, <1>8, <3>1, <3>2
    <3>3. CASE ~ Throws /\ oTool.host # "none"
      <4>1. oTool.at > i
        BY <2>4, <3>3 DEF ObserverInv, ToolInv
      <4> QED  BY <1>8, <3>1, <3>3, <4>1
    <3>4. CASE ~ Throws /\ oTool.host = "none"
      <4>1. Goes /\ word = "HOST_SPAWN"
        BY <1>8, <2>4, <3>4
      <4>2. Script[oTool.at] = Script[i] /\ oTool.at \in 1..DoneAt
        BY <1>10, <2>4, <4>1
      <4>3. oTool.at = i
        BY <4>2, ScriptFacts
      <4> QED  BY <1>8, <3>1, <4>1, <4>3
    <3> QED  BY <3>2, <3>3, <3>4
  <2>5. oTool'.host = "running" => "HOST_SPAWN" \in Marks(oTrace)
    BY <1>8, <1>10 DEF ObserverInv, ToolInv
  <2>6. ASSUME oTool'.host # "ended"
        PROVE  "HOST_EXIT" \notin (Marks(oTrace) \cup Marks(oToObserver')) \cup Marks(rest)
    <3>1. oTool.host # "ended"
      <4>1. SUFFICES ASSUME oTool.host = "ended"  PROVE FALSE
        OBVIOUS
      <4>2. Goes /\ word = "HOST_SPAWN"
        BY <1>8, <2>6, <4>1
      <4>3. oTool.at > oTool.at
        BY <1>10, <4>1, <4>2 DEF ObserverInv, ToolInv
      <4> QED  BY <1>2, <4>3
    <3>2. "HOST_EXIT" \notin (Marks(oTrace) \cup Marks(oToObserver)) \cup Marks(oClient.queue)
      BY <3>1 DEF ObserverInv, ToolInv
    <3> QED  BY <1>2, <3>2
  <2> QED  BY <1>8, <1>9, <2>1, <2>2, <2>3, <2>4, <2>5, <2>6 DEF ToolInv
<1>15. PipeInv'
  <2>1. ASSUME InStep'  PROVE Exchange'
    <3>1. ~ failure /\ oTool'.at \in 1..DoneAt
      BY <1>9, <2>1 DEF InStep
    <3>2. InStep /\ answer = "ACK" /\ ~ c.failure /\ word # "DONE"
      <4>1. ~ oClient.failure /\ ~ c.failure /\ (word = "CONTAINER" => answer = "ACK")
        BY <1>4, <3>1
      <4>2. CASE Stays
        BY <1>8, <3>1, <4>1, <4>2 DEF InStep
      <4>3. CASE Goes
        <5>1. word # "DONE"
          BY <1>3, <1>8, <1>10, <3>1, <4>3
        <5> QED  BY <1>10, <4>1, <4>3, <5>1 DEF InStep
      <4>4. CASE Throws
        BY <1>3, <1>8, <3>1, <4>4
      <4> QED  BY <4>2, <4>3, <4>4
    <3>3. Exchange
      BY <3>2 DEF ObserverInv, PipeInv
    <3>4. c.lines = <<>> /\ oToObserver' = <<>> /\ FailsOnly(oToTool') /\ OnlyOneBut("FAIL", oToTool')
      BY <3>2, FailsAreOneKind
    <3>5. ~ (oObserver.stopping /\ oObserver.failures = 0 /\ oObserver.pc \in {"stopping", "closing"})
      BY <1>1, <3>2, <3>3 DEF Exchange
    <3> QED  BY <1>9, <3>4, <3>5 DEF Exchange, FailsOnly
  <2>2. oTool'.pid = "running" /\ oTool'.at # 0
    BY <1>2, <1>3, <1>8, <1>10
  <2> QED  BY <1>9, <2>1, <2>2 DEF PipeInv
<1> QED  BY <1>11, <1>12, <1>13, <1>14, <1>15 DEF ObserverInv

\* The host ends, or the tool does, or neither.
LEMMA HostAside ==
    ASSUME ObserverInv, oTool.pid = "running", UNCHANGED <<oTracefs, oTrace, oObserver, oLost>>,
           oTool'.pid \in {"running", "gone"}, oTool'.at = oTool.at, oTool'.asking = oTool.asking,
           oTool'.wrote = oTool.wrote,
           oTool'.host = oTool.host \/ (oTool.host = "running" /\ oTool'.host = "ended"),
           oClient'.queue = oClient.queue, Marks(oToObserver') \subseteq Marks(oToObserver)
    PROVE  SessionInv' /\ ToolInv' /\ QueueInv' /\ TracefsTyped'
<1>1. SessionInv' /\ (CleanEnd => CleanEnd') /\ TracefsTyped'
  BY SessionAside
<1>2. ToolInv'
  BY <1>1 DEF ObserverInv, ToolInv
<1>3. QueueInv'
  BY DEF ObserverInv, QueueInv
<1> QED  BY <1>1, <1>2, <1>3

LEMMA StepTimeout == ObserverInv /\ Observation!timeout => ObserverInv'
<1> SUFFICES ASSUME ObserverInv, Observation!timeout  PROVE ObserverInv'
  OBVIOUS
<1>1. /\ oTool.pid = "running" /\ oClient.waiting /\ Observation!Answered(oClient, "rejected")
      /\ UNCHANGED <<oTracefs, oTrace, oObserver, oToTool, oToObserver, oLost>>
  BY DEF Observation!timeout, Observation!Alive, Observation!pipes
<1>2. /\ oClient \in Clients /\ oClient.queue # <<>>
      /\ oToTool' \in Seq(Answer) /\ oToObserver' \in Seq(Request)
  BY <1>1 DEF ObserverInv, ObserverTyped, PipeInv
<1>3. "rejected" \in Answer \cup {"rejected"} /\ "rejected" # "ACK" /\ "rejected" # "STOPPED"
  OBVIOUS
<1> QED  BY <1>1, <1>2, <1>3, Answering

LEMMA StepStreamEnds == ObserverInv /\ Observation!streamEnds => ObserverInv'
<1> SUFFICES ASSUME ObserverInv, Observation!streamEnds  PROVE ObserverInv'
  OBVIOUS
<1>1. /\ oTool.pid = "running" /\ oToTool = <<>>
      /\ UNCHANGED <<oTracefs, oTrace, oObserver, oToTool, oToObserver, oLost>>
      /\ oClient \in Clients /\ oTool \in Tools
      /\ oToTool' \in Seq(Answer) /\ oToObserver' \in Seq(Request)
  BY DEF Observation!streamEnds, Observation!Alive, Observation!pipes, ObserverInv, ObserverTyped
<1>2. PICK told : told = [oClient EXCEPT !.ended = TRUE, !.failure = TRUE]
  OBVIOUS
<1>3. told \in Clients /\ told.queue = oClient.queue /\ told.failure /\ told.waiting = oClient.waiting
  BY <1>1, <1>2 DEF Clients
<1>4. CASE oClient.waiting
  <2>1. Observation!Answered(told, "rejected")
    BY <1>2, <1>4 DEF Observation!streamEnds
  <2>2. "rejected" \in Answer \cup {"rejected"} /\ "rejected" # "ACK" /\ "rejected" # "STOPPED"
    OBVIOUS
  <2>3. oClient.queue # <<>>
    BY <1>4 DEF ObserverInv, PipeInv
  <2> QED  BY <1>1, <1>3, <2>1, <2>2, <2>3, Answering
<1>5. CASE ~ oClient.waiting
  <2>1. oClient' = told /\ oTool' = [oTool EXCEPT !.host = Observation!HostAfter(TRUE)]
    BY <1>2, <1>5 DEF Observation!streamEnds
  <2>2. /\ oTool' \in Tools /\ oTool'.pid = "running" /\ oTool'.at = oTool.at
        /\ oTool'.asking = oTool.asking /\ oTool'.wrote = oTool.wrote
        /\ oTool'.host = oTool.host \/ (oTool.host = "running" /\ oTool'.host = "ended")
    BY <1>1, <2>1 DEF Tools, Observation!HostAfter
  <2>3. SessionInv' /\ ToolInv' /\ QueueInv' /\ TracefsTyped'
    BY <1>1, <1>3, <2>1, <2>2, HostAside
  <2>4. ObserverTyped'
    BY <1>1, <1>3, <2>1, <2>2, <2>3 DEF ObserverInv, ObserverTyped, TracefsTyped
  <2>5. PipeInv'
    <3>1. oTool.at # 0
      BY <1>1 DEF ObserverInv, PipeInv, Greeting
    <3> QED  BY <1>3, <1>5, <2>1, <2>2, <3>1 DEF PipeInv, InStep
  <2> QED  BY <2>3, <2>4, <2>5 DEF ObserverInv
<1> QED  BY <1>4, <1>5

LEMMA StepReceive == ObserverInv /\ Observation!receive => ObserverInv'
<1> SUFFICES ASSUME ObserverInv, Observation!receive  PROVE ObserverInv'
  OBVIOUS
<1>1. /\ oTool.pid = "running" /\ oToTool # <<>> /\ oTool.at > 0 /\ oToTool' = Tail(oToTool)
      /\ UNCHANGED <<oTracefs, oTrace, oObserver, oToObserver, oLost>>
      /\ oClient \in Clients /\ oTool \in Tools
      /\ oToTool \in Seq(Answer) /\ oToObserver' \in Seq(Request)
  BY DEF Observation!receive, Observation!Alive, ObserverInv, ObserverTyped
<1>2. PICK line, told : line = Head(oToTool) /\ told = [oClient EXCEPT !.failure = @ \/ line = "FAIL"]
  OBVIOUS
<1>3. /\ line \in Answer /\ oToTool' \in Seq(Answer)
      /\ Marks(oToTool) = {line} \cup Marks(oToTool')
      /\ OnlyOneBut("FAIL", oToTool) /\ line # "FAIL" => FailsOnly(oToTool')
  <2>1. /\ Head(oToTool) \in Answer /\ Tail(oToTool) \in Seq(Answer)
        /\ Marks(oToTool) = {Head(oToTool)} \cup Marks(Tail(oToTool))
        /\ OnlyOneBut("FAIL", oToTool) /\ Head(oToTool) # "FAIL" => Marks(Tail(oToTool)) \subseteq {"FAIL"}
    BY <1>1, Popped
  <2> QED  BY <1>1, <1>2, <2>1 DEF FailsOnly
<1>4. /\ told \in Clients /\ told.queue = oClient.queue /\ told.lines = oClient.lines
      /\ told.waiting = oClient.waiting
      /\ told.failure <=> oClient.failure \/ line = "FAIL"
  <2>1. PICK failure \in BOOLEAN : failure = (oClient.failure \/ line = "FAIL")
    OBVIOUS
  <2>2. told = [oClient EXCEPT !.failure = failure]
    BY <1>1, <1>2, <2>1, Zenon
  <2> QED  BY <1>1, <2>1, <2>2 DEF Clients
<1>5. InStep => Exchange
  BY DEF ObserverInv, PipeInv
<1>6. CASE oClient.waiting
  <2>1. Observation!Answered(told, line)
    BY <1>2, <1>6 DEF Observation!receive
  <2>2. oClient.queue # <<>> /\ (oTool.at \in 1..DoneAt => InStep)
    BY <1>1, <1>6 DEF ObserverInv, PipeInv, InStep
  <2>3. line \in Marks(oToTool)
    BY <1>3
  <2>4. oTool.at \in 1..DoneAt /\ line = "ACK" =>
          Head(oClient.queue) \notin {"DONE", "ABORT"} /\ Head(oClient.queue) \in Marks(oTrace)
    BY <1>5, <2>2, <2>3 DEF Exchange
  <2>5. oTool.at \in 1..DoneAt /\ line = "STOPPED" => Head(oClient.queue) = "DONE" /\ CleanEnd
    BY <1>5, <2>2, <2>3 DEF Exchange
  <2>6. ASSUME InStep, line = "ACK"
        PROVE  told.lines = <<>> /\ oToObserver' = <<>> /\ FailsOnly(oToTool')
    <3>1. Exchange
      BY <1>5, <2>6
    <3>2. ~ FailsOnly(oToTool)
      BY <2>3, <2>6 DEF FailsOnly
    <3> QED  BY <1>1, <1>3, <1>4, <2>6, <3>1, <3>2 DEF Exchange
  <2>7. line \in Answer \cup {"rejected"} /\ Marks(oToObserver') = Marks(oToObserver)
    BY <1>1, <1>3
  <2> QED  BY <1>1, <1>3, <1>4, <2>1, <2>2, <2>4, <2>5, <2>6, <2>7, Answering
<1>7. CASE ~ oClient.waiting
  <2>1. /\ oClient' = [told EXCEPT !.lines = Append(@, line)]
        /\ oTool' = [oTool EXCEPT !.host = Observation!HostAfter(told.failure)]
    BY <1>2, <1>7 DEF Observation!receive
  <2>2. /\ oTool' \in Tools /\ oTool'.pid = "running" /\ oTool'.at = oTool.at
        /\ oTool'.asking = oTool.asking /\ oTool'.wrote = oTool.wrote
        /\ oTool'.host = oTool.host \/ (oTool.host = "running" /\ oTool'.host = "ended")
    BY <1>1, <2>1 DEF Tools, Observation!HostAfter
  <2>3. /\ oClient' \in Clients /\ oClient'.queue = oClient.queue /\ ~ oClient'.waiting
        /\ oClient'.failure = told.failure
    <3>1. Append(told.lines, line) \in Seq(Answer)
      BY <1>3, <1>4, AppendProperties DEF Clients
    <3> QED  BY <1>4, <1>7, <2>1, <3>1 DEF Clients
  <2>4. SessionInv' /\ ToolInv' /\ QueueInv' /\ TracefsTyped'
    BY <1>1, <2>2, <2>3, HostAside
  <2>5. ObserverTyped'
    BY <1>1, <1>3, <2>2, <2>3, <2>4 DEF ObserverInv, ObserverTyped, TracefsTyped
  <2>6. PipeInv'
    <3>1. ~ InStep'
      <4>1. SUFFICES ASSUME InStep'  PROVE FALSE
        OBVIOUS
      <4>2. InStep /\ line # "FAIL"
        BY <1>1, <1>4, <2>2, <2>3, <4>1 DEF InStep
      <4>3. FailsOnly(oToTool)
        BY <1>5, <1>7, <4>2 DEF Exchange
      <4> QED  BY <1>3, <4>2, <4>3 DEF FailsOnly
    <3>2. oTool'.pid = "running" /\ oTool'.at # 0
      BY <1>1, <2>2 DEF Tools
    <3> QED  BY <2>3, <3>1, <3>2 DEF PipeInv
  <2> QED  BY <2>4, <2>5, <2>6 DEF ObserverInv
<1> QED  BY <1>6, <1>7

LEMMA StepRequest == ObserverInv /\ Observation!request => ObserverInv'
<1> SUFFICES ASSUME ObserverInv, Observation!request  PROVE ObserverInv'
  OBVIOUS
<1>1. /\ oTool.pid = "running" /\ oClient.queue # <<>> /\ ~ oClient.waiting
      /\ UNCHANGED <<oTracefs, oTrace, oObserver, oToTool, oLost>>
      /\ oClient \in Clients /\ oTool \in Tools
      /\ oToTool' \in Seq(Answer) /\ oToObserver \in Seq(Request)
  BY DEF Observation!request, Observation!Alive, ObserverInv, ObserverTyped
<1>2. "rejected" \in Answer \cup {"rejected"} /\ "rejected" # "ACK" /\ "rejected" # "STOPPED"
  OBVIOUS
<1>3. CASE oClient.failure
  <2>1. Observation!Answered(oClient, "rejected") /\ UNCHANGED oToObserver
    BY <1>3 DEF Observation!request
  <2> QED  BY <1>1, <1>2, <2>1, Answering
<1>4. CASE ~ oClient.failure
  <2>1. PICK word \in Request : word = Head(oClient.queue)
    BY <1>1, HeadOfQueue
  <2>2. oToObserver' = Append(oToObserver, word)
    BY <1>4, <2>1 DEF Observation!request
  <2>3. /\ oToObserver' \in Seq(Request) /\ Marks(oToObserver') = Marks(oToObserver) \cup {word}
        /\ oToObserver = <<>> => oToObserver' = <<word>>
    BY <1>1, <2>2, Pushed
  <2>4. word \in Marks(oClient.queue)
    BY <1>1, <2>1, HeadOfQueue
  <2>5. Marks(oToObserver') \subseteq Marks(oToObserver) \cup Marks(oClient.queue)
    BY <2>3, <2>4
  <2>6. CASE oClient.lines # <<>>
    <3>1. PICK c, answer : c = [oClient EXCEPT !.lines = Tail(@)] /\ answer = Head(oClient.lines)
      OBVIOUS
    <3>2. Observation!Answered(c, answer)
      BY <1>4, <2>6, <3>1 DEF Observation!request
    <3>3. c \in Clients /\ c.queue = oClient.queue /\ answer \in Answer \cup {"rejected"}
      <4>1. Tail(oClient.lines) \in Seq(Answer) /\ Head(oClient.lines) \in Answer
        BY <1>1, <2>6, HeadTailProperties DEF Clients
      <4> QED  BY <1>1, <3>1, <4>1 DEF Clients
    <3>4. ~ InStep /\ oTool.at \notin 1..DoneAt
      BY <1>1, <1>4, <2>6 DEF ObserverInv, PipeInv, Exchange, InStep
    <3> QED  BY <1>1, <2>3, <2>5, <3>2, <3>3, <3>4, Answering
  <2>7. CASE oClient.lines = <<>> /\ oClient.ended
    <3>1. Observation!Answered(oClient, "rejected")
      BY <1>4, <2>7 DEF Observation!request
    <3> QED  BY <1>1, <1>2, <2>3, <2>5, <3>1, Answering
  <2>8. CASE oClient.lines = <<>> /\ ~ oClient.ended
    <3>1. oClient' = [oClient EXCEPT !.waiting = TRUE] /\ UNCHANGED oTool
      BY <1>4, <2>8 DEF Observation!request
    <3>2. /\ oClient' \in Clients /\ oClient'.queue = oClient.queue /\ oClient'.lines = oClient.lines
          /\ oClient'.failure = oClient.failure /\ oClient'.waiting
      BY <1>1, <3>1 DEF Clients
    <3>3. SessionInv' /\ (CleanEnd => CleanEnd') /\ TracefsTyped'
      BY <1>1, SessionAside
    <3>4. ObserverTyped'
      BY <1>1, <2>3, <3>1, <3>2, <3>3 DEF ObserverInv, ObserverTyped, TracefsTyped
    <3>5. QueueInv'
      BY <3>1, <3>2 DEF ObserverInv, QueueInv
    <3>6. ToolInv'
      BY <1>1, <2>5, <3>1, <3>2, <3>3 DEF ObserverInv, ToolInv
    <3>7. PipeInv'
      <4>1. oTool.at # 0
        BY <1>1 DEF ObserverInv, PipeInv, Greeting, Observation!NoClient
      <4>2. ASSUME InStep  PROVE Exchange'
        <5>1. Exchange
          BY <4>2 DEF ObserverInv, PipeInv
        <5> QED  BY <1>1, <2>1, <2>3, <3>2, <3>3, <5>1 DEF Exchange, FailsOnly
      <4> QED  BY <1>1, <1>4, <3>1, <3>2, <4>1, <4>2 DEF PipeInv, InStep
    <3> QED  BY <3>3, <3>4, <3>5, <3>6, <3>7 DEF ObserverInv
  <2> QED  BY <2>6, <2>7, <2>8
<1> QED  BY <1>3, <1>4

-----------------------------------------------------------------------------
(* The steps of the tool *)

LEMMA Single == \A w : Marks(<<w>>) = {w} /\ \A v : OnlyOneBut(v, <<w>>)
<1> SUFFICES ASSUME NEW w  PROVE Marks(<<w>>) = {w} /\ \A v : OnlyOneBut(v, <<w>>)
  OBVIOUS
<1>1. DOMAIN <<w>> = {1} /\ <<w>>[1] = w
  OBVIOUS
<1> QED  BY <1>1 DEF Marks, OnlyOneBut

LEMMA StepToolReady == ObserverInv /\ Observation!toolReady => ObserverInv'
<1> SUFFICES ASSUME ObserverInv, Observation!toolReady  PROVE ObserverInv'
  OBVIOUS
<1>1. /\ oTool.pid = "running" /\ oTool.at = 0 /\ oToTool' = Tail(oToTool)
      /\ UNCHANGED <<oTracefs, oTrace, oObserver, oToObserver, oLost>>
      /\ oTool \in Tools /\ oToTool \in Seq(Answer) /\ oToObserver' \in Seq(Request)
  BY DEF Observation!toolReady, Observation!Alive, ObserverInv, ObserverTyped
<1>2. /\ oClient = Observation!NoClient /\ oToObserver = <<>>
      /\ oToTool # <<>> /\ Head(oToTool) = "READY" /\ FailsOnly(oToTool')
      /\ oObserver.failures = 0 => ~ oObserver.stopping
  BY <1>1 DEF ObserverInv, PipeInv, Greeting
<1>3. PICK word \in {"HELLO", "ABORT"} :
        /\ oClient' = [oClient EXCEPT !.queue = <<word>>]
        /\ oTool' = [oTool EXCEPT !.at = 1, !.asking = TRUE]
  BY <1>2 DEF Observation!toolReady
<1>4. /\ oClient' \in Clients /\ oClient'.queue = <<word>> /\ oClient'.lines = <<>>
      /\ ~ oClient'.waiting /\ ~ oClient'.failure
  <2>1. <<word>> \in Seq(Request) /\ <<>> \in Seq(Answer)
    BY DEF Request
  <2> QED  BY <1>2, <1>3, <2>1 DEF Clients, Observation!NoClient
<1>5. /\ oTool' \in Tools /\ oTool'.pid = "running" /\ oTool'.at = 1 /\ oTool'.asking
      /\ oTool'.wrote = oTool.wrote /\ oTool'.host = oTool.host
  BY <1>1, <1>3 DEF Tools
<1>6. SessionInv' /\ (CleanEnd => CleanEnd') /\ TracefsTyped'
  BY <1>1, SessionAside
<1>7. oToTool' \in Seq(Answer)
  BY <1>1, <1>2, HeadTailProperties
<1>8. ObserverTyped'
  BY <1>1, <1>4, <1>5, <1>6, <1>7 DEF ObserverInv, ObserverTyped, TracefsTyped
<1>9. QueueInv'
  BY <1>4, <1>5, Single, ScriptFacts DEF QueueInv
<1>10. ToolInv'
  <2>1. oTool.host = "none" /\ ~ oTool.wrote
        /\ "HOST_EXIT" \notin Marks(oTrace) \cup Marks(oToObserver)
    BY <1>1 DEF ObserverInv, ToolInv
  <2>2. 1 \in 0..(DoneAt + 2) /\ 1 # DoneAt + 1
        /\ \A i \in 1..(DoneAt - 1) : 1 \notin (i + 1)..(DoneAt + 1)
    BY ScriptFacts
  <2>3. "HOST_EXIT" \notin Marks(oClient'.queue)
    BY <1>4, Single
  <2> QED  BY <1>1, <1>5, <2>1, <2>2, <2>3 DEF ToolInv
<1>11. PipeInv'
  <2>1. Exchange'
    BY <1>1, <1>2, <1>4, FailsAreOneKind DEF Exchange, FailsOnly
  <2> QED  BY <1>4, <1>5, <2>1 DEF PipeInv
<1> QED  BY <1>6, <1>8, <1>9, <1>10, <1>11 DEF ObserverInv

\* A request joins the queue.
LEMMA Joining ==
    ASSUME ObserverInv, oTool.pid = "running", oTool.at # 0, NEW word \in Request,
           UNCHANGED <<oTracefs, oTrace, oObserver, oToTool, oToObserver, oLost>>,
           oClient' = [oClient EXCEPT !.queue = Append(@, word)],
           oTool' \in Tools, oTool'.pid = "running", oTool'.at = oTool.at,
           oTool'.host = oTool.host, oTool'.wrote = oTool.wrote,
           oTool.host # "ended" => word # "HOST_EXIT",
           \/ word = "CONTAINER" /\ oTool'.asking = oTool.asking
           \/ ~ oTool.asking /\ oTool'.asking /\ oTool.at \in 1..DoneAt /\ word = Script[oTool.at]
    PROVE  ObserverInv'
<1>1. oClient \in Clients /\ oClient.queue \in Seq(Request)
  BY DEF ObserverInv, ObserverTyped, Clients
<1>2. PICK q \in Seq(Request) : q = oClient.queue
  BY <1>1
<1>3. /\ Append(q, word) \in Seq(Request) /\ Append(q, word) # <<>>
      /\ Marks(Append(q, word)) = Marks(q) \cup {word}
      /\ q # <<>> => Head(Append(q, word)) = Head(q)
      /\ OnlyOneBut("CONTAINER", q) /\ (word = "CONTAINER" \/ Marks(q) \subseteq {"CONTAINER"})
             => OnlyOneBut("CONTAINER", Append(q, word))
  BY Pushed
<1>4. /\ oClient' \in Clients /\ oClient'.queue = Append(q, word) /\ oClient'.lines = oClient.lines
      /\ oClient'.waiting = oClient.waiting /\ oClient'.failure = oClient.failure
  BY <1>1, <1>2, <1>3 DEF Clients
<1>5. SessionInv' /\ (CleanEnd => CleanEnd') /\ TracefsTyped'
  BY SessionAside
<1>6. ObserverTyped'
  BY <1>4, <1>5 DEF ObserverInv, ObserverTyped, TracefsTyped
<1>7. ToolInv'
  <2>1. oTool'.host # "ended" => "HOST_EXIT" \notin (Marks(oTrace) \cup Marks(oToObserver)) \cup Marks(oClient'.queue)
    BY <1>2, <1>3, <1>4 DEF ObserverInv, ToolInv
  <2> QED  BY <1>5, <2>1 DEF ObserverInv, ToolInv
<1>8. QueueInv'
  <2>1. /\ OnlyOneBut("CONTAINER", q)
        /\ \A w \in Marks(q) \ {"CONTAINER"} :
              oTool.asking /\ oTool.at \in 1..DoneAt /\ (w = Script[oTool.at] \/ (oTool.at = 1 /\ w = "ABORT"))
    BY <1>2 DEF ObserverInv, QueueInv
  <2>2. CASE word = "CONTAINER" /\ oTool'.asking = oTool.asking
    BY <1>3, <1>4, <2>1, <2>2 DEF QueueInv
  <2>3. CASE ~ oTool.asking /\ oTool'.asking /\ oTool.at \in 1..DoneAt /\ word = Script[oTool.at]
    <3>1. Marks(q) \subseteq {"CONTAINER"}
      BY <2>1, <2>3
    <3> QED  BY <1>3, <1>4, <2>1, <2>3, <3>1 DEF QueueInv
  <2> QED  BY <2>2, <2>3
<1>9. PipeInv'
  <2>1. ASSUME InStep  PROVE Exchange'
    <3>1. Exchange /\ (oClient.waiting => q # <<>>)
      BY <1>2, <2>1 DEF ObserverInv, PipeInv
    <3>2. oClient.waiting => Head(oClient'.queue) = Head(oClient.queue)
      BY <1>2, <1>3, <1>4, <3>1
    <3>3. ~ oClient.waiting => oToObserver = <<>> /\ FailsOnly(oToTool)
      BY <3>1 DEF Exchange
    <3> QED  BY <1>4, <1>5, <3>1, <3>2, <3>3 DEF Exchange, FailsOnly
  <2>2. oClient'.waiting => ~ oClient'.failure /\ oClient'.queue # <<>>
    BY <1>3, <1>4 DEF ObserverInv, PipeInv
  <2>3. InStep' <=> InStep
    BY <1>4 DEF InStep
  <2> QED  BY <2>1, <2>2, <2>3 DEF PipeInv
<1> QED  BY <1>5, <1>6, <1>7, <1>8, <1>9 DEF ObserverInv

LEMMA StepToolAsks == ObserverInv /\ Observation!toolAsks => ObserverInv'
<1> SUFFICES ASSUME ObserverInv, Observation!toolAsks  PROVE ObserverInv'
  OBVIOUS
<1>1. /\ oTool.pid = "running" /\ oTool.at \in 2..Len(Script) /\ ~ oTool.asking /\ oTool \in Tools
      /\ UNCHANGED <<oTracefs, oTrace, oObserver, oToTool, oToObserver, oLost>>
      /\ oTool' = [oTool EXCEPT !.asking = TRUE]
  BY DEF Observation!toolAsks, Observation!Alive, Observation!pipes, Script, ObserverInv, ObserverTyped
<1>2. PICK word : word = Script[oTool.at]
  OBVIOUS
<1>3. /\ oClient' = [oClient EXCEPT !.queue = Append(@, word)]
      /\ word = "HOST_EXIT" => oTool.host = "ended"
  BY <1>2 DEF Observation!toolAsks, Script
<1>4. oTool.at \in 1..DoneAt /\ oTool.at # 0 /\ word \in Request
  BY <1>1, <1>2, ScriptFacts DEF Request
<1>5. /\ oTool' \in Tools /\ oTool'.pid = "running" /\ oTool'.at = oTool.at
      /\ oTool'.host = oTool.host /\ oTool'.wrote = oTool.wrote /\ oTool'.asking
  BY <1>1 DEF Tools
<1> QED  BY <1>1, <1>2, <1>3, <1>4, <1>5, Joining

LEMMA StepToolSees == ObserverInv /\ Observation!toolSees => ObserverInv'
<1> SUFFICES ASSUME ObserverInv, Observation!toolSees  PROVE ObserverInv'
  OBVIOUS
<1>1. /\ oTool.pid = "running" /\ oTool.host = "running" /\ oTool \in Tools
      /\ UNCHANGED <<oTracefs, oTrace, oObserver, oToTool, oToObserver, oLost>>
      /\ oClient' = [oClient EXCEPT !.queue = Append(@, "CONTAINER")]
      /\ oTool' = [oTool EXCEPT !.containers = @ + 1]
  BY DEF Observation!toolSees, Observation!Alive, Observation!pipes, ObserverInv, ObserverTyped
<1>2. oTool.at # 0 /\ "CONTAINER" \in Request
  BY <1>1 DEF ObserverInv, ToolInv, Request
<1>3. /\ oTool' \in Tools /\ oTool'.pid = "running" /\ oTool'.at = oTool.at
      /\ oTool'.host = oTool.host /\ oTool'.wrote = oTool.wrote /\ oTool'.asking = oTool.asking
  BY <1>1 DEF Tools
<1> QED  BY <1>1, <1>2, <1>3, Joining

\* The host or the tool comes to its end, and the pipes are left.
LEMMA Ending ==
    ASSUME ObserverInv, oTool.pid = "running",
           UNCHANGED <<oTracefs, oTrace, oObserver, oToTool, oToObserver, oClient, oLost>>,
           oTool' \in Tools, oTool'.pid \in {"running", "gone"}, oTool'.at = oTool.at,
           oTool'.asking = oTool.asking, oTool'.wrote = oTool.wrote,
           oTool'.host = oTool.host \/ (oTool.host = "running" /\ oTool'.host = "ended")
    PROVE  ObserverInv'
<1>1. SessionInv' /\ ToolInv' /\ QueueInv' /\ TracefsTyped'
  BY HostAside
<1>2. ObserverTyped'
  BY <1>1 DEF ObserverInv, ObserverTyped, TracefsTyped
<1>3. (Greeting => Greeting') /\ (Exchange => Exchange')
  <2>1. CleanEnd => CleanEnd'
    BY DEF CleanEnd
  <2> QED  BY <2>1 DEF Greeting, Exchange
<1>4. PipeInv'
  BY <1>3 DEF ObserverInv, PipeInv, InStep
<1> QED  BY <1>1, <1>2, <1>4 DEF ObserverInv

LEMMA StepHostEnds == ObserverInv /\ Observation!hostEnds => ObserverInv'
<1> SUFFICES ASSUME ObserverInv, Observation!hostEnds  PROVE ObserverInv'
  OBVIOUS
<1>1. /\ oTool.pid = "running" /\ oTool.host = "running" /\ oTool \in Tools
      /\ UNCHANGED <<oTracefs, oTrace, oObserver, oToTool, oToObserver, oClient, oLost>>
      /\ oTool' = [oTool EXCEPT !.host = "ended"]
  BY DEF Observation!hostEnds, Observation!Alive, Observation!pipes, ObserverInv, ObserverTyped
<1>2. /\ oTool' \in Tools /\ oTool'.pid \in {"running", "gone"} /\ oTool'.at = oTool.at
      /\ oTool'.asking = oTool.asking /\ oTool'.wrote = oTool.wrote /\ oTool'.host = "ended"
  BY <1>1 DEF Tools
<1> QED  BY <1>1, <1>2, Ending

LEMMA StepToolDies == ObserverInv /\ Observation!toolDies => ObserverInv'
<1> SUFFICES ASSUME ObserverInv, Observation!toolDies  PROVE ObserverInv'
  OBVIOUS
<1>1. /\ oTool.pid = "running" /\ oTool \in Tools
      /\ UNCHANGED <<oTracefs, oTrace, oObserver, oToTool, oToObserver, oClient, oLost>>
      /\ oTool' = [oTool EXCEPT !.pid = "gone", !.host = IF @ = "running" THEN "ended" ELSE @]
  BY DEF Observation!toolDies, Observation!Alive, Observation!pipes, ObserverInv, ObserverTyped
<1>2. /\ oTool' \in Tools /\ oTool'.pid \in {"running", "gone"} /\ oTool'.at = oTool.at
      /\ oTool'.asking = oTool.asking /\ oTool'.wrote = oTool.wrote
      /\ oTool'.host = oTool.host \/ (oTool.host = "running" /\ oTool'.host = "ended")
  BY <1>1 DEF Tools
<1> QED  BY <1>1, <1>2, Ending

LEMMA StepToolEnds == ObserverInv /\ Observation!toolEnds => ObserverInv'
<1> SUFFICES ASSUME ObserverInv, Observation!toolEnds  PROVE ObserverInv'
  OBVIOUS
<1>1. /\ oTool.pid = "running" /\ oTool \in Tools
      /\ UNCHANGED <<oTracefs, oTrace, oObserver, oToTool, oToObserver, oClient, oLost>>
      /\ oTool' = [oTool EXCEPT !.pid = "gone"]
  BY DEF Observation!toolEnds, Observation!Alive, Observation!pipes, ObserverInv, ObserverTyped
<1>2. /\ oTool' \in Tools /\ oTool'.pid \in {"running", "gone"} /\ oTool'.at = oTool.at
      /\ oTool'.asking = oTool.asking /\ oTool'.wrote = oTool.wrote /\ oTool'.host = oTool.host
  BY <1>1 DEF Tools
<1> QED  BY <1>1, <1>2, Ending

LEMMA StepToolWrites == ObserverInv /\ Observation!toolWrites => ObserverInv'
<1> SUFFICES ASSUME ObserverInv, Observation!toolWrites  PROVE ObserverInv'
  OBVIOUS
<1>1. /\ oTool.pid = "running" /\ oTool.at = DoneAt + 1 /\ oTool \in Tools
      /\ UNCHANGED <<oTracefs, oTrace, oObserver, oToTool, oToObserver, oClient, oLost>>
      /\ oTool' = [oTool EXCEPT !.wrote = TRUE]
  BY ScriptFacts DEF Observation!toolWrites, Observation!Alive, Observation!pipes, Script,
                     ObserverInv, ObserverTyped
<1>2. /\ oTool' \in Tools /\ oTool'.pid = "running" /\ oTool'.at = oTool.at
      /\ oTool'.asking = oTool.asking /\ oTool'.host = oTool.host
  BY <1>1 DEF Tools
<1>3. SessionInv' /\ (CleanEnd => CleanEnd') /\ TracefsTyped'
  BY <1>1, SessionAside
<1>4. ObserverTyped'
  BY <1>1, <1>2, <1>3 DEF ObserverInv, ObserverTyped, TracefsTyped
<1>5. DoneAt + 1 # 0 /\ DoneAt + 1 \notin 1..DoneAt
  BY ScriptFacts
<1>6. ToolInv'
  <2>1. CleanEnd'
    BY <1>1, <1>3 DEF ObserverInv, ToolInv
  <2> QED  BY <1>1, <1>2, <1>5, <2>1 DEF ObserverInv, ToolInv
<1>7. QueueInv'
  BY <1>1, <1>2 DEF ObserverInv, QueueInv
<1>8. PipeInv'
  BY <1>1, <1>2, <1>5 DEF ObserverInv, PipeInv, InStep
<1> QED  BY <1>3, <1>4, <1>6, <1>7, <1>8 DEF ObserverInv

-----------------------------------------------------------------------------
(* What the tool writes is what the observer saw *)

LEMMA ObserverNext == ObserverInv /\ [LiveNext]_both => ObserverInv'
<1>1. ASSUME ObserverInv, UNCHANGED observing
      PROVE  ObserverInv'
  <2>1. UNCHANGED <<oTracefs, oTrace, oObserver, oToTool, oToObserver, oTool, oClient, oLost>>
    BY <1>1 DEF observing
  <2>2. CleanEnd' <=> CleanEnd
    BY <2>1 DEF CleanEnd
  <2>3. ObserverTyped' /\ SessionInv' /\ QueueInv'
    BY <1>1, <2>1 DEF ObserverInv, ObserverTyped, SessionInv, QueueInv
  <2>4. ToolInv'
    BY <1>1, <2>1, <2>2 DEF ObserverInv, ToolInv
  <2>5. PipeInv'
    BY <1>1, <2>1, <2>2 DEF ObserverInv, PipeInv, InStep, Greeting, Exchange
  <2> QED  BY <2>3, <2>4, <2>5 DEF ObserverInv
<1>2. ASSUME ObserverInv, Observation!ObserverStep
      PROVE  ObserverInv'
  BY <1>2, StepPrecheck, StepOpen, StepStart, StepBeat, StepAccept, StepToolExit, StepStop, StepClose,
     StepExit DEF Observation!ObserverStep
<1>3. ASSUME ObserverInv, Observation!ClientStep
      PROVE  ObserverInv'
  BY <1>3, StepRequest, StepReceive, StepStreamEnds DEF Observation!ClientStep
<1>4. ASSUME ObserverInv, Observation!ToolStep
      PROVE  ObserverInv'
  BY <1>4, StepToolReady, StepToolAsks, StepHostEnds, StepToolWrites, StepToolEnds
     DEF Observation!ToolStep
<1>5. ASSUME ObserverInv, Observation!Faults
      PROVE  ObserverInv'
  BY <1>5, StepCrash, StepAgain, StepLoseEvent, StepTimeout, StepToolDies, StepToolSees
     DEF Observation!Faults
<1> QED  BY <1>1, <1>2, <1>3, <1>4, <1>5 DEF LiveNext, Observation!Next, both

\* What the tool has written of its run is what the observer saw of it, whatever the
\* phases and however often answers come late, events are lost and processes die
\* (RunIsObserved; sp1-egress-observer.ts and measure-sp1-attributed-proof-exercise.ts).
THEOREM ToolsRunIsObserved == LiveSumSpec => []RunIsObserved
<1>1. LiveInit => ObserverInv
  <2>1. LiveInit => Anew
    BY DEF LiveInit, Observation!Init, Anew, TracefsTyped
  <2> QED  BY <2>1, AnewHolds
<1>2. ObserverInv => RunIsObserved
  <2> SUFFICES ASSUME ObserverInv  PROVE RunIsObserved
    OBVIOUS
  <2>1. \A w : Observation!Marked(w) <=> w \in Marks(oTrace)
    BY DEF Observation!Marked, Observation!ToSet, Marks
  <2>2. Observation!ActsAreMarked
    <3>1. \A i \in 1..(DoneAt - 1) : oTool.at \in (i + 1)..(DoneAt + 1) => Script[i] \in Marks(oTrace)
      BY DEF ObserverInv, ToolInv
    <3>2. oTool.host = "running" => "HOST_SPAWN" \in Marks(oTrace) /\ "HOST_EXIT" \notin Marks(oTrace)
      BY DEF ObserverInv, ToolInv
    <3> QED  BY <2>1, <3>1, <3>2, ScriptFacts DEF Observation!ActsAreMarked, Script
  <2>3. Observation!ObservationIsOfACleanRun
    <3>1. SUFFICES ASSUME oTool.wrote
                   PROVE  /\ Observation!InPhaseOrder(Len(PhaseNames) + 1)
                          /\ {"STOP_CLEAN", "TOOL_DONE_OK"} \subseteq Marks(oTrace)
                          /\ "FAIL" \notin Marks(oTrace) /\ ~ oLost
                          /\ oObserver.nonce \notin oTracefs.instances
                          /\ oObserver.nonce \notin oTracefs.probes
      BY <2>1 DEF Observation!ObservationIsOfACleanRun
    <3>2. CleanEnd
      BY <3>1 DEF ObserverInv, ToolInv
    <3>3. PhaseOrder(oTrace, Len(PhaseNames) + 1)
      <4>1. DoneAt - 1 = Len(PhaseNames) + 1
        BY PhaseFacts DEF DoneAt
      <4> QED  BY <3>2, <4>1 DEF ObserverInv, SessionInv, CleanEnd
    <3>4. Observation!InPhaseOrder(Len(PhaseNames) + 1)
      BY <2>1, <3>3 DEF Observation!InPhaseOrder, PhaseOrder
    <3> QED  BY <3>2, <3>4 DEF CleanEnd
  <2> QED  BY <2>2, <2>3 DEF RunIsObserved, ActsAreMarked, ObservationIsOfACleanRun
<1> QED  BY <1>1, <1>2, ObserverNext, PTL DEF LiveSumSpec

-----------------------------------------------------------------------------
(* The vault.  From here on its assumptions are at hand. *)

USE GovernanceAssumption, VaultAssumption, MarkerAssumption

-----------------------------------------------------------------------------
(* Type correctness. *)

\* The operator's calls and the environment keep every value well typed.
LEMMA OperatorTypeOK == GovTypeOK /\ OperatorNext => GovTypeOK'
<1> SUFFICES ASSUME GovTypeOK, OperatorNext PROVE GovTypeOK'
  OBVIOUS
<1> USE DEF GovTypeOK
<1>1. ASSUME NEW t \in Threshold, NEW d \in Delay, proposeLargeTxParams(t, d)
      PROVE  GovTypeOK'
  BY <1>1 DEF proposeLargeTxParams
<1>2. CASE applyLargeTxParams
  BY <1>2 DEF applyLargeTxParams, NoLargeTx
<1>3. CASE cancelLargeTxParams
  BY <1>3 DEF cancelLargeTxParams, NoLargeTx
<1>4. ASSUME NEW e \in EngineProposal, proposePolicyEngine(e)
      PROVE  GovTypeOK'
  BY <1>4 DEF proposePolicyEngine
<1>5. CASE applyPolicyEngine
  BY <1>5 DEF applyPolicyEngine, NoPolicyEngineUpdate
<1>6. CASE cancelPolicyEngine
  BY <1>6 DEF cancelPolicyEngine, NoPolicyEngineUpdate
<1>7. CASE pause
  BY <1>7 DEF pause, govVars
<1>8. CASE unpause
  BY <1>8 DEF unpause, govVars
<1> QED
  BY <1>1, <1>2, <1>3, <1>4, <1>5, <1>6, <1>7, <1>8 DEF OperatorNext

LEMMA EnvironmentTypeOK == GovTypeOK /\ (Tick \/ EngineChanges) => GovTypeOK'
<1> SUFFICES ASSUME GovTypeOK, Tick \/ EngineChanges PROVE GovTypeOK'
  OBVIOUS
<1>1. CASE Tick
  BY <1>1 DEF GovTypeOK, Tick, govVars
<1>2. CASE EngineChanges
  BY <1>2 DEF GovTypeOK, EngineChanges, govVars
<1> QED
  BY <1>1, <1>2

\* What a call leaves unchanged when it does not touch the operator's state.
LEMMA OperatorVarsTypeOK == GovTypeOK /\ UNCHANGED operatorVars => GovTypeOK'
  BY DEF GovTypeOK, operatorVars

\* The type invariant is inductive together with the fact that recovery and
\* queued withdrawals belong to vaults that exist.
Typed == TypeOK /\ NothingWithoutVault

\* A refund is an amount of money.
LEMMA RefundType ==
  ASSUME TypeOK, NEW o \in Owner
  PROVE  Refund(o) \in Nat
  BY DEF TypeOK, TenantTypeOK, Refund, HasPending, PendingWithdrawal, Withdrawal

\* Clearing approvals keeps the two approval mappings well typed.
LEMMA ClearApprovalsType ==
  ASSUME TypeOK, NEW o \in Owner, NEW op \in Withdrawal,
         ClearTreasuryApprovals(o, op)
  PROVE  /\ treasuryApprovalCount' \in [Withdrawal -> Nat]
         /\ treasuryApprovals' \in [Withdrawal -> SUBSET Account]
  BY DEF TypeOK, TenantTypeOK, ClearTreasuryApprovals, approvalVars

LEMMA ClearPendingType ==
  ASSUME TypeOK, NEW o \in Owner, ClearPendingApprovals(o)
  PROVE  /\ treasuryApprovalCount' \in [Withdrawal -> Nat]
         /\ treasuryApprovals' \in [Withdrawal -> SUBSET Account]
<1>1. CASE HasPending(o)
  <2>1. pendingWithdrawals[o].operationId \in Withdrawal
    BY <1>1 DEF TypeOK, TenantTypeOK, HasPending, PendingWithdrawal
  <2> QED
    BY <1>1, <2>1, ClearApprovalsType DEF ClearPendingApprovals
<1>2. CASE ~HasPending(o)
  BY <1>2 DEF ClearPendingApprovals, approvalVars, TypeOK, TenantTypeOK
<1> QED
  BY <1>1, <1>2

LEMMA DequeueType ==
  ASSUME TypeOK, NEW o \in Owner, Dequeue(o)
  PROVE  /\ pendingWithdrawals' \in [Owner -> PendingWithdrawal \cup {NoPending}]
         /\ treasuryApprovalCount' \in [Withdrawal -> Nat]
         /\ treasuryApprovals' \in [Withdrawal -> SUBSET Account]
  BY ClearPendingType DEF Dequeue, TypeOK, TenantTypeOK

LEMMA InstallCredentialsType ==
  ASSUME TypeOK, NEW o \in Owner, HasVault(o),
         NEW signer \in Signer, NEW key \in PublicKey,
         InstallCredentials(o, signer, key)
  PROVE  /\ vaults' \in [Owner -> VaultOwner \cup {NoVault}]
         /\ policyControlEpoch' \in [Owner -> Nat]
         /\ pendingWithdrawals' \in [Owner -> PendingWithdrawal \cup {NoPending}]
         /\ treasuryApprovalCount' \in [Withdrawal -> Nat]
         /\ treasuryApprovals' \in [Withdrawal -> SUBSET Account]
<1>1. vaults[o] \in VaultOwner
  BY DEF TypeOK, TenantTypeOK, HasVault
<1>2. vaults'[o] \in VaultOwner
  BY <1>1, RefundType DEF InstallCredentials, TypeOK, TenantTypeOK, VaultOwner, Nonce
<1>3. vaults' \in [Owner -> VaultOwner \cup {NoVault}]
  BY <1>2 DEF InstallCredentials, TypeOK, TenantTypeOK
<1> QED
  BY <1>3, DequeueType DEF InstallCredentials, TypeOK, TenantTypeOK

\* Crediting an existing vault.
LEMMA CreditType ==
  ASSUME TypeOK, NEW o \in Owner, HasVault(o), NEW value \in Nat,
         vaults' = [vaults EXCEPT ![o].balance = @ + value]
  PROVE  /\ vaults' \in [Owner -> VaultOwner \cup {NoVault}]
         /\ vaults'[o] = [ecdsaSigner |-> vaults[o].ecdsaSigner,
                          pqPublicKey |-> vaults[o].pqPublicKey,
                          nonce |-> vaults[o].nonce,
                          balance |-> vaults[o].balance + value,
                          mode |-> vaults[o].mode]
         /\ \A p \in Owner : p # o => vaults'[p] = vaults[p]
         /\ \A p \in Owner : HasVault(p) <=> HasVault(p)'
<1>1. vaults[o] \in VaultOwner
  BY DEF TypeOK, TenantTypeOK, HasVault
<1>2. vaults'[o] = [ecdsaSigner |-> vaults[o].ecdsaSigner,
                    pqPublicKey |-> vaults[o].pqPublicKey,
                    nonce |-> vaults[o].nonce,
                    balance |-> vaults[o].balance + value,
                    mode |-> vaults[o].mode]
  BY <1>1 DEF TypeOK, TenantTypeOK, VaultOwner
<1>3. vaults'[o] \in VaultOwner
  BY <1>1, <1>2 DEF VaultOwner
<1>4. \A p \in Owner : p # o => vaults'[p] = vaults[p]
  BY DEF TypeOK, TenantTypeOK
<1>5. vaults' \in [Owner -> VaultOwner \cup {NoVault}]
  BY <1>3 DEF TypeOK, TenantTypeOK
<1> QED
  BY <1>2, <1>3, <1>4, <1>5 DEF HasVault

\* Accounts and deposits.
LEMMA AccountTypeOK ==
  ASSUME TypeOK, NEW o \in Owner, AccountCall(o)
  PROVE  TypeOK'
<1>1. ASSUME NEW signer \in Signer, NEW key \in PublicKey, NEW mode \in Mode,
             NEW value \in Amount, createVault(o, signer, key, mode, value)
      PROVE  TypeOK'
  BY <1>1, OperatorVarsTypeOK
  DEF createVault, TypeOK, TenantTypeOK, VaultOwner, Nonce,
      guardianVars, recoveryVars, approvalVars
<1>2. ASSUME NEW value \in Amount, _deposit(o, value)
      PROVE  TypeOK'
  <2>1. vaults' \in [Owner -> VaultOwner \cup {NoVault}]
    BY <1>2, CreditType DEF _deposit
  <2> QED
    BY <1>2, <2>1, OperatorVarsTypeOK
    DEF _deposit, TypeOK, TenantTypeOK, guardianVars, recoveryVars, approvalVars
<1>3. ASSUME NEW signer \in Signer, NEW key \in PublicKey,
             NEW deadline \in Deadline, NEW es \in EcdsaKey, NEW ps \in PublicKey,
             rotateCredentials(o, signer, key, deadline, es, ps)
      PROVE  TypeOK'
  <2>1. HasVault(o) /\ InstallCredentials(o, signer, key)
    BY <1>3 DEF rotateCredentials
  <2> QED
    BY <1>3, <2>1, OperatorVarsTypeOK, InstallCredentialsType
    DEF rotateCredentials, TypeOK, TenantTypeOK, guardianVars, recoveryVars, historyVars
<1> QED
  BY <1>1, <1>2, <1>3 DEF AccountCall

\* Guardians and recovery.
LEMMA RecoveryTypeOK ==
  ASSUME Typed, NEW o \in Owner, RecoveryCall(o)
  PROVE  TypeOK'
<1> USE DEF Typed
<1>1. ASSUME NEW guardians \in SUBSET Account, setGuardians(o, guardians)
      PROVE  TypeOK'
  <2>1. ClearPendingApprovals(o)
    BY <1>1 DEF setGuardians
  <2> QED
    BY <1>1, <2>1, OperatorVarsTypeOK, ClearPendingType
    DEF setGuardians, AcceptableGuardians, EndRecovery, TypeOK, TenantTypeOK,
        accountVars, historyVars
<1>2. ASSUME NEW g \in Account, NEW signer \in Signer, NEW key \in PublicKey,
             initiateRecovery(g, o, signer, key)
      PROVE  TypeOK'
  BY <1>2, OperatorVarsTypeOK
  DEF initiateRecovery, TypeOK, TenantTypeOK, GovTypeOK, RecoveryRequest,
      accountVars, guardianVars, approvalVars, historyVars
<1>3. ASSUME NEW g \in Account, supportRecovery(g, o)
      PROVE  TypeOK'
  <2>1. recoveryRequests[o] \in RecoveryRequest
    BY <1>3 DEF supportRecovery, HasRecovery, TypeOK, TenantTypeOK
  <2>2. recoveryRequests'[o] \in RecoveryRequest
    BY <1>3, <2>1 DEF supportRecovery, TypeOK, TenantTypeOK, RecoveryRequest
  <2>3. recoveryRequests' \in [Owner -> RecoveryRequest \cup {NoRecovery}]
    BY <1>3, <2>2 DEF supportRecovery, TypeOK, TenantTypeOK
  <2> QED
    BY <1>3, <2>3, OperatorVarsTypeOK
    DEF supportRecovery, TypeOK, TenantTypeOK,
        accountVars, guardianVars, approvalVars, historyVars
<1>4. CASE executeRecovery(o)
  <2>1. /\ recoveryRequests[o].newEcdsaSigner \in Signer
        /\ recoveryRequests[o].newPQPublicKey \in PublicKey
    BY <1>4 DEF executeRecovery, ExecutableRecovery, HasRecovery, TypeOK, TenantTypeOK,
                RecoveryRequest
  <2>2. InstallCredentials(o, recoveryRequests[o].newEcdsaSigner,
                              recoveryRequests[o].newPQPublicKey)
    BY <1>4 DEF executeRecovery
  <2>3. HasVault(o)
    BY <1>4 DEF executeRecovery, ExecutableRecovery, NothingWithoutVault
  <2> QED
    BY <1>4, <2>1, <2>2, <2>3, OperatorVarsTypeOK, InstallCredentialsType
    DEF executeRecovery, EndRecovery, TypeOK, TenantTypeOK, guardianVars, historyVars
<1>5. CASE cancelRecovery(o)
  BY <1>5, OperatorVarsTypeOK
  DEF cancelRecovery, EndRecovery, TypeOK, TenantTypeOK,
      accountVars, guardianVars, approvalVars, historyVars
<1> QED
  BY <1>1, <1>2, <1>3, <1>4, <1>5 DEF RecoveryCall

\* Debiting an existing vault by an amount it holds.
LEMMA DebitType ==
  ASSUME TypeOK, NEW r \in Withdrawal, HasVault(r.vaultOwner),
         r.nonce < MaxNonce, Debit(r)
  PROVE  /\ vaults' \in [Owner -> VaultOwner \cup {NoVault}]
         /\ r.amount \in Nat
         /\ r.vaultOwner \in Owner
         /\ vaults'[r.vaultOwner] =
              [ecdsaSigner |-> vaults[r.vaultOwner].ecdsaSigner,
               pqPublicKey |-> vaults[r.vaultOwner].pqPublicKey,
               nonce |-> r.nonce + 1,
               balance |-> vaults[r.vaultOwner].balance - r.amount,
               mode |-> vaults[r.vaultOwner].mode]
         /\ \A p \in Owner : p # r.vaultOwner => vaults'[p] = vaults[p]
         /\ \A p \in Owner : HasVault(p) <=> HasVault(p)'
<1> DEFINE o == r.vaultOwner
<1>1. o \in Owner /\ r.amount \in Nat /\ r.nonce \in Nonce
  BY DEF Withdrawal
<1>2. r.nonce + 1 \in Nonce
  BY <1>1 DEF Nonce
<1>3. vaults[o] \in VaultOwner
  BY <1>1 DEF TypeOK, TenantTypeOK, HasVault
<1>4. /\ vaults[o].balance - r.amount \in Nat
      /\ vaults' = [vaults EXCEPT ![o].nonce = r.nonce + 1,
                                 ![o].balance = @ - r.amount]
  BY <1>1, <1>3 DEF Debit, VaultOwner
<1>5. vaults'[o] = [ecdsaSigner |-> vaults[o].ecdsaSigner,
                    pqPublicKey |-> vaults[o].pqPublicKey,
                    nonce |-> r.nonce + 1,
                    balance |-> vaults[o].balance - r.amount,
                    mode |-> vaults[o].mode]
  BY <1>1, <1>3, <1>4 DEF TypeOK, TenantTypeOK, VaultOwner
<1>6. vaults'[o] \in VaultOwner
  BY <1>2, <1>3, <1>4, <1>5 DEF VaultOwner
<1>7. vaults' \in [Owner -> VaultOwner \cup {NoVault}]
  BY <1>1, <1>4, <1>6 DEF TypeOK, TenantTypeOK
<1>8. \A p \in Owner : p # o => vaults'[p] = vaults[p]
  BY <1>1, <1>4 DEF TypeOK, TenantTypeOK
<1>9. \A p \in Owner : HasVault(p) <=> HasVault(p)'
  BY <1>6, <1>8 DEF HasVault
<1> QED
  BY <1>1, <1>5, <1>7, <1>8, <1>9

LEMMA WithdrawEffectsTypeOK ==
  ASSUME TypeOK, NEW r \in Withdrawal, HasVault(r.vaultOwner),
         r.nonce < MaxNonce, WithdrawEffects(r)
  PROVE  TypeOK'
<1>1. Debit(r)
  BY DEF WithdrawEffects
<1>2. /\ vaults' \in [Owner -> VaultOwner \cup {NoVault}]
      /\ r.amount \in Nat
      /\ r.vaultOwner \in Owner
  BY <1>1, DebitType
<1>3. paidOut' \in [Owner -> Nat]
  BY <1>2 DEF WithdrawEffects, TypeOK, TenantTypeOK
<1>4. GovTypeOK'
  BY OperatorVarsTypeOK DEF WithdrawEffects, TypeOK
<1> QED
  BY <1>2, <1>3, <1>4
  DEF WithdrawEffects, TypeOK, TenantTypeOK, guardianVars, recoveryVars, approvalVars

LEMMA QueueEffectsTypeOK ==
  ASSUME TypeOK, NEW r \in Withdrawal, HasVault(r.vaultOwner),
         NEW engine \in Engine \cup {NoEngine}, NEW epoch \in Nat,
         r.nonce < MaxNonce, QueueEffects(r, engine, epoch)
  PROVE  TypeOK'
<1>1. Debit(r)
  BY DEF QueueEffects
<1>2. /\ vaults' \in [Owner -> VaultOwner \cup {NoVault}]
      /\ r.vaultOwner \in Owner
  BY <1>1, DebitType
<1>3. pendingWithdrawals' \in [Owner -> PendingWithdrawal \cup {NoPending}]
  BY <1>2 DEF QueueEffects, ReadyAt, TypeOK, TenantTypeOK, GovTypeOK, PendingWithdrawal
<1>4. queuedUnder' \in [Owner -> Nat]
  BY <1>2 DEF QueueEffects, TypeOK, TenantTypeOK
<1>5. GovTypeOK'
  BY OperatorVarsTypeOK DEF QueueEffects, TypeOK
<1> QED
  BY <1>2, <1>3, <1>4, <1>5
  DEF QueueEffects, ReadyAt, TypeOK, TenantTypeOK, GovTypeOK, PendingWithdrawal,
      guardianVars, recoveryVars, approvalVars

LEMMA OpenCheckTypeOK ==
  ASSUME TypeOK, NEW function \in {"withdraw", "queueWithdrawal"},
         NEW r \in Withdrawal, r.nonce < MaxNonce, policyEngine # NoEngine, OpenCheck(function, r)
  PROVE  TypeOK'
<1>1. r.vaultOwner \in Owner
  BY DEF Withdrawal
<1> QED
  BY <1>1, OperatorVarsTypeOK
  DEF OpenCheck, TypeOK, TenantTypeOK, GovTypeOK, CheckFrame,
      accountVars, guardianVars, recoveryVars, approvalVars, historyVars

\* Withdrawals.
LEMMA WithdrawalTypeOK ==
  ASSUME Typed, NEW r \in Withdrawal, WithdrawalCall(r)
  PROVE  TypeOK'
<1> USE DEF Typed
<1> DEFINE o == r.vaultOwner
<1>0. o \in Owner /\ r.amount \in Nat
  BY DEF Withdrawal
<1>1. ASSUME NEW es \in EcdsaKey, NEW ps \in PublicKey, withdraw(r, es, ps)
      PROVE  TypeOK'
  <2>1. HasVault(o) /\ r.nonce < MaxNonce
    BY <1>1 DEF withdraw, Admissible
  <2> QED
    BY <1>1, <2>1, WithdrawEffectsTypeOK, OpenCheckTypeOK DEF withdraw
<1>2. ASSUME NEW es \in EcdsaKey, NEW ps \in PublicKey, queueWithdrawal(r, es, ps)
      PROVE  TypeOK'
  <2>1. HasVault(o) /\ r.nonce < MaxNonce
    BY <1>2 DEF queueWithdrawal, Admissible
  <2>2. policyControlEpoch[o] \in Nat
    BY <1>0 DEF TypeOK, TenantTypeOK
  <2> QED
    BY <1>2, <2>1, <2>2, QueueEffectsTypeOK, OpenCheckTypeOK DEF queueWithdrawal
<1>3. CASE finalizeWithdrawal(o, r)
  <2>1. Dequeue(o)
    BY <1>3 DEF finalizeWithdrawal
  <2> QED
    BY <1>0, <1>3, <2>1, DequeueType, OperatorVarsTypeOK
    DEF finalizeWithdrawal, TypeOK, TenantTypeOK, accountVars, guardianVars, recoveryVars
<1>4. CASE cancelPendingWithdrawal(o, r)
  <2>1. Dequeue(o)
    BY <1>4 DEF cancelPendingWithdrawal
  <2>2. HasVault(o)
    BY <1>0, <1>4 DEF cancelPendingWithdrawal, Cancellable, IsPending, NothingWithoutVault
  <2>4. vaults' \in [Owner -> VaultOwner \cup {NoVault}]
    BY <1>0, <1>4, <2>2, CreditType DEF cancelPendingWithdrawal
  <2> QED
    BY <1>0, <1>4, <2>1, <2>4, DequeueType, OperatorVarsTypeOK
    DEF cancelPendingWithdrawal, TypeOK, TenantTypeOK, guardianVars, recoveryVars,
        historyVars
<1>5. ASSUME NEW g \in Account, approveTreasuryWithdrawal(g, o, r)
      PROVE  TypeOK'
  BY <1>5, OperatorVarsTypeOK
  DEF approveTreasuryWithdrawal, TypeOK, TenantTypeOK,
      accountVars, guardianVars, recoveryVars, historyVars
<1> QED
  BY <1>1, <1>2, <1>3, <1>4, <1>5 DEF WithdrawalCall

LEMMA CheckReturnsTypeOK == Typed /\ checkReturns => TypeOK'
<1> SUFFICES ASSUME Typed, checkReturns PROVE TypeOK'
  OBVIOUS
<1> DEFINE r == frame.request
<1>1. frame \in CheckFrame
  BY DEF Typed, TypeOK, TenantTypeOK, checkReturns, InCheck
<1>2. /\ r \in Withdrawal
      /\ frame.engine \in Engine \cup {NoEngine}
      /\ frame.epoch \in Nat
      /\ r.vaultOwner \in Owner
      /\ r.nonce < MaxNonce
  BY <1>1 DEF CheckFrame, Withdrawal
<1>3. HasVault(r.vaultOwner)
  BY <1>2 DEF Typed, NothingWithoutVault, checkReturns
<1>4. CASE WithdrawEffects(r)
  BY <1>2, <1>3, <1>4, WithdrawEffectsTypeOK DEF Typed
<1>5. CASE QueueEffects(r, frame.engine, frame.epoch)
  BY <1>2, <1>3, <1>5, QueueEffectsTypeOK DEF Typed
<1> QED
  BY <1>4, <1>5 DEF checkReturns

LEMMA NextTypeOK == Typed /\ [Next]_vars => TypeOK'
<1> SUFFICES ASSUME Typed, [Next]_vars PROVE TypeOK'
  OBVIOUS
<1>1. ASSUME NEW o \in Owner, AccountCall(o) PROVE TypeOK'
  BY <1>1, AccountTypeOK DEF Typed
<1>2. ASSUME NEW o \in Owner, RecoveryCall(o) PROVE TypeOK'
  BY <1>2, RecoveryTypeOK
<1>3. ASSUME NEW o \in Owner, NEW t \in 0..MAX_GUARDIANS,
             setTreasuryQuorumThreshold(o, t)
      PROVE  TypeOK'
  BY <1>3, OperatorVarsTypeOK
  DEF setTreasuryQuorumThreshold, Typed, TypeOK, TenantTypeOK,
      accountVars, recoveryVars, approvalVars, historyVars
<1>4. ASSUME NEW r \in Withdrawal, WithdrawalCall(r) PROVE TypeOK'
  BY <1>4, WithdrawalTypeOK
<1>5. CASE checkReturns
  BY <1>5, CheckReturnsTypeOK
<1>6. CASE transferReturns
  BY <1>6, OperatorVarsTypeOK
  DEF transferReturns, Typed, TypeOK, TenantTypeOK,
      accountVars, guardianVars, recoveryVars, approvalVars, historyVars
<1>7. CASE OperatorCall
  BY <1>7, OperatorTypeOK DEF OperatorCall, Typed, TypeOK, TenantTypeOK, tenantVars
<1>8. CASE Environment
  BY <1>8, EnvironmentTypeOK DEF Environment, Typed, TypeOK, TenantTypeOK, tenantVars
<1>9. CASE UNCHANGED vars
  BY <1>9, OperatorVarsTypeOK
  DEF vars, tenantVars, operatorVars, Typed, TypeOK, TenantTypeOK
<1> QED
  BY <1>1, <1>2, <1>3, <1>4, <1>5, <1>6, <1>7, <1>8, <1>9 DEF Next
-----------------------------------------------------------------------------
(* Recovery and withdrawals belong to existing vaults. *)

\* Vaults are never deleted.
LEMMA InstallKeepsVaults ==
  ASSUME TypeOK, NEW o \in Owner, HasVault(o),
         NEW signer \in Signer, NEW key \in PublicKey,
         InstallCredentials(o, signer, key)
  PROVE  \A p \in Owner : HasVault(p) <=> HasVault(p)'
<1>1. vaults[o] \in VaultOwner
  BY DEF TypeOK, TenantTypeOK, HasVault
<1>2. vaults'[o] \in VaultOwner
  BY <1>1, RefundType DEF InstallCredentials, TypeOK, TenantTypeOK, VaultOwner, Nonce
<1>3. \A p \in Owner : p # o => vaults'[p] = vaults[p]
  BY DEF InstallCredentials, TypeOK, TenantTypeOK
<1> QED
  BY <1>2, <1>3 DEF HasVault

LEMMA NextNothingWithoutVault == Typed /\ [Next]_vars => NothingWithoutVault'
<1> SUFFICES ASSUME Typed, [Next]_vars PROVE NothingWithoutVault'
  OBVIOUS
<1> USE DEF Typed, NothingWithoutVault, HasRecovery, HasPending
<1>1. ASSUME NEW o \in Owner, AccountCall(o) PROVE NothingWithoutVault'
  <2>1. ASSUME NEW signer \in Signer, NEW key \in PublicKey, NEW mode \in Mode,
               NEW value \in Amount, createVault(o, signer, key, mode, value)
        PROVE  NothingWithoutVault'
    BY <2>1 DEF createVault, TypeOK, TenantTypeOK, HasVault, InCheck,
                guardianVars, recoveryVars
  <2>2. ASSUME NEW value \in Amount, _deposit(o, value)
        PROVE  NothingWithoutVault'
    BY <2>2, CreditType DEF _deposit, InCheck, guardianVars, recoveryVars
  <2>3. ASSUME NEW signer \in Signer, NEW key \in PublicKey,
               NEW deadline \in Deadline, NEW es \in EcdsaKey, NEW ps \in PublicKey,
               rotateCredentials(o, signer, key, deadline, es, ps)
        PROVE  NothingWithoutVault'
    <3>1. HasVault(o) /\ InstallCredentials(o, signer, key)
      BY <2>3 DEF rotateCredentials
    <3>2. \A p \in Owner : HasVault(p) <=> HasVault(p)'
      BY <3>1, InstallKeepsVaults
    <3> QED
      BY <2>3, <3>1, <3>2 DEF rotateCredentials, InstallCredentials, Dequeue, InCheck,
                    TypeOK, TenantTypeOK, guardianVars, recoveryVars
  <2> QED
    BY <1>1, <2>1, <2>2, <2>3 DEF AccountCall
<1>2. ASSUME NEW o \in Owner, RecoveryCall(o) PROVE NothingWithoutVault'
  <2>1. ASSUME NEW guardians \in SUBSET Account, setGuardians(o, guardians)
        PROVE  NothingWithoutVault'
    BY <2>1 DEF setGuardians, AcceptableGuardians, EndRecovery, TypeOK, TenantTypeOK,
                HasVault, InCheck, accountVars
  <2>2. ASSUME NEW g \in Account, NEW signer \in Signer, NEW key \in PublicKey,
               initiateRecovery(g, o, signer, key)
        PROVE  NothingWithoutVault'
    BY <2>2 DEF initiateRecovery, TypeOK, TenantTypeOK, HasVault, InCheck,
                accountVars, guardianVars
  <2>3. ASSUME NEW g \in Account, supportRecovery(g, o)
        PROVE  NothingWithoutVault'
    BY <2>3 DEF supportRecovery, TypeOK, TenantTypeOK, HasVault, InCheck,
                accountVars, guardianVars
  <2>4. CASE executeRecovery(o)
    <3>1. HasVault(o) /\ HasRecovery(o)
      BY <2>4 DEF executeRecovery, ExecutableRecovery
    <3>2. /\ recoveryRequests[o].newEcdsaSigner \in Signer
          /\ recoveryRequests[o].newPQPublicKey \in PublicKey
      BY <3>1 DEF TypeOK, TenantTypeOK, RecoveryRequest
    <3>3. \A p \in Owner : HasVault(p) <=> HasVault(p)'
      BY <2>4, <3>1, <3>2, InstallKeepsVaults DEF executeRecovery
    <3> QED
      BY <2>4, <3>3 DEF executeRecovery, InstallCredentials, Dequeue, EndRecovery, InCheck,
                TypeOK, TenantTypeOK, guardianVars
  <2>5. CASE cancelRecovery(o)
    BY <2>5 DEF cancelRecovery, EndRecovery, TypeOK, TenantTypeOK, HasVault, InCheck,
                accountVars, guardianVars
  <2> QED
    BY <1>2, <2>1, <2>2, <2>3, <2>4, <2>5 DEF RecoveryCall
<1>3. ASSUME NEW o \in Owner, NEW t \in 0..MAX_GUARDIANS,
             setTreasuryQuorumThreshold(o, t)
      PROVE  NothingWithoutVault'
  BY <1>3 DEF setTreasuryQuorumThreshold, TypeOK, TenantTypeOK, HasVault, InCheck,
              accountVars, recoveryVars
<1>4. ASSUME NEW r \in Withdrawal, WithdrawalCall(r) PROVE NothingWithoutVault'
  <2> DEFINE o == r.vaultOwner
  <2>0. o \in Owner
    BY DEF Withdrawal
  <2>1. ASSUME NEW es \in EcdsaKey, NEW ps \in PublicKey, withdraw(r, es, ps)
        PROVE  NothingWithoutVault'
    <3>1. HasVault(o) /\ r.nonce < MaxNonce
      BY <2>1 DEF withdraw, Admissible
    <3>2. CASE WithdrawEffects(r)
      BY <2>0, <3>1, <3>2, DebitType
      DEF WithdrawEffects, InCheck, guardianVars, recoveryVars
    <3>3. CASE OpenCheck("withdraw", r)
      BY <2>0, <3>1, <3>3 DEF OpenCheck, InCheck, HasVault,
                accountVars, guardianVars, recoveryVars
    <3> QED
      BY <2>1, <3>2, <3>3 DEF withdraw
  <2>2. ASSUME NEW es \in EcdsaKey, NEW ps \in PublicKey, queueWithdrawal(r, es, ps)
        PROVE  NothingWithoutVault'
    <3>1. HasVault(o) /\ r.nonce < MaxNonce
      BY <2>2 DEF queueWithdrawal, Admissible
    <3>2. CASE QueueEffects(r, NoEngine, policyControlEpoch[o])
      BY <2>0, <3>1, <3>2, DebitType
      DEF QueueEffects, InCheck, TypeOK, TenantTypeOK, guardianVars, recoveryVars
    <3>3. CASE OpenCheck("queueWithdrawal", r)
      BY <2>0, <3>1, <3>3 DEF OpenCheck, InCheck, HasVault,
                accountVars, guardianVars, recoveryVars
    <3> QED
      BY <2>2, <3>2, <3>3 DEF queueWithdrawal
  <2>3. CASE finalizeWithdrawal(o, r)
    BY <2>0, <2>3 DEF finalizeWithdrawal, Dequeue, InCheck, HasVault, TypeOK, TenantTypeOK,
                accountVars, guardianVars, recoveryVars
  <2>4. CASE cancelPendingWithdrawal(o, r)
    <3>1. HasVault(o) /\ r.amount \in Nat
      BY <2>0, <2>4 DEF cancelPendingWithdrawal, Cancellable, IsPending, Withdrawal
    <3>2. \A p \in Owner : HasVault(p) <=> HasVault(p)'
      BY <2>0, <2>4, <3>1, CreditType DEF cancelPendingWithdrawal
    <3> QED
      BY <2>0, <2>4, <3>2
      DEF cancelPendingWithdrawal, Dequeue, InCheck, TypeOK, TenantTypeOK,
          guardianVars, recoveryVars
  <2>5. ASSUME NEW g \in Account, approveTreasuryWithdrawal(g, o, r)
        PROVE  NothingWithoutVault'
    BY <2>5 DEF approveTreasuryWithdrawal, MayApprove, IsPending, InCheck, HasVault,
                accountVars, guardianVars, recoveryVars
  <2> QED
    BY <1>4, <2>1, <2>2, <2>3, <2>4, <2>5 DEF WithdrawalCall
<1>5. CASE checkReturns
  <2> DEFINE r == frame.request
  <2>1. /\ r \in Withdrawal
        /\ r.vaultOwner \in Owner
        /\ r.nonce < MaxNonce
        /\ HasVault(r.vaultOwner)
    BY <1>5 DEF checkReturns, InCheck, TypeOK, TenantTypeOK, CheckFrame, Withdrawal
  <2>2. CASE WithdrawEffects(r)
    BY <2>1, <2>2, DebitType
    DEF WithdrawEffects, InCheck, guardianVars, recoveryVars
  <2>3. CASE QueueEffects(r, frame.engine, frame.epoch)
    BY <2>1, <2>3, DebitType
    DEF QueueEffects, InCheck, TypeOK, TenantTypeOK, guardianVars, recoveryVars
  <2> QED
    BY <1>5, <2>2, <2>3 DEF checkReturns
<1>6. CASE transferReturns
  BY <1>6 DEF transferReturns, InCheck, HasVault, accountVars, guardianVars, recoveryVars
<1>7. CASE OperatorCall
  BY <1>7 DEF OperatorCall, tenantVars, InCheck, HasVault
<1>8. CASE Environment
  BY <1>8 DEF Environment, tenantVars, InCheck, HasVault
<1>9. CASE UNCHANGED vars
  BY <1>9 DEF vars, tenantVars, InCheck, HasVault
<1> QED
  BY <1>1, <1>2, <1>3, <1>4, <1>5, <1>6, <1>7, <1>8, <1>9 DEF Next

LEMMA InitTyped == Init => Typed
<1>1. Init => GovTypeOK
  <2> SUFFICES ASSUME GovInit PROVE GovTypeOK
    BY DEF Init
  <2>1. paused \in BOOLEAN
    BY DEF GovInit
  <2> QED
    BY <2>1 DEF GovInit, GovTypeOK, NoLargeTx, NoPolicyEngineUpdate
<1>2. Init => TenantTypeOK
  BY DEF Init, TenantInit, TenantTypeOK
<1>3. Init => NothingWithoutVault
  BY DEF Init, TenantInit, NothingWithoutVault, HasRecovery, HasPending, InCheck
<1> QED
  BY <1>1, <1>2, <1>3 DEF Typed, TypeOK

\* Every variable keeps its type, and calls that act on a vault without testing
\* that it exists (executeRecovery, finalizeWithdrawal, cancelPendingWithdrawal)
\* always find one.
THEOREM VaultTyped == Spec => []Typed
<1>1. Typed /\ [Next]_vars => Typed'
  BY NextTypeOK, NextNothingWithoutVault DEF Typed
<1> QED
  BY <1>1, InitTyped, PTL DEF Spec

\* TypeOK for every instance.
THEOREM VaultTypeOK == Spec => []TypeOK
  BY VaultTyped, PTL DEF Typed

\* NothingWithoutVault for every instance: executeRecovery, finalizeWithdrawal
\* and cancelPendingWithdrawal never write an account that was not created.
THEOREM NoAccountOutOfThinAir == Spec => []NothingWithoutVault
  BY VaultTyped, PTL DEF Typed

-----------------------------------------------------------------------------
(* The two time-locked parameters implement Timelock: every step of the      *)
(* contract is, seen through the refinement mapping of VaultGovernance, a    *)
(* step of Timelock or no step at all.                                       *)

\* Calls about vaults leave the operator's state alone.
LEMMA OperatorSteps ==
  ASSUME [Next]_vars
  PROVE  OperatorNext \/ Tick \/ EngineChanges \/ UNCHANGED operatorVars
<1>1. ASSUME NEW o \in Owner, AccountCall(o) PROVE UNCHANGED operatorVars
  BY <1>1 DEF AccountCall, createVault, _deposit, rotateCredentials
<1>2. ASSUME NEW o \in Owner, RecoveryCall(o) PROVE UNCHANGED operatorVars
  BY <1>2 DEF RecoveryCall, setGuardians, initiateRecovery, supportRecovery,
              executeRecovery, cancelRecovery
<1>3. ASSUME NEW o \in Owner, NEW t \in 0..MAX_GUARDIANS,
             setTreasuryQuorumThreshold(o, t)
      PROVE  UNCHANGED operatorVars
  BY <1>3 DEF setTreasuryQuorumThreshold
<1>4. ASSUME NEW r \in Withdrawal, WithdrawalCall(r) PROVE UNCHANGED operatorVars
  BY <1>4 DEF WithdrawalCall, withdraw, queueWithdrawal, WithdrawEffects, QueueEffects,
              OpenCheck, finalizeWithdrawal, cancelPendingWithdrawal,
              approveTreasuryWithdrawal
<1>5. ASSUME checkReturns \/ transferReturns PROVE UNCHANGED operatorVars
  BY <1>5 DEF checkReturns, transferReturns, WithdrawEffects, QueueEffects
<1>6. ASSUME UNCHANGED vars PROVE UNCHANGED operatorVars
  BY <1>6 DEF vars, operatorVars
<1> QED
  BY <1>1, <1>2, <1>3, <1>4, <1>5, <1>6 DEF Next, OperatorCall, Environment

-----------------------------------------------------------------------------
(* Large-withdrawal parameters. *)

LargeTxNotice == NoticeOf(<<pendingLargeTx.threshold, pendingLargeTx.delay>>,
                          pendingLargeTx.validAfter, LARGE_TX_PARAMS_UPDATE_DELAY)

LargeTxView == <<now, <<largeTxThreshold, largeTxDelay>>, LargeTxNotice>>

LEMMA LargeTxInit == Init => LargeTxTimelock!Init
<1> SUFFICES ASSUME Init PROVE LargeTxTimelock!Init
  OBVIOUS
<1>1. /\ now = 0 /\ largeTxThreshold = 0 /\ largeTxDelay = 0
      /\ pendingLargeTx = NoLargeTx
  BY DEF Init, GovInit
<1>2. LargeTxNotice = [posted |-> FALSE]
  BY <1>1 DEF LargeTxNotice, NoticeOf, NoLargeTx
<1> QED
  BY <1>1, <1>2 DEF LargeTxTimelock!Init, LargeTxTimelock!NoNotice, LargeTxNotice

LEMMA LargeTxStep ==
  ASSUME Typed, [Next]_vars
  PROVE  [LargeTxTimelock!Next]_LargeTxView
<1> DEFINE Step == [LargeTxTimelock!Next]_LargeTxView
           D == LARGE_TX_PARAMS_UPDATE_DELAY
           validAfter == pendingLargeTx.validAfter
<1>0. /\ now \in Nat /\ validAfter \in Nat /\ D \in Nat /\ D # 0
      /\ GOVERNANCE_GRACE_PERIOD \in Nat
  BY DEF Typed, TypeOK, GovTypeOK
<1>1. ASSUME UNCHANGED <<now, largeTxThreshold, largeTxDelay, pendingLargeTx>>
      PROVE  Step
  BY <1>1 DEF LargeTxView, LargeTxNotice, NoticeOf
<1>2. ASSUME NEW t \in Threshold, NEW d \in Delay, proposeLargeTxParams(t, d) PROVE Step
  <2>1. /\ UNCHANGED <<now, largeTxThreshold, largeTxDelay>>
        /\ pendingLargeTx' = [threshold |-> t, delay |-> d, validAfter |-> now + D]
    BY <1>2 DEF proposeLargeTxParams
  <2>2. LargeTxNotice' = [posted |-> TRUE, value |-> <<t, d>>, since |-> (now + D) - D]
    BY <1>0, <2>1 DEF LargeTxNotice, NoticeOf
  <2>3. LargeTxNotice' = [posted |-> TRUE, value |-> <<t, d>>, since |-> now]
    BY <1>0, <2>2
  <2>4. <<t, d>> \in (Threshold \cup {0}) \X (Delay \cup {0})
    OBVIOUS
  <2>5. LargeTxTimelock!Announce(<<t, d>>)
    BY <2>1, <2>3 DEF LargeTxTimelock!Announce, LargeTxTimelock!Notice, LargeTxNotice
  <2> QED
    BY <2>4, <2>5 DEF LargeTxTimelock!Next
<1>3. ASSUME applyLargeTxParams PROVE Step
  <2>1. /\ validAfter # 0
        /\ now >= validAfter
        /\ now <= validAfter + GOVERNANCE_GRACE_PERIOD
        /\ largeTxThreshold' = pendingLargeTx.threshold
        /\ largeTxDelay' = pendingLargeTx.delay
        /\ pendingLargeTx' = NoLargeTx
        /\ UNCHANGED now
    BY <1>3 DEF applyLargeTxParams, Mature
  <2>2. LargeTxNotice = [posted |-> TRUE,
                         value |-> <<pendingLargeTx.threshold, pendingLargeTx.delay>>,
                         since |-> validAfter - D]
    BY <2>1 DEF LargeTxNotice, NoticeOf
  <2>3. LargeTxNotice' = [posted |-> FALSE]
    BY <2>1 DEF LargeTxNotice, NoticeOf, NoLargeTx
  <2>4. /\ now - (validAfter - D) >= D
        /\ now - (validAfter - D) <= D + GOVERNANCE_GRACE_PERIOD
    BY <1>0, <2>1
  <2>5. LargeTxTimelock!Enact
    BY <2>1, <2>2, <2>3, <2>4
    DEF LargeTxTimelock!Enact, LargeTxTimelock!NoNotice, LargeTxNotice
  <2> QED
    BY <2>5 DEF LargeTxTimelock!Next
<1>4. ASSUME cancelLargeTxParams PROVE Step
  <2>1. /\ validAfter # 0
        /\ pendingLargeTx' = NoLargeTx
        /\ UNCHANGED <<now, largeTxThreshold, largeTxDelay>>
    BY <1>4 DEF cancelLargeTxParams
  <2>2. LargeTxNotice.posted
    BY <2>1 DEF LargeTxNotice, NoticeOf
  <2>3. LargeTxNotice' = [posted |-> FALSE]
    BY <2>1 DEF LargeTxNotice, NoticeOf, NoLargeTx
  <2>4. LargeTxTimelock!WithdrawNotice
    BY <2>1, <2>2, <2>3
    DEF LargeTxTimelock!WithdrawNotice, LargeTxTimelock!NoNotice, LargeTxNotice
  <2> QED
    BY <2>4 DEF LargeTxTimelock!Next
<1>5. ASSUME Tick PROVE Step
  <2>1. now' > now /\ UNCHANGED <<largeTxThreshold, largeTxDelay, pendingLargeTx>>
    BY <1>0, <1>5 DEF Tick, govVars
  <2>2. UNCHANGED LargeTxNotice
    BY <2>1 DEF LargeTxNotice, NoticeOf
  <2>3. LargeTxTimelock!TimePasses
    BY <2>1, <2>2 DEF LargeTxTimelock!TimePasses, LargeTxNotice
  <2> QED
    BY <2>3 DEF LargeTxTimelock!Next
<1>6. ASSUME \/ \E e \in EngineProposal : proposePolicyEngine(e)
             \/ applyPolicyEngine \/ cancelPolicyEngine \/ pause \/ unpause
             \/ EngineChanges \/ UNCHANGED operatorVars
      PROVE  UNCHANGED <<now, largeTxThreshold, largeTxDelay, pendingLargeTx>>
  BY <1>6 DEF proposePolicyEngine, applyPolicyEngine, cancelPolicyEngine, pause, unpause,
              EngineChanges, operatorVars, govVars
<1> QED
  BY <1>1, <1>2, <1>3, <1>4, <1>5, <1>6, OperatorSteps DEF OperatorNext

\* LargeTxTimelocked: propose-, apply- and cancelLargeTxParams implement the
\* time lock, for every delay, grace period and set of values.
THEOREM LargeTxImplementsTimelock == Spec => LargeTxTimelocked
<1>1. Typed /\ [Next]_vars => [LargeTxTimelock!Next]_LargeTxView
  BY LargeTxStep
<1>2. LargeTxTimelocked <=> LargeTxTimelock!Init /\ [][LargeTxTimelock!Next]_LargeTxView
  BY DEF LargeTxTimelocked, LargeTxTimelock!Spec, LargeTxView, LargeTxNotice
<1> QED
  BY <1>1, <1>2, LargeTxInit, VaultTyped, PTL DEF Spec

-----------------------------------------------------------------------------
(* The policy engine. *)

EngineNotice == NoticeOf(pendingPolicyEngine.engine, pendingPolicyEngine.validAfter,
                         POLICY_ENGINE_UPDATE_DELAY)

EngineView == <<now, policyEngine, EngineNotice>>

LEMMA PolicyEngineInit == Init => PolicyEngineTimelock!Init
<1> SUFFICES ASSUME Init PROVE PolicyEngineTimelock!Init
  OBVIOUS
<1>1. /\ now = 0 /\ policyEngine = NoEngine
      /\ pendingPolicyEngine = NoPolicyEngineUpdate
  BY DEF Init, GovInit
<1>2. EngineNotice = [posted |-> FALSE]
  BY <1>1 DEF EngineNotice, NoticeOf, NoPolicyEngineUpdate
<1> QED
  BY <1>1, <1>2 DEF PolicyEngineTimelock!Init, PolicyEngineTimelock!NoNotice, EngineNotice

LEMMA EngineStep ==
  ASSUME Typed, [Next]_vars
  PROVE  [PolicyEngineTimelock!Next]_EngineView
<1> DEFINE Step == [PolicyEngineTimelock!Next]_EngineView
           D == POLICY_ENGINE_UPDATE_DELAY
           validAfter == pendingPolicyEngine.validAfter
<1>0. /\ now \in Nat /\ validAfter \in Nat /\ D \in Nat /\ D # 0
      /\ GOVERNANCE_GRACE_PERIOD \in Nat
  BY DEF Typed, TypeOK, GovTypeOK
<1>1. ASSUME UNCHANGED <<now, policyEngine, pendingPolicyEngine>> PROVE Step
  BY <1>1 DEF EngineView, EngineNotice, NoticeOf
<1>2. ASSUME NEW e \in EngineProposal, proposePolicyEngine(e) PROVE Step
  <2>1. /\ UNCHANGED <<now, policyEngine>>
        /\ pendingPolicyEngine' = [engine |-> e, validAfter |-> now + D]
    BY <1>2 DEF proposePolicyEngine
  <2>2. EngineNotice' = [posted |-> TRUE, value |-> e, since |-> (now + D) - D]
    BY <1>0, <2>1 DEF EngineNotice, NoticeOf
  <2>3. EngineNotice' = [posted |-> TRUE, value |-> e, since |-> now]
    BY <1>0, <2>2
  <2>4. PolicyEngineTimelock!Announce(e)
    BY <2>1, <2>3 DEF PolicyEngineTimelock!Announce, PolicyEngineTimelock!Notice, EngineNotice
  <2> QED
    BY <2>4 DEF PolicyEngineTimelock!Next
<1>3. ASSUME applyPolicyEngine PROVE Step
  <2>1. /\ validAfter # 0
        /\ now >= validAfter
        /\ now <= validAfter + GOVERNANCE_GRACE_PERIOD
        /\ policyEngine' = pendingPolicyEngine.engine
        /\ pendingPolicyEngine' = NoPolicyEngineUpdate
        /\ UNCHANGED now
    BY <1>3 DEF applyPolicyEngine, Mature
  <2>2. EngineNotice = [posted |-> TRUE, value |-> pendingPolicyEngine.engine,
                        since |-> validAfter - D]
    BY <2>1 DEF EngineNotice, NoticeOf
  <2>3. EngineNotice' = [posted |-> FALSE]
    BY <2>1 DEF EngineNotice, NoticeOf, NoPolicyEngineUpdate
  <2>4. /\ now - (validAfter - D) >= D
        /\ now - (validAfter - D) <= D + GOVERNANCE_GRACE_PERIOD
    BY <1>0, <2>1
  <2>5. PolicyEngineTimelock!Enact
    BY <2>1, <2>2, <2>3, <2>4
    DEF PolicyEngineTimelock!Enact, PolicyEngineTimelock!NoNotice, EngineNotice
  <2> QED
    BY <2>5 DEF PolicyEngineTimelock!Next
<1>4. ASSUME cancelPolicyEngine PROVE Step
  <2>1. /\ validAfter # 0
        /\ pendingPolicyEngine' = NoPolicyEngineUpdate
        /\ UNCHANGED <<now, policyEngine>>
    BY <1>4 DEF cancelPolicyEngine
  <2>2. EngineNotice.posted
    BY <2>1 DEF EngineNotice, NoticeOf
  <2>3. EngineNotice' = [posted |-> FALSE]
    BY <2>1 DEF EngineNotice, NoticeOf, NoPolicyEngineUpdate
  <2>4. PolicyEngineTimelock!WithdrawNotice
    BY <2>1, <2>2, <2>3
    DEF PolicyEngineTimelock!WithdrawNotice, PolicyEngineTimelock!NoNotice, EngineNotice
  <2> QED
    BY <2>4 DEF PolicyEngineTimelock!Next
<1>5. ASSUME Tick PROVE Step
  <2>1. now' > now /\ UNCHANGED <<policyEngine, pendingPolicyEngine>>
    BY <1>0, <1>5 DEF Tick, govVars
  <2>2. UNCHANGED EngineNotice
    BY <2>1 DEF EngineNotice, NoticeOf
  <2>3. PolicyEngineTimelock!TimePasses
    BY <2>1, <2>2 DEF PolicyEngineTimelock!TimePasses, EngineNotice
  <2> QED
    BY <2>3 DEF PolicyEngineTimelock!Next
<1>6. ASSUME \/ \E t \in Threshold, d \in Delay : proposeLargeTxParams(t, d)
             \/ applyLargeTxParams \/ cancelLargeTxParams \/ pause \/ unpause
             \/ EngineChanges \/ UNCHANGED operatorVars
      PROVE  UNCHANGED <<now, policyEngine, pendingPolicyEngine>>
  BY <1>6 DEF proposeLargeTxParams, applyLargeTxParams, cancelLargeTxParams, pause, unpause,
              EngineChanges, operatorVars, govVars
<1> QED
  BY <1>1, <1>2, <1>3, <1>4, <1>5, <1>6, OperatorSteps DEF OperatorNext

\* PolicyEngineTimelocked: propose-, apply- and cancelPolicyEngine implement the
\* time lock; enforcement is never switched on, exchanged or switched off at once.
THEOREM PolicyEngineImplementsTimelock == Spec => PolicyEngineTimelocked
<1>1. Typed /\ [Next]_vars => [PolicyEngineTimelock!Next]_EngineView
  BY EngineStep
<1>2. PolicyEngineTimelocked <=>
        PolicyEngineTimelock!Init /\ [][PolicyEngineTimelock!Next]_EngineView
  BY DEF PolicyEngineTimelocked, PolicyEngineTimelock!Spec, EngineView, EngineNotice
<1> QED
  BY <1>1, <1>2, PolicyEngineInit, VaultTyped, PTL DEF Spec

-----------------------------------------------------------------------------
(* The safety properties need each other: a queued withdrawal may be       *)
(* entered without orphaning approvals only because the call that queues   *)
(* it still finds the slot free, and the slot stays free only because the  *)
(* calls that could fill it are closed while the policy engine runs.  IInv *)
(* is their conjunction, and it is inductive.                              *)

IInv ==
    /\ Typed
    /\ SupportsConsistent
    /\ QuorumReachable
    /\ ApprovalsConsistent
    /\ PendingUnderCurrentCredentials
    /\ OpenCallStillValid
    /\ Conservation

-----------------------------------------------------------------------------
(* What a step can do to the accounts, the queue and the approvals.        *)

Quiet == UNCHANGED <<accountVars, vaultGuardians, approvalVars,
                     pendingWithdrawals, frame, historyVars>>

Creates(o) ==
    \E signer \in Signer, key \in PublicKey, mode \in Mode, value \in Amount :
        createVault(o, signer, key, mode, value)

Deposits(o) == \E value \in Amount : _deposit(o, value)

\* rotateCredentials and executeRecovery.
Installs(o) ==
    /\ nonReentrant
    /\ HasVault(o)
    /\ \E signer \in Signer, key \in PublicKey : InstallCredentials(o, signer, key)
    /\ UNCHANGED <<vaultGuardians, frame, historyVars>>

Opens(r) ==
    /\ nonReentrant
    /\ HasVault(r.vaultOwner)
    /\ r.nonce = vaults[r.vaultOwner].nonce
    /\ r.amount <= vaults[r.vaultOwner].balance
    /\ \/ OpenCheck("withdraw", r)
       \/ OpenCheck("queueWithdrawal", r) /\ ~HasPending(r.vaultOwner)

\* withdraw, at once or after the engine has answered.
Pays(r) ==
    /\ HasVault(r.vaultOwner)
    /\ r.nonce = vaults[r.vaultOwner].nonce
    /\ r.nonce < MaxNonce
    /\ WithdrawEffects(r)

\* queueWithdrawal, at once or after the engine has answered.
Queues(r) ==
    /\ HasVault(r.vaultOwner)
    /\ r.nonce = vaults[r.vaultOwner].nonce
    /\ r.nonce < MaxNonce
    /\ ~HasPending(r.vaultOwner)
    /\ \E engine \in Engine \cup {NoEngine} :
          QueueEffects(r, engine, policyControlEpoch[r.vaultOwner])

LEMMA StepKinds ==
  ASSUME Typed, OpenCallStillValid, [Next]_vars
  PROVE  \/ Quiet
         \/ \E o \in Owner : \/ Creates(o)
                             \/ Deposits(o)
                             \/ \E guardians \in SUBSET Account :
                                   setGuardians(o, guardians)
                             \/ Installs(o)
         \/ \E r \in Withdrawal : \/ Opens(r)
                                  \/ Pays(r)
                                  \/ Queues(r)
                                  \/ finalizeWithdrawal(r.vaultOwner, r)
                                  \/ cancelPendingWithdrawal(r.vaultOwner, r)
                                  \/ \E g \in Account :
                                        approveTreasuryWithdrawal(g, r.vaultOwner, r)
         \/ transferReturns
<1>1. ASSUME NEW o \in Owner, AccountCall(o)
      PROVE  Creates(o) \/ Deposits(o) \/ Installs(o)
  <2>1. ASSUME NEW signer \in Signer, NEW key \in PublicKey,
               NEW deadline \in Deadline, NEW es \in EcdsaKey, NEW ps \in PublicKey,
               rotateCredentials(o, signer, key, deadline, es, ps)
        PROVE  Installs(o)
    BY <2>1 DEF rotateCredentials, Installs, guardianVars
  <2> QED
    BY <1>1, <2>1 DEF AccountCall, Creates, Deposits
<1>2. ASSUME NEW o \in Owner, RecoveryCall(o)
      PROVE  Quiet \/ Installs(o)
               \/ \E guardians \in SUBSET Account : setGuardians(o, guardians)
  <2>1. ASSUME NEW g \in Account, NEW signer \in Signer, NEW key \in PublicKey,
               initiateRecovery(g, o, signer, key)
        PROVE  Quiet
    BY <2>1 DEF initiateRecovery, Quiet, guardianVars
  <2>2. ASSUME NEW g \in Account, supportRecovery(g, o) PROVE Quiet
    BY <2>2 DEF supportRecovery, Quiet, guardianVars
  <2>3. CASE executeRecovery(o)
    <3>1. nonReentrant /\ HasVault(o) /\ HasRecovery(o)
      BY <2>3 DEF executeRecovery, ExecutableRecovery, Typed, NothingWithoutVault
    <3>2. /\ recoveryRequests[o].newEcdsaSigner \in Signer
          /\ recoveryRequests[o].newPQPublicKey \in PublicKey
      BY <3>1 DEF HasRecovery, Typed, TypeOK, TenantTypeOK, RecoveryRequest
    <3> QED
      BY <2>3, <3>1, <3>2 DEF executeRecovery, Installs, guardianVars
  <2>4. CASE cancelRecovery(o)
    BY <2>4 DEF cancelRecovery, Quiet, guardianVars
  <2> QED
    BY <1>2, <2>1, <2>2, <2>3, <2>4 DEF RecoveryCall
<1>3. ASSUME NEW o \in Owner, NEW t \in 0..MAX_GUARDIANS,
             setTreasuryQuorumThreshold(o, t)
      PROVE  Quiet
  BY <1>3 DEF setTreasuryQuorumThreshold, Quiet
<1>4. ASSUME NEW r \in Withdrawal, WithdrawalCall(r)
      PROVE  \/ Opens(r) \/ Pays(r) \/ Queues(r)
             \/ finalizeWithdrawal(r.vaultOwner, r)
             \/ cancelPendingWithdrawal(r.vaultOwner, r)
             \/ \E g \in Account : approveTreasuryWithdrawal(g, r.vaultOwner, r)
  <2>1. ASSUME NEW es \in EcdsaKey, NEW ps \in PublicKey, withdraw(r, es, ps)
        PROVE  Opens(r) \/ Pays(r)
    BY <2>1 DEF withdraw, Admissible, Opens, Pays
  <2>2. ASSUME NEW es \in EcdsaKey, NEW ps \in PublicKey, queueWithdrawal(r, es, ps)
        PROVE  Opens(r) \/ Queues(r)
    BY <2>2 DEF queueWithdrawal, Admissible, Opens, Queues
  <2> QED
    BY <1>4, <2>1, <2>2 DEF WithdrawalCall
<1>5. ASSUME checkReturns
      PROVE  \E r \in Withdrawal : Pays(r) \/ Queues(r)
  <2> DEFINE r == frame.request
  <2>1. /\ r \in Withdrawal
        /\ r.nonce < MaxNonce
        /\ frame.engine \in Engine \cup {NoEngine}
    BY <1>5 DEF checkReturns, InCheck, Typed, TypeOK, TenantTypeOK, CheckFrame
  <2>2. /\ HasVault(r.vaultOwner)
        /\ r.nonce = vaults[r.vaultOwner].nonce
        /\ frame.epoch = policyControlEpoch[r.vaultOwner]
        /\ frame.fn = "queueWithdrawal" => ~HasPending(r.vaultOwner)
    BY <1>5 DEF checkReturns, OpenCallStillValid
  <2> QED
    BY <1>5, <2>1, <2>2 DEF checkReturns, Pays, Queues
<1>6. CASE OperatorCall \/ Environment \/ UNCHANGED vars
  BY <1>6 DEF OperatorCall, Environment, vars, tenantVars, Quiet,
              accountVars, approvalVars, historyVars
<1> QED
  BY <1>1, <1>2, <1>3, <1>4, <1>5, <1>6 DEF Next

-----------------------------------------------------------------------------
(* The effects of the two helpers that cancel and reinstall. *)

LEMMA InstallEffects ==
  ASSUME Typed, NEW o \in Owner, Installs(o)
  PROVE  /\ vaults[o] \in VaultOwner
         /\ vaults'[o] \in VaultOwner
         /\ vaults'[o].nonce = vaults[o].nonce + 1
         /\ vaults'[o].balance = vaults[o].balance + Refund(o)
         /\ \A p \in Owner : p # o => vaults'[p] = vaults[p]
         /\ policyControlEpoch'[o] = policyControlEpoch[o] + 1
         /\ \A p \in Owner : p # o => policyControlEpoch'[p] = policyControlEpoch[p]
         /\ Dequeue(o)
<1>1. PICK signer \in Signer, key \in PublicKey : InstallCredentials(o, signer, key)
  BY DEF Installs
<1>2. vaults[o] \in VaultOwner
  BY DEF Installs, HasVault, Typed, TypeOK, TenantTypeOK
<1>3. /\ vaults' = [vaults EXCEPT ![o].ecdsaSigner = signer,
                                 ![o].pqPublicKey = key,
                                 ![o].nonce = @ + 1,
                                 ![o].balance = @ + Refund(o)]
      /\ policyControlEpoch' = [policyControlEpoch EXCEPT ![o] = @ + 1]
      /\ vaults[o].nonce < MaxNonce
      /\ Dequeue(o)
  BY <1>1 DEF InstallCredentials
<1>4. vaults'[o] = [ecdsaSigner |-> signer, pqPublicKey |-> key,
                    nonce |-> vaults[o].nonce + 1,
                    balance |-> vaults[o].balance + Refund(o),
                    mode |-> vaults[o].mode]
  BY <1>2, <1>3 DEF Typed, TypeOK, TenantTypeOK, VaultOwner
<1>5. vaults'[o] \in VaultOwner
  BY <1>2, <1>3, <1>4, RefundType DEF VaultOwner, Nonce, Typed
<1>6. \A p \in Owner : p # o => vaults'[p] = vaults[p]
  BY <1>3 DEF Typed, TypeOK, TenantTypeOK
<1>7. /\ policyControlEpoch'[o] = policyControlEpoch[o] + 1
      /\ \A p \in Owner : p # o => policyControlEpoch'[p] = policyControlEpoch[p]
  BY <1>3 DEF Typed, TypeOK, TenantTypeOK
<1>8. /\ vaults'[o].nonce = vaults[o].nonce + 1
      /\ vaults'[o].balance = vaults[o].balance + Refund(o)
  BY <1>4
<1> QED
  BY <1>2, <1>3, <1>5, <1>6, <1>7, <1>8

LEMMA DequeueEffects ==
  ASSUME Typed, NEW o \in Owner, Dequeue(o)
  PROVE  /\ pendingWithdrawals'[o] = NoPending
         /\ \A p \in Owner : p # o => pendingWithdrawals'[p] = pendingWithdrawals[p]
         /\ ClearPendingApprovals(o)
  BY DEF Dequeue, Typed, TypeOK, TenantTypeOK

\* Clearing the approvals of what is pending leaves no approval for any
\* operation of that owner: the early return and the restriction to the present
\* guardians in _clearTreasuryApprovalsForOp lose nothing.
LEMMA ApprovalsCleared ==
  ASSUME Typed, ApprovalsConsistent, PendingUnderCurrentCredentials,
         NEW o \in Owner, ClearPendingApprovals(o),
         NEW op \in Withdrawal
  PROVE  /\ op.vaultOwner = o => /\ treasuryApprovals'[op] = {}
                                 /\ treasuryApprovalCount'[op] = 0
         /\ op.vaultOwner # o =>
               /\ treasuryApprovals'[op] = treasuryApprovals[op]
               /\ treasuryApprovalCount'[op] = treasuryApprovalCount[op]
<1> DEFINE q == pendingWithdrawals[o].operationId
<1>1. IsFiniteSet(treasuryApprovals[op])
  BY FS_Subset DEF Typed, TypeOK, TenantTypeOK
<1>2. /\ treasuryApprovalCount[op] = Cardinality(treasuryApprovals[op])
      /\ treasuryApprovals[op] \subseteq vaultGuardians[op.vaultOwner]
      /\ treasuryApprovals[op] # {} =>
            HasPending(op.vaultOwner)
              /\ pendingWithdrawals[op.vaultOwner].operationId = op
  BY DEF ApprovalsConsistent
<1>3. treasuryApprovals[op] = {} <=> treasuryApprovalCount[op] = 0
  BY <1>1, <1>2, FS_EmptySet
<1>4. CASE ~HasPending(o)
  <2>1. UNCHANGED approvalVars
    BY <1>4 DEF ClearPendingApprovals
  <2> QED
    BY <1>2, <1>3, <1>4, <2>1 DEF approvalVars
<1>5. CASE HasPending(o)
  <2>1. q \in Withdrawal /\ q.vaultOwner = o
    BY <1>5 DEF HasPending, Typed, TypeOK, TenantTypeOK, PendingWithdrawal,
                PendingUnderCurrentCredentials
  <2>2. ClearTreasuryApprovals(o, q)
    BY <1>5 DEF ClearPendingApprovals
  <2>3. CASE op # q
    <3>1. /\ treasuryApprovals'[op] = treasuryApprovals[op]
          /\ treasuryApprovalCount'[op] = treasuryApprovalCount[op]
      BY <2>2, <2>3 DEF ClearTreasuryApprovals, approvalVars, Typed, TypeOK, TenantTypeOK
    <3> QED
      BY <1>2, <1>3, <2>3, <3>1
  <2>4. CASE op = q /\ treasuryApprovalCount[q] = 0
    BY <1>3, <2>1, <2>2, <2>4 DEF ClearTreasuryApprovals, approvalVars
  <2>5. CASE op = q /\ treasuryApprovalCount[q] # 0
    <3>1. /\ treasuryApprovals'[op] = treasuryApprovals[op] \ vaultGuardians[o]
          /\ treasuryApprovalCount'[op] = 0
      BY <2>2, <2>5 DEF ClearTreasuryApprovals, Typed, TypeOK, TenantTypeOK
    <3> QED
      BY <1>2, <2>1, <2>5, <3>1
  <2> QED
    BY <2>3, <2>4, <2>5
<1> QED
  BY <1>4, <1>5

-----------------------------------------------------------------------------
(* Recovery supports and the quorum depend on the guardian list alone. *)

LEMMA GuardianFinite ==
  ASSUME Typed, NEW o \in Owner
  PROVE  /\ IsFiniteSet(vaultGuardians[o])
         /\ Cardinality(vaultGuardians[o]) \in Nat
  BY FS_Subset, FS_CardinalityType DEF Typed, TypeOK, TenantTypeOK

LEMMA SupportsPreserved ==
  ASSUME Typed, SupportsConsistent, [Next]_vars
  PROVE  SupportsConsistent'
<1> USE DEF SupportsConsistent, HasRecovery
<1>1. ASSUME NEW o \in Owner, EndRecovery(o),
             vaultGuardians'[o] = vaultGuardians[o] \/ recoverySupports'[o] = {},
             \A p \in Owner : p # o => vaultGuardians'[p] = vaultGuardians[p]
      PROVE  SupportsConsistent'
  <2>1. /\ recoveryRequests'[o] = NoRecovery
        /\ recoverySupports'[o] = {}
        /\ \A p \in Owner : p # o =>
              /\ recoveryRequests'[p] = recoveryRequests[p]
              /\ recoverySupports'[p] = recoverySupports[p]
    BY <1>1 DEF EndRecovery, Typed, TypeOK, TenantTypeOK
  <2> QED
    BY <1>1, <2>1
<1>2. ASSUME NEW o \in Owner, RecoveryCall(o) PROVE SupportsConsistent'
  <2>1. ASSUME NEW guardians \in SUBSET Account, setGuardians(o, guardians)
        PROVE  SupportsConsistent'
    <3>1. EndRecovery(o) /\ recoverySupports'[o] = {}
      BY <2>1 DEF setGuardians, EndRecovery, Typed, TypeOK, TenantTypeOK
    <3>2. \A p \in Owner : p # o => vaultGuardians'[p] = vaultGuardians[p]
      BY <2>1 DEF setGuardians, Typed, TypeOK, TenantTypeOK
    <3> QED
      BY <1>1, <3>1, <3>2
  <2>2. ASSUME NEW g \in Account, NEW signer \in Signer, NEW key \in PublicKey,
               initiateRecovery(g, o, signer, key)
        PROVE  SupportsConsistent'
    <3> DEFINE request == [newEcdsaSigner |-> signer, newPQPublicKey |-> key,
                           executeAfter |-> now + RECOVERY_DELAY,
                           supportCount |-> 0]
    <3>1. /\ recoveryRequests'[o] = request
          /\ recoverySupports'[o] = {}
          /\ \A p \in Owner : p # o =>
                /\ recoveryRequests'[p] = recoveryRequests[p]
                /\ recoverySupports'[p] = recoverySupports[p]
      BY <2>2 DEF initiateRecovery, Typed, TypeOK, TenantTypeOK
    <3>2. recoveryRequests'[o].supportCount = Cardinality(recoverySupports'[o])
      BY <3>1, FS_EmptySet
    <3>3. UNCHANGED vaultGuardians
      BY <2>2 DEF initiateRecovery, guardianVars
    <3>4. request \in RecoveryRequest
      BY DEF RecoveryRequest, Typed, TypeOK, GovTypeOK
    <3> QED
      BY <3>1, <3>2, <3>3, <3>4
  <2>3. ASSUME NEW g \in Account, supportRecovery(g, o)
        PROVE  SupportsConsistent'
    <3>1. recoveryRequests[o] \in RecoveryRequest
      BY <2>3 DEF supportRecovery, Typed, TypeOK, TenantTypeOK
    <3>2. /\ recoveryRequests'[o] =
               [newEcdsaSigner |-> recoveryRequests[o].newEcdsaSigner,
                newPQPublicKey |-> recoveryRequests[o].newPQPublicKey,
                executeAfter |-> recoveryRequests[o].executeAfter,
                supportCount |-> recoveryRequests[o].supportCount + 1]
          /\ recoverySupports'[o] = recoverySupports[o] \cup {g}
          /\ \A p \in Owner : p # o =>
                /\ recoveryRequests'[p] = recoveryRequests[p]
                /\ recoverySupports'[p] = recoverySupports[p]
      BY <2>3, <3>1 DEF supportRecovery, Typed, TypeOK, TenantTypeOK, RecoveryRequest
    <3>3. /\ g \in vaultGuardians[o]
          /\ g \notin recoverySupports[o]
          /\ UNCHANGED vaultGuardians
      BY <2>3 DEF supportRecovery, guardianVars
    <3>4. IsFiniteSet(recoverySupports[o])
      BY FS_Subset DEF Typed, TypeOK, TenantTypeOK
    <3>5. Cardinality(recoverySupports'[o]) = recoveryRequests[o].supportCount + 1
      BY <2>3, <3>2, <3>3, <3>4, FS_AddElement DEF supportRecovery
    <3>6. recoveryRequests'[o].supportCount = Cardinality(recoverySupports'[o])
      BY <3>2, <3>5
    <3>7. recoveryRequests'[o] \in RecoveryRequest
      BY <3>1, <3>2 DEF RecoveryRequest
    <3> QED
      BY <3>2, <3>3, <3>6, <3>7
  <2>4. CASE executeRecovery(o)
    BY <1>1, <2>4 DEF executeRecovery, guardianVars
  <2>5. CASE cancelRecovery(o)
    BY <1>1, <2>5 DEF cancelRecovery, guardianVars
  <2> QED
    BY <1>2, <2>1, <2>2, <2>3, <2>4, <2>5 DEF RecoveryCall
<1>3. CASE UNCHANGED <<vaultGuardians, recoveryVars>>
  BY <1>3 DEF recoveryVars
<1>4. ASSUME NEW o \in Owner, AccountCall(o)
      PROVE  UNCHANGED <<vaultGuardians, recoveryVars>>
  BY <1>4 DEF AccountCall, createVault, _deposit, rotateCredentials, guardianVars
<1>5. ASSUME NEW r \in Withdrawal, WithdrawalCall(r)
      PROVE  UNCHANGED <<vaultGuardians, recoveryVars>>
  BY <1>5 DEF WithdrawalCall, withdraw, queueWithdrawal, WithdrawEffects, QueueEffects,
              OpenCheck, finalizeWithdrawal, cancelPendingWithdrawal,
              approveTreasuryWithdrawal, guardianVars
<1>6. CASE checkReturns \/ transferReturns
  BY <1>3, <1>6 DEF checkReturns, transferReturns, WithdrawEffects, QueueEffects, guardianVars
<1>7. CASE OperatorCall \/ Environment \/ UNCHANGED vars
  BY <1>3, <1>7 DEF OperatorCall, Environment, vars, tenantVars, recoveryVars
<1>8. ASSUME NEW o \in Owner, NEW t \in 0..MAX_GUARDIANS,
             setTreasuryQuorumThreshold(o, t)
      PROVE  UNCHANGED <<vaultGuardians, recoveryVars>>
  BY <1>8 DEF setTreasuryQuorumThreshold
<1> QED
  BY <1>2, <1>3, <1>4, <1>5, <1>6, <1>7, <1>8 DEF Next

LEMMA QuorumPreserved ==
  ASSUME Typed, QuorumReachable, OpenCallStillValid, [Next]_vars
  PROVE  QuorumReachable'
<1> USE DEF QuorumReachable
<1>1. ASSUME NEW o \in Owner, NEW t \in 0..MAX_GUARDIANS,
             setTreasuryQuorumThreshold(o, t)
      PROVE  QuorumReachable'
  <2>1. t <= Cardinality(vaultGuardians[o])
    BY <1>1, GuardianFinite DEF setTreasuryQuorumThreshold
  <2> QED
    BY <1>1, <2>1 DEF setTreasuryQuorumThreshold, Typed, TypeOK, TenantTypeOK
<1>2. ASSUME NEW o \in Owner, NEW guardians \in SUBSET Account,
             setGuardians(o, guardians)
      PROVE  QuorumReachable'
  BY <1>2 DEF setGuardians, AcceptableGuardians, Typed, TypeOK, TenantTypeOK
<1>3. ASSUME UNCHANGED guardianVars PROVE QuorumReachable'
  BY <1>3 DEF guardianVars
<1>4. ASSUME NEW o \in Owner, AccountCall(o) PROVE UNCHANGED guardianVars
  BY <1>4 DEF AccountCall, createVault, _deposit, rotateCredentials
<1>5. ASSUME NEW o \in Owner, RecoveryCall(o),
             ~ \E guardians \in SUBSET Account : setGuardians(o, guardians)
      PROVE  UNCHANGED guardianVars
  BY <1>5 DEF RecoveryCall, initiateRecovery, supportRecovery, executeRecovery, cancelRecovery
<1>6. ASSUME NEW r \in Withdrawal, WithdrawalCall(r) PROVE UNCHANGED guardianVars
  BY <1>6 DEF WithdrawalCall, withdraw, queueWithdrawal, WithdrawEffects, QueueEffects,
              OpenCheck, finalizeWithdrawal, cancelPendingWithdrawal,
              approveTreasuryWithdrawal
<1>7. ASSUME checkReturns \/ transferReturns PROVE UNCHANGED guardianVars
  BY <1>7 DEF checkReturns, transferReturns, WithdrawEffects, QueueEffects
<1>8. ASSUME OperatorCall \/ Environment \/ UNCHANGED vars PROVE UNCHANGED guardianVars
  BY <1>8 DEF OperatorCall, Environment, vars, tenantVars, guardianVars
<1> QED
  BY <1>1, <1>2, <1>3, <1>4, <1>5, <1>6, <1>7, <1>8 DEF Next

-----------------------------------------------------------------------------
(* The money. *)

\* What a debit does to the vault it is taken from.
LEMMA DebitEffects ==
  ASSUME Typed, NEW r \in Withdrawal, HasVault(r.vaultOwner), r.nonce < MaxNonce,
         Debit(r)
  PROVE  /\ r.vaultOwner \in Owner
         /\ r.amount \in Nat
         /\ r.nonce \in Nat
         /\ vaults[r.vaultOwner] \in VaultOwner
         /\ vaults'[r.vaultOwner].nonce = r.nonce + 1
         /\ vaults'[r.vaultOwner].balance = vaults[r.vaultOwner].balance - r.amount
         /\ \A p \in Owner : p # r.vaultOwner => vaults'[p] = vaults[p]
         /\ \A p \in Owner : HasVault(p) <=> HasVault(p)'
<1>1. /\ r.vaultOwner \in Owner
      /\ r.amount \in Nat
      /\ r.nonce \in Nonce
  BY DEF Withdrawal
<1>2. vaults[r.vaultOwner] \in VaultOwner
  BY <1>1 DEF HasVault, Typed, TypeOK, TenantTypeOK
<1>3. r.nonce \in Nat
  BY <1>1 DEF Nonce
<1>4. TypeOK
  BY DEF Typed
<1>5. /\ vaults'[r.vaultOwner] =
           [ecdsaSigner |-> vaults[r.vaultOwner].ecdsaSigner,
            pqPublicKey |-> vaults[r.vaultOwner].pqPublicKey,
            nonce |-> r.nonce + 1,
            balance |-> vaults[r.vaultOwner].balance - r.amount,
            mode |-> vaults[r.vaultOwner].mode]
      /\ \A p \in Owner : p # r.vaultOwner => vaults'[p] = vaults[p]
      /\ \A p \in Owner : HasVault(p) <=> HasVault(p)'
  BY <1>4, DebitType
<1>6. /\ vaults'[r.vaultOwner].nonce = r.nonce + 1
      /\ vaults'[r.vaultOwner].balance = vaults[r.vaultOwner].balance - r.amount
  BY <1>5
<1> QED
  BY <1>1, <1>2, <1>3, <1>5, <1>6

\* What a credit does to the vault it is added to.
LEMMA CreditEffects ==
  ASSUME Typed, NEW o \in Owner, HasVault(o), NEW value \in Nat,
         vaults' = [vaults EXCEPT ![o].balance = @ + value]
  PROVE  /\ HasVault(o)'
         /\ vaults'[o].nonce = vaults[o].nonce
         /\ vaults'[o].balance = vaults[o].balance + value
         /\ vaults'[o].ecdsaSigner = vaults[o].ecdsaSigner
         /\ vaults'[o].pqPublicKey = vaults[o].pqPublicKey
         /\ \A p \in Owner : p # o => vaults'[p] = vaults[p]
<1>1. TypeOK
  BY DEF Typed
<1>2. vaults'[o] = [ecdsaSigner |-> vaults[o].ecdsaSigner,
                    pqPublicKey |-> vaults[o].pqPublicKey,
                    nonce |-> vaults[o].nonce,
                    balance |-> vaults[o].balance + value,
                    mode |-> vaults[o].mode]
  BY <1>1, CreditType
<1>3. HasVault(o)' /\ \A p \in Owner : p # o => vaults'[p] = vaults[p]
  BY <1>1, CreditType
<1> QED
  BY <1>2, <1>3

\* What a vault of Owner o is worth to its owner.
LEMMA BalanceType ==
  ASSUME Typed, NEW o \in Owner
  PROVE  /\ Balance(o) \in Nat
         /\ Refund(o) \in Nat
         /\ paidOut[o] \in Nat
         /\ credited[o] \in Nat
  BY RefundType DEF Typed, TypeOK, TenantTypeOK, Balance, HasVault, VaultOwner

LEMMA ConservationPreserved ==
  ASSUME Typed, OpenCallStillValid, PendingUnderCurrentCredentials, Conservation,
         [Next]_vars
  PROVE  Conservation'
<1> SUFFICES ASSUME NEW q \in Owner
             PROVE  credited'[q] = Balance(q)' + Refund(q)' + paidOut'[q]
  BY DEF Conservation
<1>0. credited[q] = Balance(q) + Refund(q) + paidOut[q]
  BY DEF Conservation
<1> DEFINE Kept == /\ vaults'[q] = vaults[q]
                   /\ pendingWithdrawals'[q] = pendingWithdrawals[q]
                   /\ credited'[q] = credited[q]
                   /\ paidOut'[q] = paidOut[q]
<1>1. CASE Kept
  BY <1>0, <1>1 DEF Balance, HasVault, Refund, HasPending
<1>2. CASE Quiet \/ transferReturns
  BY <1>1, <1>2 DEF Quiet, transferReturns, accountVars, historyVars
<1>3. ASSUME NEW o \in Owner, Creates(o)
      PROVE  credited'[q] = Balance(q)' + Refund(q)' + paidOut'[q]
  <2>1. PICK signer \in Signer, key \in PublicKey, mode \in Mode, value \in Amount :
             createVault(o, signer, key, mode, value)
    BY <1>3 DEF Creates
  <2>2. CASE q # o
    BY <1>1, <2>1, <2>2 DEF createVault, Typed, TypeOK, TenantTypeOK
  <2>3. CASE q = o
    <3> DEFINE new == [ecdsaSigner |-> signer, pqPublicKey |-> key, nonce |-> 0,
                       balance |-> value, mode |-> mode]
    <3>1. /\ vaults'[q] = new
          /\ pendingWithdrawals'[q] = pendingWithdrawals[q]
          /\ credited'[q] = credited[q] + value
          /\ paidOut'[q] = paidOut[q]
          /\ ~HasVault(q)
      BY <2>1, <2>3 DEF createVault, Typed, TypeOK, TenantTypeOK
    <3>2. ~HasPending(q)
      BY <3>1 DEF Typed, NothingWithoutVault
    <3>3. new \in VaultOwner
      BY DEF VaultOwner, Nonce
    <3>4. Balance(q)' = value
      BY <3>1, <3>3 DEF Balance, HasVault
    <3>5. Balance(q) = 0 /\ Refund(q) = 0 /\ Refund(q)' = 0
      BY <3>1, <3>2 DEF Balance, Refund, HasPending
    <3>6. value \in Nat
      OBVIOUS
    <3> QED
      BY <1>0, <3>1, <3>4, <3>5, <3>6, BalanceType
  <2> QED
    BY <2>2, <2>3
<1>4. ASSUME NEW o \in Owner, Deposits(o)
      PROVE  credited'[q] = Balance(q)' + Refund(q)' + paidOut'[q]
  <2>1. PICK value \in Amount : _deposit(o, value)
    BY <1>4 DEF Deposits
  <2>2. CASE q # o
    BY <1>1, <2>1, <2>2 DEF _deposit, Typed, TypeOK, TenantTypeOK
  <2>3. CASE q = o
    <3>0. value \in Nat
      OBVIOUS
    <3>1. /\ HasVault(q) /\ HasVault(q)'
          /\ vaults'[q].balance = vaults[q].balance + value
      BY <2>1, <2>3, <3>0, CreditEffects DEF _deposit
    <3>2. /\ pendingWithdrawals'[q] = pendingWithdrawals[q]
          /\ credited'[q] = credited[q] + value
          /\ paidOut'[q] = paidOut[q]
      BY <2>1, <2>3 DEF _deposit, Typed, TypeOK, TenantTypeOK
    <3>3. Refund(q)' = Refund(q)
      BY <3>2 DEF Refund, HasPending
    <3>4. Balance(q)' = Balance(q) + value
      BY <3>1 DEF Balance
    <3> QED
      BY <1>0, <3>0, <3>2, <3>3, <3>4, BalanceType
  <2> QED
    BY <2>2, <2>3
<1>5. ASSUME NEW o \in Owner, Installs(o)
      PROVE  credited'[q] = Balance(q)' + Refund(q)' + paidOut'[q]
  <2>1. UNCHANGED <<credited, paidOut>>
    BY <1>5 DEF Installs, historyVars
  <2>2. CASE q # o
    BY <1>1, <1>5, <2>1, <2>2, InstallEffects, DequeueEffects
  <2>3. CASE q = o
    <3>1. /\ HasVault(q)
          /\ vaults'[q] \in VaultOwner
          /\ vaults'[q].balance = vaults[q].balance + Refund(q)
          /\ pendingWithdrawals'[q] = NoPending
      BY <1>5, <2>3, InstallEffects, DequeueEffects DEF Installs
    <3>2. Balance(q)' = Balance(q) + Refund(q) /\ Refund(q)' = 0
      BY <3>1 DEF Balance, HasVault, Refund, HasPending
    <3> QED
      BY <1>0, <2>1, <3>2, BalanceType
  <2> QED
    BY <2>2, <2>3
<1>6. ASSUME NEW o \in Owner, NEW guardians \in SUBSET Account, setGuardians(o, guardians)
      PROVE  credited'[q] = Balance(q)' + Refund(q)' + paidOut'[q]
  BY <1>1, <1>6 DEF setGuardians, accountVars, historyVars
<1>7. ASSUME NEW r \in Withdrawal, Pays(r)
      PROVE  credited'[q] = Balance(q)' + Refund(q)' + paidOut'[q]
  <2>1. Debit(r) /\ HasVault(r.vaultOwner) /\ r.nonce < MaxNonce
    BY <1>7 DEF Pays, WithdrawEffects
  <2>2. UNCHANGED <<pendingWithdrawals, credited>>
    BY <1>7 DEF Pays, WithdrawEffects
  <2>3. paidOut' = [paidOut EXCEPT ![r.vaultOwner] = @ + r.amount]
    BY <1>7 DEF Pays, WithdrawEffects
  <2>4. CASE q # r.vaultOwner
    BY <1>1, <2>1, <2>2, <2>3, <2>4, DebitEffects DEF Typed, TypeOK, TenantTypeOK
  <2>5. CASE q = r.vaultOwner
    <3>1. paidOut'[q] = paidOut[q] + r.amount
      BY <2>3, <2>5 DEF Typed, TypeOK, TenantTypeOK
    <3>2. /\ HasVault(q) /\ HasVault(q)'
          /\ vaults'[q].balance = vaults[q].balance - r.amount
          /\ r.amount \in Nat
      BY <2>1, <2>5, DebitEffects
    <3>3. Balance(q)' = Balance(q) - r.amount
      BY <3>2 DEF Balance
    <3>4. Refund(q)' = Refund(q)
      BY <2>2 DEF Refund, HasPending
    <3> QED
      BY <1>0, <2>2, <3>1, <3>2, <3>3, <3>4, BalanceType
  <2> QED
    BY <2>4, <2>5
<1>8. ASSUME NEW r \in Withdrawal, Queues(r)
      PROVE  credited'[q] = Balance(q)' + Refund(q)' + paidOut'[q]
  <2>1. PICK engine \in Engine \cup {NoEngine} :
             QueueEffects(r, engine, policyControlEpoch[r.vaultOwner])
    BY <1>8 DEF Queues
  <2>2. Debit(r) /\ HasVault(r.vaultOwner) /\ r.nonce < MaxNonce
    BY <1>8, <2>1 DEF Queues, QueueEffects
  <2>3. UNCHANGED <<paidOut, credited>>
    BY <2>1 DEF QueueEffects
  <2> DEFINE entry == [operationId |-> r, queuedAt |-> now, readyAt |-> ReadyAt,
                       policyEngineAtQueue |-> engine]
  <2>4. pendingWithdrawals' = [pendingWithdrawals EXCEPT ![r.vaultOwner] = entry]
    BY <2>1 DEF QueueEffects
  <2>5. CASE q # r.vaultOwner
    BY <1>1, <2>2, <2>3, <2>4, <2>5, DebitEffects DEF Typed, TypeOK, TenantTypeOK
  <2>6. CASE q = r.vaultOwner
    <3>1. entry \in PendingWithdrawal
      BY DEF PendingWithdrawal, ReadyAt, Typed, TypeOK, GovTypeOK
    <3>2. pendingWithdrawals'[q] = entry
      BY <2>4, <2>6 DEF Typed, TypeOK, TenantTypeOK
    <3>3. Refund(q)' = r.amount
      BY <3>1, <3>2 DEF Refund, HasPending
    <3>4. Refund(q) = 0
      BY <1>8, <2>6 DEF Queues, Refund
    <3>5. /\ HasVault(q) /\ HasVault(q)'
          /\ vaults'[q].balance = vaults[q].balance - r.amount
          /\ r.amount \in Nat
      BY <2>2, <2>6, DebitEffects
    <3>6. Balance(q)' = Balance(q) - r.amount
      BY <3>5 DEF Balance
    <3> QED
      BY <1>0, <2>3, <3>3, <3>4, <3>5, <3>6, BalanceType
  <2> QED
    BY <2>5, <2>6
<1>9. ASSUME NEW r \in Withdrawal,
             finalizeWithdrawal(r.vaultOwner, r) \/ cancelPendingWithdrawal(r.vaultOwner, r)
      PROVE  credited'[q] = Balance(q)' + Refund(q)' + paidOut'[q]
  <2> DEFINE o == r.vaultOwner
  <2>1. o \in Owner /\ r.amount \in Nat
    BY DEF Withdrawal
  <2>2. IsPending(o, r) /\ Dequeue(o) /\ UNCHANGED credited
    BY <1>9 DEF finalizeWithdrawal, cancelPendingWithdrawal, Cancellable, historyVars
  <2>3. HasVault(o) /\ Refund(o) = r.amount
    BY <2>1, <2>2 DEF IsPending, Typed, NothingWithoutVault, Refund
  <2>4. Refund(o)' = 0
    BY <2>1, <2>2, DequeueEffects DEF Refund, HasPending
  <2>5. CASE finalizeWithdrawal(o, r)
    <3>1. /\ UNCHANGED vaults
          /\ paidOut' = [paidOut EXCEPT ![o] = @ + r.amount]
      BY <2>5 DEF finalizeWithdrawal, accountVars
    <3>2. CASE q # o
      BY <1>1, <2>1, <2>2, <3>1, <3>2, DequeueEffects DEF Typed, TypeOK, TenantTypeOK
    <3>3. CASE q = o
      <4>1. paidOut'[q] = paidOut[q] + r.amount
        BY <2>1, <3>1, <3>3 DEF Typed, TypeOK, TenantTypeOK
      <4>2. Balance(q)' = Balance(q)
        BY <3>1 DEF Balance, HasVault
      <4> QED
        BY <1>0, <2>1, <2>2, <2>3, <2>4, <3>3, <4>1, <4>2, BalanceType
    <3> QED
      BY <3>2, <3>3
  <2>6. CASE cancelPendingWithdrawal(o, r)
    <3>1. /\ UNCHANGED paidOut
          /\ vaults' = [vaults EXCEPT ![o].balance = @ + r.amount]
      BY <2>6 DEF cancelPendingWithdrawal, historyVars
    <3>2. /\ HasVault(o)'
          /\ vaults'[o].balance = vaults[o].balance + r.amount
          /\ \A p \in Owner : p # o => vaults'[p] = vaults[p]
      BY <2>1, <2>3, <3>1, CreditEffects
    <3>3. CASE q # o
      BY <1>1, <2>1, <2>2, <3>1, <3>2, <3>3, DequeueEffects
    <3>4. CASE q = o
      <4>1. Balance(q)' = Balance(q) + r.amount
        BY <2>3, <3>2, <3>4 DEF Balance
      <4> QED
        BY <1>0, <2>1, <2>2, <2>3, <2>4, <3>1, <3>4, <4>1, BalanceType
    <3> QED
      BY <3>3, <3>4
  <2> QED
    BY <1>9, <2>5, <2>6
<1>10. ASSUME NEW r \in Withdrawal,
              Opens(r) \/ \E g \in Account : approveTreasuryWithdrawal(g, r.vaultOwner, r)
       PROVE  credited'[q] = Balance(q)' + Refund(q)' + paidOut'[q]
  BY <1>1, <1>10 DEF Opens, OpenCheck, approveTreasuryWithdrawal, accountVars, historyVars
<1> QED
  BY <1>2, <1>3, <1>4, <1>5, <1>6, <1>7, <1>8, <1>9, <1>10, StepKinds

-----------------------------------------------------------------------------
(* Approvals. *)

\* Once an owner's approvals are cleared and no other owner's are touched, they
\* are consistent again, whatever happened to the owner's queue and guardians.
LEMMA ApprovalsAfterClearing ==
  ASSUME Typed, ApprovalsConsistent, PendingUnderCurrentCredentials,
         NEW o \in Owner, ClearPendingApprovals(o),
         \A p \in Owner : p # o =>
            /\ pendingWithdrawals'[p] = pendingWithdrawals[p]
            /\ vaultGuardians'[p] = vaultGuardians[p]
  PROVE  ApprovalsConsistent'
<1> SUFFICES ASSUME NEW op \in Withdrawal
             PROVE  /\ treasuryApprovalCount'[op] = Cardinality(treasuryApprovals'[op])
                    /\ treasuryApprovals'[op] \subseteq vaultGuardians'[op.vaultOwner]
                    /\ treasuryApprovals'[op] # {} =>
                          /\ HasPending(op.vaultOwner)'
                          /\ pendingWithdrawals'[op.vaultOwner].operationId = op
  BY DEF ApprovalsConsistent
<1>1. op.vaultOwner \in Owner
  BY DEF Withdrawal
<1>2. CASE op.vaultOwner = o
  <2>1. treasuryApprovals'[op] = {} /\ treasuryApprovalCount'[op] = 0
    BY <1>2, ApprovalsCleared
  <2> QED
    BY <2>1, FS_EmptySet
<1>3. CASE op.vaultOwner # o
  <2>1. /\ treasuryApprovals'[op] = treasuryApprovals[op]
        /\ treasuryApprovalCount'[op] = treasuryApprovalCount[op]
    BY <1>3, ApprovalsCleared
  <2> QED
    BY <1>1, <1>3, <2>1 DEF ApprovalsConsistent, HasPending
<1> QED
  BY <1>2, <1>3

LEMMA ApprovalsPreserved ==
  ASSUME Typed, OpenCallStillValid, PendingUnderCurrentCredentials,
         ApprovalsConsistent, [Next]_vars
  PROVE  ApprovalsConsistent'
<1>1. ASSUME UNCHANGED <<approvalVars, vaultGuardians, pendingWithdrawals>>
      PROVE  ApprovalsConsistent'
  BY <1>1 DEF approvalVars, ApprovalsConsistent, HasPending
<1>2. CASE Quiet \/ transferReturns
  BY <1>1, <1>2 DEF Quiet, transferReturns, guardianVars
<1>3. ASSUME NEW o \in Owner, Creates(o) \/ Deposits(o) PROVE ApprovalsConsistent'
  BY <1>1, <1>3 DEF Creates, Deposits, createVault, _deposit, guardianVars
<1>4. ASSUME NEW r \in Withdrawal, Opens(r) \/ Pays(r) PROVE ApprovalsConsistent'
  BY <1>1, <1>4 DEF Opens, Pays, OpenCheck, WithdrawEffects, guardianVars
<1>5. ASSUME NEW o \in Owner, NEW guardians \in SUBSET Account, setGuardians(o, guardians)
      PROVE  ApprovalsConsistent'
  <2>1. /\ ClearPendingApprovals(o)
        /\ UNCHANGED pendingWithdrawals
        /\ \A p \in Owner : p # o => vaultGuardians'[p] = vaultGuardians[p]
    BY <1>5 DEF setGuardians, Typed, TypeOK, TenantTypeOK
  <2> QED
    BY <2>1, ApprovalsAfterClearing
<1>6. ASSUME NEW o \in Owner, Dequeue(o), UNCHANGED vaultGuardians
      PROVE  ApprovalsConsistent'
  BY <1>6, DequeueEffects, ApprovalsAfterClearing
<1>7. ASSUME NEW o \in Owner, Installs(o) PROVE ApprovalsConsistent'
  BY <1>6, <1>7, InstallEffects DEF Installs
<1>8. ASSUME NEW r \in Withdrawal,
             finalizeWithdrawal(r.vaultOwner, r) \/ cancelPendingWithdrawal(r.vaultOwner, r)
      PROVE  ApprovalsConsistent'
  <2>1. r.vaultOwner \in Owner
    BY DEF Withdrawal
  <2> QED
    BY <1>6, <1>8, <2>1 DEF finalizeWithdrawal, cancelPendingWithdrawal, guardianVars
<1>9. ASSUME NEW r \in Withdrawal, Queues(r) PROVE ApprovalsConsistent'
  <2> DEFINE o == r.vaultOwner
  <2>1. o \in Owner /\ ~HasPending(o)
    BY <1>9 DEF Queues, Withdrawal
  <2>2. UNCHANGED <<approvalVars, vaultGuardians>>
    BY <1>9 DEF Queues, QueueEffects, guardianVars
  <2>3. \A p \in Owner : p # o => pendingWithdrawals'[p] = pendingWithdrawals[p]
    BY <1>9, <2>1 DEF Queues, QueueEffects, Typed, TypeOK, TenantTypeOK
  <2>4. ClearPendingApprovals(o)
    BY <2>1, <2>2 DEF ClearPendingApprovals
  <2> QED
    BY <2>1, <2>2, <2>3, <2>4, ApprovalsAfterClearing
<1>10. ASSUME NEW r \in Withdrawal, NEW g \in Account,
              approveTreasuryWithdrawal(g, r.vaultOwner, r)
       PROVE  ApprovalsConsistent'
  <2> DEFINE o == r.vaultOwner
  <2>1. /\ HasPending(o) /\ pendingWithdrawals[o].operationId = r
        /\ g \in vaultGuardians[o]
        /\ g \notin treasuryApprovals[r]
        /\ UNCHANGED <<vaultGuardians, pendingWithdrawals>>
    BY <1>10 DEF approveTreasuryWithdrawal, MayApprove, IsPending, guardianVars
  <2>2. /\ treasuryApprovals'[r] = treasuryApprovals[r] \cup {g}
        /\ treasuryApprovalCount'[r] = treasuryApprovalCount[r] + 1
        /\ \A op \in Withdrawal : op # r =>
              /\ treasuryApprovals'[op] = treasuryApprovals[op]
              /\ treasuryApprovalCount'[op] = treasuryApprovalCount[op]
    BY <1>10 DEF approveTreasuryWithdrawal, Typed, TypeOK, TenantTypeOK
  <2>3. IsFiniteSet(treasuryApprovals[r])
    BY FS_Subset DEF Typed, TypeOK, TenantTypeOK
  <2>4. /\ treasuryApprovalCount[r] = Cardinality(treasuryApprovals[r])
        /\ treasuryApprovals[r] \subseteq vaultGuardians[o]
    BY DEF ApprovalsConsistent
  <2>5. Cardinality(treasuryApprovals[r] \cup {g}) = Cardinality(treasuryApprovals[r]) + 1
    BY <2>1, <2>3, FS_AddElement
  <2> SUFFICES ASSUME NEW op \in Withdrawal
               PROVE  /\ treasuryApprovalCount'[op] = Cardinality(treasuryApprovals'[op])
                      /\ treasuryApprovals'[op] \subseteq vaultGuardians'[op.vaultOwner]
                      /\ treasuryApprovals'[op] # {} =>
                            /\ HasPending(op.vaultOwner)'
                            /\ pendingWithdrawals'[op.vaultOwner].operationId = op
    BY DEF ApprovalsConsistent
  <2>6. CASE op = r
    <3>1. treasuryApprovalCount'[op] = Cardinality(treasuryApprovals'[op])
      BY <2>2, <2>4, <2>5, <2>6
    <3> QED
      BY <2>1, <2>2, <2>4, <2>6, <3>1 DEF HasPending
  <2>7. CASE op # r
    BY <2>1, <2>2, <2>7 DEF ApprovalsConsistent, HasPending
  <2> QED
    BY <2>6, <2>7
<1> QED
  BY <1>2, <1>3, <1>4, <1>5, <1>7, <1>8, <1>9, <1>10, StepKinds

-----------------------------------------------------------------------------
(* The queue and the credentials. *)

LEMMA PendingPreserved ==
  ASSUME Typed, OpenCallStillValid, PendingUnderCurrentCredentials, [Next]_vars
  PROVE  PendingUnderCurrentCredentials'
<1> SUFFICES ASSUME NEW q \in Owner, HasPending(q)'
             PROVE  /\ queuedUnder'[q] = policyControlEpoch'[q]
                    /\ pendingWithdrawals'[q].operationId.vaultOwner = q
                    /\ pendingWithdrawals'[q].operationId.nonce < vaults'[q].nonce
  BY DEF PendingUnderCurrentCredentials
<1> DEFINE Goal == /\ queuedUnder'[q] = policyControlEpoch'[q]
                   /\ pendingWithdrawals'[q].operationId.vaultOwner = q
                   /\ pendingWithdrawals'[q].operationId.nonce < vaults'[q].nonce
           Kept == /\ queuedUnder'[q] = queuedUnder[q]
                   /\ policyControlEpoch'[q] = policyControlEpoch[q]
                   /\ pendingWithdrawals'[q] = pendingWithdrawals[q]
<1>0. HasPending(q) =>
        /\ HasVault(q)
        /\ pendingWithdrawals[q].operationId \in Withdrawal
        /\ pendingWithdrawals[q].operationId.nonce \in Nat
        /\ vaults[q].nonce \in Nat
  <2> SUFFICES ASSUME HasPending(q)
               PROVE  /\ HasVault(q)
                      /\ pendingWithdrawals[q].operationId \in Withdrawal
                      /\ pendingWithdrawals[q].operationId.nonce \in Nat
                      /\ vaults[q].nonce \in Nat
    OBVIOUS
  <2>1. HasVault(q)
    BY DEF Typed, NothingWithoutVault
  <2>2. pendingWithdrawals[q].operationId \in Withdrawal
    BY DEF HasPending, Typed, TypeOK, TenantTypeOK, PendingWithdrawal
  <2>3. pendingWithdrawals[q].operationId.nonce \in Nat
    BY <2>2 DEF Withdrawal, Nonce
  <2>4. vaults[q].nonce \in Nat
    BY <2>1 DEF HasVault, Typed, TypeOK, TenantTypeOK, VaultOwner, Nonce
  <2> QED
    BY <2>1, <2>2, <2>3, <2>4
<1>1. ASSUME Kept, vaults'[q] = vaults[q] PROVE Goal
  BY <1>1 DEF PendingUnderCurrentCredentials, HasPending
<1>2. CASE Quiet \/ transferReturns
  BY <1>1, <1>2 DEF Quiet, transferReturns, accountVars, historyVars
<1>3. ASSUME NEW o \in Owner, Creates(o) PROVE Goal
  <2>1. UNCHANGED <<queuedUnder, policyControlEpoch, pendingWithdrawals>>
    BY <1>3 DEF Creates, createVault
  <2>2. ~HasVault(o) /\ \A p \in Owner : p # o => vaults'[p] = vaults[p]
    BY <1>3 DEF Creates, createVault, Typed, TypeOK, TenantTypeOK
  <2>3. q # o
    BY <1>0, <2>1, <2>2 DEF HasPending
  <2> QED
    BY <1>1, <2>1, <2>2, <2>3
<1>4. ASSUME NEW o \in Owner, HasVault(o), NEW value \in Nat,
             vaults' = [vaults EXCEPT ![o].balance = @ + value],
             Kept
      PROVE  Goal
  <2>1. vaults'[q].nonce = vaults[q].nonce
    BY <1>4, CreditEffects
  <2> QED
    BY <1>4, <2>1 DEF PendingUnderCurrentCredentials, HasPending
<1>5. ASSUME NEW o \in Owner, Deposits(o) PROVE Goal
  <2>1. PICK value \in Amount : _deposit(o, value)
    BY <1>5 DEF Deposits
  <2>2. value \in Nat
    OBVIOUS
  <2> QED
    BY <1>4, <2>1, <2>2 DEF _deposit
<1>6. ASSUME NEW o \in Owner, Installs(o) PROVE Goal
  <2>1. q # o
    BY <1>6, InstallEffects, DequeueEffects DEF HasPending
  <2>2. UNCHANGED queuedUnder
    BY <1>6 DEF Installs, historyVars
  <2> QED
    BY <1>1, <1>6, <2>1, <2>2, InstallEffects, DequeueEffects
<1>7. ASSUME NEW o \in Owner, NEW guardians \in SUBSET Account, setGuardians(o, guardians)
      PROVE  Goal
  BY <1>1, <1>7 DEF setGuardians, accountVars, historyVars
<1>8. ASSUME NEW r \in Withdrawal, Pays(r) PROVE Goal
  <2>1. Debit(r) /\ HasVault(r.vaultOwner) /\ r.nonce < MaxNonce
             /\ r.nonce = vaults[r.vaultOwner].nonce
    BY <1>8 DEF Pays, WithdrawEffects
  <2>2. Kept
    BY <1>8 DEF Pays, WithdrawEffects
  <2>3. CASE q # r.vaultOwner
    BY <1>1, <2>1, <2>2, <2>3, DebitEffects
  <2>4. CASE q = r.vaultOwner
    <3>1. vaults'[q].nonce = vaults[q].nonce + 1
      BY <2>1, <2>4, DebitEffects
    <3>2. HasPending(q)
      BY <2>2 DEF HasPending
    <3> QED
      BY <1>0, <2>2, <3>1, <3>2 DEF PendingUnderCurrentCredentials
  <2> QED
    BY <2>3, <2>4
<1>9. ASSUME NEW r \in Withdrawal, Queues(r) PROVE Goal
  <2>1. PICK engine \in Engine \cup {NoEngine} :
             QueueEffects(r, engine, policyControlEpoch[r.vaultOwner])
    BY <1>9 DEF Queues
  <2>2. Debit(r) /\ HasVault(r.vaultOwner) /\ r.nonce < MaxNonce
    BY <1>9, <2>1 DEF Queues, QueueEffects
  <2> DEFINE entry == [operationId |-> r, queuedAt |-> now, readyAt |-> ReadyAt,
                       policyEngineAtQueue |-> engine]
  <2>3. /\ pendingWithdrawals' = [pendingWithdrawals EXCEPT ![r.vaultOwner] = entry]
        /\ queuedUnder' = [queuedUnder EXCEPT ![r.vaultOwner] =
                              policyControlEpoch[r.vaultOwner]]
        /\ UNCHANGED policyControlEpoch
    BY <2>1 DEF QueueEffects
  <2>4. CASE q # r.vaultOwner
    BY <1>1, <2>2, <2>3, <2>4, DebitEffects DEF Typed, TypeOK, TenantTypeOK
  <2>5. CASE q = r.vaultOwner
    <3>1. /\ pendingWithdrawals'[q] = entry
          /\ queuedUnder'[q] = policyControlEpoch'[q]
      BY <2>3, <2>5 DEF Typed, TypeOK, TenantTypeOK
    <3>2. vaults'[q].nonce = r.nonce + 1 /\ r.nonce \in Nat
      BY <2>2, <2>5, DebitEffects
    <3> QED
      BY <2>5, <3>1, <3>2
  <2> QED
    BY <2>4, <2>5
<1>10. ASSUME NEW r \in Withdrawal, finalizeWithdrawal(r.vaultOwner, r) PROVE Goal
  <2>1. r.vaultOwner \in Owner
    BY DEF Withdrawal
  <2>2. Dequeue(r.vaultOwner) /\ UNCHANGED <<vaults, policyControlEpoch, queuedUnder>>
    BY <1>10 DEF finalizeWithdrawal, accountVars
  <2>3. q # r.vaultOwner
    BY <2>1, <2>2, DequeueEffects DEF HasPending
  <2> QED
    BY <1>1, <2>1, <2>2, <2>3, DequeueEffects
<1>11. ASSUME NEW r \in Withdrawal, cancelPendingWithdrawal(r.vaultOwner, r) PROVE Goal
  <2>1. r.vaultOwner \in Owner /\ r.amount \in Nat
    BY DEF Withdrawal
  <2>2. /\ HasPending(r.vaultOwner)
        /\ Dequeue(r.vaultOwner)
        /\ vaults' = [vaults EXCEPT ![r.vaultOwner].balance = @ + r.amount]
        /\ UNCHANGED <<policyControlEpoch, queuedUnder>>
    BY <1>11 DEF cancelPendingWithdrawal, Cancellable, IsPending, historyVars
  <2>3. HasVault(r.vaultOwner)
    BY <2>1, <2>2 DEF Typed, NothingWithoutVault
  <2>4. q # r.vaultOwner
    BY <2>1, <2>2, DequeueEffects DEF HasPending
  <2>5. Kept
    BY <2>1, <2>2, <2>4, DequeueEffects
  <2> QED
    BY <1>4, <2>1, <2>2, <2>3, <2>5
<1>12. ASSUME NEW r \in Withdrawal,
              Opens(r) \/ \E g \in Account : approveTreasuryWithdrawal(g, r.vaultOwner, r)
       PROVE  Goal
  BY <1>1, <1>12 DEF Opens, OpenCheck, approveTreasuryWithdrawal, accountVars, historyVars
<1> QED
  BY <1>2, <1>3, <1>5, <1>6, <1>7, <1>8, <1>9, <1>10, <1>11, <1>12, StepKinds

LEMMA OpenCallPreserved ==
  ASSUME Typed, OpenCallStillValid, [Next]_vars
  PROVE  OpenCallStillValid'
<1> DEFINE r == frame.request
           o == r.vaultOwner
           Valid == /\ HasVault(o)
                    /\ vaults[o].nonce = r.nonce
                    /\ vaults[o].balance >= r.amount
                    /\ frame.epoch = policyControlEpoch[o]
                    /\ frame.fn = "queueWithdrawal" => ~HasPending(o)
<1>1. InCheck => Valid
  BY DEF OpenCallStillValid
<1>2. InCheck => /\ o \in Owner
                 /\ r \in Withdrawal
                 /\ r.amount \in Nat
                 /\ vaults[o].balance \in Nat
  <2> SUFFICES ASSUME InCheck
               PROVE  /\ o \in Owner
                      /\ r \in Withdrawal
                      /\ r.amount \in Nat
                      /\ vaults[o].balance \in Nat
    OBVIOUS
  <2>1. r \in Withdrawal
    BY DEF InCheck, Typed, TypeOK, TenantTypeOK, CheckFrame
  <2>2. o \in Owner /\ r.amount \in Nat
    BY <2>1 DEF Withdrawal
  <2>3. vaults[o].balance \in Nat
    BY <1>1, <2>2 DEF HasVault, Typed, TypeOK, TenantTypeOK, VaultOwner
  <2> QED
    BY <2>1, <2>2, <2>3
<1>3. ASSUME ~InCheck' PROVE OpenCallStillValid'
  BY <1>3 DEF OpenCallStillValid
<1>4. ASSUME UNCHANGED <<accountVars, pendingWithdrawals, frame>>
      PROVE  OpenCallStillValid'
  BY <1>1, <1>4 DEF accountVars, OpenCallStillValid, InCheck, HasVault, HasPending
<1>5. CASE Quiet \/ transferReturns
  BY <1>3, <1>4, <1>5 DEF Quiet, transferReturns, InCheck
<1>6. ASSUME NEW p \in Owner, HasVault(p)', vaults'[p].nonce = vaults[p].nonce,
             vaults'[p].balance \in Nat,
             vaults'[p].balance >= vaults[p].balance,
             \A x \in Owner : x # p => vaults'[x] = vaults[x],
             UNCHANGED <<policyControlEpoch, pendingWithdrawals, frame>>
      PROVE  OpenCallStillValid'
  <2> SUFFICES ASSUME InCheck PROVE Valid'
    BY <1>6 DEF OpenCallStillValid, InCheck
  <2>1. CASE o = p
    BY <1>1, <1>2, <1>6, <2>1 DEF HasPending
  <2>2. CASE o # p
    BY <1>1, <1>2, <1>6, <2>2 DEF HasVault, HasPending
  <2> QED
    BY <2>1, <2>2
<1>7. ASSUME NEW p \in Owner, Creates(p) PROVE OpenCallStillValid'
  <2>1. /\ ~HasVault(p)
        /\ \A x \in Owner : x # p => vaults'[x] = vaults[x]
        /\ UNCHANGED <<policyControlEpoch, pendingWithdrawals, frame>>
    BY <1>7 DEF Creates, createVault, Typed, TypeOK, TenantTypeOK
  <2> SUFFICES ASSUME InCheck PROVE Valid'
    BY <2>1 DEF OpenCallStillValid, InCheck
  <2> QED
    BY <1>1, <1>2, <2>1 DEF HasVault, HasPending
<1>8. ASSUME NEW p \in Owner, Deposits(p) PROVE OpenCallStillValid'
  <2>1. PICK value \in Amount : _deposit(p, value)
    BY <1>8 DEF Deposits
  <2>2. value \in Nat /\ HasVault(p)
    BY <2>1 DEF _deposit
  <2>3. vaults[p].balance \in Nat
    BY <2>2 DEF HasVault, Typed, TypeOK, TenantTypeOK, VaultOwner
  <2>4. /\ HasVault(p)'
        /\ vaults'[p].nonce = vaults[p].nonce
        /\ vaults'[p].balance = vaults[p].balance + value
        /\ \A x \in Owner : x # p => vaults'[x] = vaults[x]
    BY <2>1, <2>2, CreditEffects DEF _deposit
  <2> QED
    BY <1>6, <2>1, <2>2, <2>3, <2>4 DEF _deposit
<1>9. ASSUME NEW p \in Owner, Installs(p) PROVE OpenCallStillValid'
  BY <1>3, <1>9 DEF Installs, nonReentrant, InCheck
<1>10. ASSUME NEW p \in Owner, NEW guardians \in SUBSET Account, setGuardians(p, guardians)
       PROVE  OpenCallStillValid'
  BY <1>4, <1>10 DEF setGuardians
<1>11. ASSUME NEW x \in Withdrawal, Opens(x) PROVE OpenCallStillValid'
  <2>1. /\ HasVault(x.vaultOwner)
        /\ x.nonce = vaults[x.vaultOwner].nonce
        /\ x.amount <= vaults[x.vaultOwner].balance
        /\ UNCHANGED <<accountVars, pendingWithdrawals>>
    BY <1>11 DEF Opens, OpenCheck
  <2>2. /\ frame'.request = x
        /\ frame'.epoch = policyControlEpoch[x.vaultOwner]
        /\ frame'.fn = "queueWithdrawal" => ~HasPending(x.vaultOwner)
    BY <1>11 DEF Opens, OpenCheck
  <2>3. /\ x.vaultOwner \in Owner
        /\ x.amount \in Nat
        /\ vaults[x.vaultOwner].balance \in Nat
    BY <2>1 DEF Withdrawal, HasVault, Typed, TypeOK, TenantTypeOK, VaultOwner
  <2> QED
    BY <2>1, <2>2, <2>3 DEF OpenCallStillValid, accountVars, HasVault, HasPending
<1>12. ASSUME NEW x \in Withdrawal, Pays(x) \/ Queues(x) PROVE OpenCallStillValid'
  BY <1>3, <1>12 DEF Pays, Queues, WithdrawEffects, QueueEffects, InCheck
<1>13. ASSUME NEW x \in Withdrawal,
              \/ finalizeWithdrawal(x.vaultOwner, x)
              \/ cancelPendingWithdrawal(x.vaultOwner, x)
       PROVE  OpenCallStillValid'
  BY <1>3, <1>13 DEF finalizeWithdrawal, cancelPendingWithdrawal, Cancellable,
                     nonReentrant, InCheck
<1>14. ASSUME NEW x \in Withdrawal, NEW g \in Account,
              approveTreasuryWithdrawal(g, x.vaultOwner, x)
       PROVE  OpenCallStillValid'
  BY <1>4, <1>14 DEF approveTreasuryWithdrawal
<1> QED
  BY <1>5, <1>7, <1>8, <1>9, <1>10, <1>11, <1>12, <1>13, <1>14, StepKinds

-----------------------------------------------------------------------------
(* The inductive invariant. *)

LEMMA InitIInv == Init => IInv
<1> SUFFICES ASSUME Init PROVE IInv
  OBVIOUS
<1>1. Typed
  BY InitTyped
<1>2. SupportsConsistent
  BY DEF SupportsConsistent, Init, TenantInit, HasRecovery
<1>3. QuorumReachable
  BY FS_EmptySet DEF QuorumReachable, Init, TenantInit
<1>4. ApprovalsConsistent
  BY FS_EmptySet DEF ApprovalsConsistent, Init, TenantInit
<1>5. PendingUnderCurrentCredentials
  BY DEF PendingUnderCurrentCredentials, HasPending, Init, TenantInit
<1>6. OpenCallStillValid
  BY DEF OpenCallStillValid, InCheck, Init, TenantInit
<1>7. Conservation
  BY DEF Conservation, Balance, Refund, HasVault, HasPending, Init, TenantInit
<1> QED
  BY <1>1, <1>2, <1>3, <1>4, <1>5, <1>6, <1>7 DEF IInv

LEMMA NextIInv == IInv /\ [Next]_vars => IInv'
<1> SUFFICES ASSUME IInv, [Next]_vars PROVE IInv'
  OBVIOUS
<1>1. Typed'
  BY NextTypeOK, NextNothingWithoutVault DEF IInv, Typed
<1>2. SupportsConsistent'
  BY SupportsPreserved DEF IInv
<1>3. QuorumReachable'
  BY QuorumPreserved DEF IInv
<1>4. ApprovalsConsistent'
  BY ApprovalsPreserved DEF IInv
<1>5. PendingUnderCurrentCredentials'
  BY PendingPreserved DEF IInv
<1>6. OpenCallStillValid'
  BY OpenCallPreserved DEF IInv
<1>7. Conservation'
  BY ConservationPreserved DEF IInv
<1> QED
  BY <1>1, <1>2, <1>3, <1>4, <1>5, <1>6, <1>7 DEF IInv

\* The six invariants and the type invariant hold together.
THEOREM VaultInvariant == Spec => []IInv
  BY InitIInv, NextIInv, PTL DEF Spec

\* Conservation: no wei is created, lost or paid twice by createVault, deposit,
\* withdraw, queueWithdrawal, finalizeWithdrawal, cancelPendingWithdrawal,
\* rotateCredentials and executeRecovery in any order, nested or not.
THEOREM MoneyConserved == Spec => []Conservation
  BY VaultInvariant, PTL DEF IInv

\* FlagsConsistent: the counters that executeRecovery compares with the majority
\* and finalizeWithdrawal with the quorum are the numbers of present guardians
\* who support the present request and approved that very withdrawal.
THEOREM FlagsCounted == Spec => []FlagsConsistent
<1>1. IInv => FlagsConsistent
  BY DEF IInv, FlagsConsistent
<1> QED  BY <1>1, VaultInvariant, PTL

\* QuorumReachable: the guardians suffice for the quorum setTreasuryQuorumThreshold
\* armed.
THEOREM QuorumAlwaysReachable == Spec => []QuorumReachable
  BY VaultInvariant, PTL DEF IInv

\* OpenCallStillValid: what withdraw and queueWithdrawal checked before they
\* called the policy engine is still so when it returns.
THEOREM ReentrancyHarmless == Spec => []OpenCallStillValid
  BY VaultInvariant, PTL DEF IInv

\* PendingUnderCurrentCredentials: what rotateCredentials and executeRecovery
\* leave in the queue was signed by the credentials in force.
THEOREM NothingQueuedByOldCredentials == Spec => []PendingUnderCurrentCredentials
  BY VaultInvariant, PTL DEF IInv

-----------------------------------------------------------------------------
(* What a step may never do. *)

\* A counted majority is a majority.
LEMMA MajorityIsApproval ==
  ASSUME Typed, SupportsConsistent, NEW o \in Owner, HasRecovery(o)
  PROVE  Approved(o) <=> recoveryRequests[o].supportCount >= RequiredRecoverySupports(o)
<1>1. recoveryRequests[o].supportCount = Cardinality(recoverySupports[o])
  BY DEF SupportsConsistent
<1>2. /\ Cardinality(recoverySupports[o]) \in Nat
      /\ Cardinality(vaultGuardians[o]) \in Nat
  BY GuardianFinite, FS_Subset, FS_CardinalityType DEF SupportsConsistent
<1> QED
  BY <1>1, <1>2 DEF Approved, RequiredRecoverySupports

LEMMA NeverDisplaced ==
  ASSUME Typed, SupportsConsistent, [Next]_vars, NEW q \in Owner
  PROVE  KeepsRecovery(q)
<1> SUFFICES ASSUME Approved(q) \/ Immature(q)
             PROVE  recoveryRequests'[q] = NoRecovery \/ SameRequest(q)
  BY DEF KeepsRecovery
<1> DEFINE Goal == recoveryRequests'[q] = NoRecovery \/ SameRequest(q)
<1>0. HasRecovery(q)
  BY DEF Approved, Immature
<1>1. ASSUME recoveryRequests'[q] = recoveryRequests[q],
             recoverySupports'[q] = recoverySupports[q]
      PROVE  Goal
  BY <1>0, <1>1 DEF SameRequest, HasRecovery
<1>2. ASSUME NEW o \in Owner, EndRecovery(o) PROVE Goal
  BY <1>1, <1>2 DEF EndRecovery, Typed, TypeOK, TenantTypeOK
<1>3. ASSUME NEW o \in Owner, RecoveryCall(o) PROVE Goal
  <2>1. ASSUME NEW guardians \in SUBSET Account, setGuardians(o, guardians) PROVE Goal
    BY <1>2, <2>1 DEF setGuardians
  <2>2. ASSUME NEW g \in Account, NEW signer \in Signer, NEW key \in PublicKey,
               initiateRecovery(g, o, signer, key)
        PROVE  Goal
    <3>1. o # q
      <4> SUFFICES ASSUME o = q PROVE FALSE
        OBVIOUS
      <4>1. /\ now >= recoveryRequests[q].executeAfter
            /\ recoveryRequests[q].supportCount < RequiredRecoverySupports(q)
        BY <1>0, <2>2 DEF initiateRecovery, ReplaceableRecovery
      <4>2. recoveryRequests[q] \in RecoveryRequest
        BY <1>0 DEF HasRecovery, Typed, TypeOK, TenantTypeOK
      <4>3. ~Immature(q)
        BY <4>1, <4>2 DEF Immature, RecoveryRequest, Typed, TypeOK, GovTypeOK
      <4>4. RequiredRecoverySupports(q) \in Nat
        BY GuardianFinite DEF RequiredRecoverySupports
      <4>5. ~Approved(q)
        BY <1>0, <4>1, <4>2, <4>4, MajorityIsApproval DEF RecoveryRequest
      <4> QED
        BY <4>3, <4>5
    <3> QED
      BY <1>1, <2>2, <3>1 DEF initiateRecovery, Typed, TypeOK, TenantTypeOK
  <2>3. ASSUME NEW g \in Account, supportRecovery(g, o) PROVE Goal
    <3>1. CASE o # q
      BY <1>1, <2>3, <3>1 DEF supportRecovery, Typed, TypeOK, TenantTypeOK
    <3>2. CASE o = q
      <4>1. recoveryRequests[q] \in RecoveryRequest
        BY <1>0 DEF HasRecovery, Typed, TypeOK, TenantTypeOK
      <4>2. /\ recoveryRequests'[q] =
                 [newEcdsaSigner |-> recoveryRequests[q].newEcdsaSigner,
                  newPQPublicKey |-> recoveryRequests[q].newPQPublicKey,
                  executeAfter |-> recoveryRequests[q].executeAfter,
                  supportCount |-> recoveryRequests[q].supportCount + 1]
            /\ recoverySupports'[q] = recoverySupports[q] \cup {g}
        BY <2>3, <3>2, <4>1 DEF supportRecovery, Typed, TypeOK, TenantTypeOK, RecoveryRequest
      <4>3. recoveryRequests'[q] \in RecoveryRequest
        BY <4>1, <4>2 DEF RecoveryRequest
      <4> QED
        BY <4>2, <4>3 DEF SameRequest
    <3> QED
      BY <3>1, <3>2
  <2>4. CASE executeRecovery(o)
    BY <1>2, <2>4 DEF executeRecovery
  <2>5. CASE cancelRecovery(o)
    BY <1>2, <2>5 DEF cancelRecovery
  <2> QED
    BY <1>3, <2>1, <2>2, <2>3, <2>4, <2>5 DEF RecoveryCall
<1>4. ASSUME UNCHANGED recoveryVars PROVE Goal
  BY <1>1, <1>4 DEF recoveryVars
<1>5. ASSUME NEW o \in Owner, AccountCall(o) PROVE UNCHANGED recoveryVars
  BY <1>5 DEF AccountCall, createVault, _deposit, rotateCredentials
<1>6. ASSUME NEW r \in Withdrawal, WithdrawalCall(r) PROVE UNCHANGED recoveryVars
  BY <1>6 DEF WithdrawalCall, withdraw, queueWithdrawal, WithdrawEffects, QueueEffects,
              OpenCheck, finalizeWithdrawal, cancelPendingWithdrawal,
              approveTreasuryWithdrawal
<1>7. ASSUME checkReturns \/ transferReturns PROVE UNCHANGED recoveryVars
  BY <1>7 DEF checkReturns, transferReturns, WithdrawEffects, QueueEffects
<1>8. ASSUME OperatorCall \/ Environment \/ UNCHANGED vars PROVE UNCHANGED recoveryVars
  BY <1>8 DEF OperatorCall, Environment, vars, tenantVars, recoveryVars
<1>9. ASSUME NEW o \in Owner, NEW t \in 0..MAX_GUARDIANS,
             setTreasuryQuorumThreshold(o, t)
      PROVE  UNCHANGED recoveryVars
  BY <1>9 DEF setTreasuryQuorumThreshold
<1> QED
  BY <1>3, <1>4, <1>5, <1>6, <1>7, <1>8, <1>9 DEF Next

\* RecoveryNotDisplaced: a guardian's initiateRecovery never exchanges a request
\* that has not matured or that a majority supports.
THEOREM RecoveryNeverDisplaced == Spec => RecoveryNotDisplaced
<1>1. IInv /\ [Next]_vars => [\A o \in Owner : KeepsRecovery(o)]_vars
  BY NeverDisplaced DEF IInv
<1> QED
  BY <1>1, VaultInvariant, PTL DEF Spec, RecoveryNotDisplaced

LEMMA PaymentHonoursTerms ==
  ASSUME Typed, OpenCallStillValid, ApprovalsConsistent, [Next]_vars, NEW q \in Owner
  PROVE  HonoursTerms(q)
<1> DEFINE p == pendingWithdrawals[q]
<1> SUFFICES ASSUME HasPending(q), pendingWithdrawals'[q] = NoPending,
                    paidOut'[q] # paidOut[q]
             PROVE  /\ now >= p.readyAt
                    /\ Cardinality(treasuryApprovals[p.operationId] \cap vaultGuardians[q])
                          >= treasuryQuorumThreshold[q]
                    /\ Permits(p.policyEngineAtQueue)
                    /\ Permits(policyEngine)
  BY DEF HonoursTerms
<1>1. \E r \in Withdrawal : r.vaultOwner = q /\ finalizeWithdrawal(q, r)
  <2>1. ASSUME Quiet \/ transferReturns PROVE FALSE
    BY <2>1 DEF Quiet, transferReturns, historyVars
  <2>2. ASSUME NEW o \in Owner, \/ Creates(o) \/ Deposits(o) \/ Installs(o)
                                \/ \E guardians \in SUBSET Account :
                                      setGuardians(o, guardians)
        PROVE  FALSE
    BY <2>2 DEF Creates, createVault, Deposits, _deposit, Installs, setGuardians, historyVars
  <2>3. ASSUME NEW r \in Withdrawal,
               \/ Opens(r) \/ cancelPendingWithdrawal(r.vaultOwner, r)
               \/ \E g \in Account : approveTreasuryWithdrawal(g, r.vaultOwner, r)
               \/ Queues(r)
        PROVE  FALSE
    BY <2>3 DEF Opens, OpenCheck, cancelPendingWithdrawal, approveTreasuryWithdrawal,
                Queues, QueueEffects, historyVars
  <2>4. ASSUME NEW r \in Withdrawal, Pays(r) PROVE FALSE
    BY <2>4 DEF Pays, WithdrawEffects, HasPending
  <2>5. ASSUME NEW r \in Withdrawal, finalizeWithdrawal(r.vaultOwner, r)
        PROVE  r.vaultOwner = q
    BY <2>5 DEF finalizeWithdrawal, Typed, TypeOK, TenantTypeOK
  <2> QED
    BY <2>1, <2>2, <2>3, <2>4, <2>5, StepKinds
<1>2. PICK r \in Withdrawal : r.vaultOwner = q /\ finalizeWithdrawal(q, r)
  BY <1>1
<1>3. /\ p.operationId = r
      /\ now >= p.readyAt
      /\ treasuryQuorumThreshold[q] > 0 =>
            treasuryApprovalCount[r] >= treasuryQuorumThreshold[q]
      /\ PermitsQueued(p)
  BY <1>2 DEF finalizeWithdrawal, IsPending
<1>4. /\ treasuryApprovalCount[r] = Cardinality(treasuryApprovals[r])
      /\ treasuryApprovals[r] \cap vaultGuardians[q] = treasuryApprovals[r]
  BY <1>2 DEF ApprovalsConsistent
<1>5. /\ treasuryQuorumThreshold[q] \in Nat
      /\ treasuryApprovalCount[r] \in Nat
  BY DEF Typed, TypeOK, TenantTypeOK
<1>6. treasuryApprovalCount[r] >= treasuryQuorumThreshold[q]
  BY <1>3, <1>5
<1>7. Cardinality(treasuryApprovals[p.operationId] \cap vaultGuardians[q])
         >= treasuryQuorumThreshold[q]
  BY <1>3, <1>4, <1>6
<1> QED
  BY <1>3, <1>7 DEF PermitsQueued

\* QueuedPayoutHonoursTerms: finalizeWithdrawal pays after the delay of queue
\* time, with the approvals of a quorum of present guardians, and with the
\* permission of the engine of queue time and of the engine in force.
THEOREM PayoutsHonourTerms == Spec => QueuedPayoutHonoursTerms
<1>1. IInv /\ [Next]_vars => [\A o \in Owner : HonoursTerms(o)]_vars
  BY PaymentHonoursTerms DEF IInv
<1> QED
  BY <1>1, VaultInvariant, PTL DEF Spec, QueuedPayoutHonoursTerms

LEMMA PaymentUsesAuthorisation ==
  ASSUME Typed, OpenCallStillValid, [Next]_vars, NEW q \in Owner
  PROVE  PaysOnce(q)
<1> SUFFICES ASSUME paidOut'[q] # paidOut[q]
             PROVE  \/ vaults'[q].nonce = vaults[q].nonce + 1
                    \/ HasPending(q) /\ pendingWithdrawals'[q] = NoPending
  BY DEF PaysOnce
<1>1. ASSUME Quiet \/ transferReturns PROVE FALSE
  BY <1>1 DEF Quiet, transferReturns, historyVars
<1>2. ASSUME NEW o \in Owner, \/ Creates(o) \/ Deposits(o) \/ Installs(o)
                              \/ \E guardians \in SUBSET Account :
                                    setGuardians(o, guardians)
      PROVE  FALSE
  BY <1>2 DEF Creates, createVault, Deposits, _deposit, Installs, setGuardians, historyVars
<1>3. ASSUME NEW r \in Withdrawal,
             \/ Opens(r) \/ cancelPendingWithdrawal(r.vaultOwner, r) \/ Queues(r)
             \/ \E g \in Account : approveTreasuryWithdrawal(g, r.vaultOwner, r)
      PROVE  FALSE
  BY <1>3 DEF Opens, OpenCheck, cancelPendingWithdrawal, approveTreasuryWithdrawal,
              Queues, QueueEffects, historyVars
<1>4. ASSUME NEW r \in Withdrawal, Pays(r)
      PROVE  vaults'[q].nonce = vaults[q].nonce + 1
  <2>1. r.vaultOwner = q
    BY <1>4 DEF Pays, WithdrawEffects, Typed, TypeOK, TenantTypeOK
  <2> QED
    BY <1>4, <2>1, DebitEffects DEF Pays, WithdrawEffects
<1>5. ASSUME NEW r \in Withdrawal, finalizeWithdrawal(r.vaultOwner, r)
      PROVE  HasPending(q) /\ pendingWithdrawals'[q] = NoPending
  <2>1. r.vaultOwner = q
    BY <1>5 DEF finalizeWithdrawal, Typed, TypeOK, TenantTypeOK
  <2> QED
    BY <1>5, <2>1, DequeueEffects DEF finalizeWithdrawal, IsPending
<1> QED
  BY <1>1, <1>2, <1>3, <1>4, <1>5, StepKinds

\* EachAuthorisationPaysOnce: withdraw burns the nonce it was signed for and
\* finalizeWithdrawal the queue entry, in the same step as they pay.
THEOREM AuthorisationsPayOnce == Spec => EachAuthorisationPaysOnce
<1>1. IInv /\ [Next]_vars => [\A o \in Owner : PaysOnce(o)]_vars
  BY PaymentUsesAuthorisation DEF IInv
<1> QED
  BY <1>1, VaultInvariant, PTL DEF Spec, EachAuthorisationPaysOnce

LEMMA ChangeIsComplete ==
  ASSUME Typed, SupportsConsistent, OpenCallStillValid, [Next]_vars, NEW q \in Owner
  PROVE  CompleteChange(q)
<1> SUFFICES ASSUME CredentialChange(q)
             PROVE  /\ vaults'[q].nonce = vaults[q].nonce + 1
                    /\ policyControlEpoch'[q] = policyControlEpoch[q] + 1
                    /\ pendingWithdrawals'[q] = NoPending
                    /\ recoveryRequests'[q] # recoveryRequests[q] =>
                          Approved(q) /\ ~Immature(q)
  BY DEF CompleteChange
<1>1. ASSUME vaults'[q] = vaults[q] PROVE FALSE
  BY <1>1 DEF CredentialChange
<1>2. Installs(q)
  <2>1. ASSUME Quiet \/ transferReturns PROVE FALSE
    BY <1>1, <2>1 DEF Quiet, transferReturns, accountVars
  <2>2. ASSUME NEW o \in Owner, Creates(o) PROVE FALSE
    BY <1>1, <2>2 DEF Creates, createVault, CredentialChange, Typed, TypeOK, TenantTypeOK
  <2>3. ASSUME NEW o \in Owner, Deposits(o) PROVE FALSE
    <3>1. PICK value \in Amount : _deposit(o, value)
      BY <2>3 DEF Deposits
    <3>2. value \in Nat
      OBVIOUS
    <3>3. /\ vaults'[o].ecdsaSigner = vaults[o].ecdsaSigner
          /\ vaults'[o].pqPublicKey = vaults[o].pqPublicKey
          /\ \A p \in Owner : p # o => vaults'[p] = vaults[p]
      BY <3>1, <3>2, CreditEffects DEF _deposit
    <3> QED
      BY <1>1, <3>3 DEF CredentialChange
  <2>4. ASSUME NEW o \in Owner, Installs(o) PROVE o = q
    BY <1>1, <2>4, InstallEffects
  <2>5. ASSUME NEW o \in Owner, NEW guardians \in SUBSET Account,
               setGuardians(o, guardians)
        PROVE  FALSE
    BY <1>1, <2>5 DEF setGuardians, accountVars
  <2>6. ASSUME NEW r \in Withdrawal,
               \/ Opens(r) \/ finalizeWithdrawal(r.vaultOwner, r)
               \/ \E g \in Account : approveTreasuryWithdrawal(g, r.vaultOwner, r)
        PROVE  FALSE
    BY <1>1, <2>6 DEF Opens, OpenCheck, finalizeWithdrawal, approveTreasuryWithdrawal,
                      accountVars
  <2>7. ASSUME NEW r \in Withdrawal, Debit(r), HasVault(r.vaultOwner), r.nonce < MaxNonce
        PROVE  FALSE
    <3>1. /\ vaults'[r.vaultOwner] =
               [ecdsaSigner |-> vaults[r.vaultOwner].ecdsaSigner,
                pqPublicKey |-> vaults[r.vaultOwner].pqPublicKey,
                nonce |-> r.nonce + 1,
                balance |-> vaults[r.vaultOwner].balance - r.amount,
                mode |-> vaults[r.vaultOwner].mode]
          /\ \A p \in Owner : p # r.vaultOwner => vaults'[p] = vaults[p]
      BY <2>7, DebitType DEF Typed
    <3>2. /\ vaults'[r.vaultOwner].ecdsaSigner = vaults[r.vaultOwner].ecdsaSigner
          /\ vaults'[r.vaultOwner].pqPublicKey = vaults[r.vaultOwner].pqPublicKey
      BY <3>1
    <3> QED
      BY <1>1, <3>1, <3>2 DEF CredentialChange
  <2>8. ASSUME NEW r \in Withdrawal, Pays(r) \/ Queues(r) PROVE FALSE
    BY <2>7, <2>8 DEF Pays, Queues, WithdrawEffects, QueueEffects
  <2>9. ASSUME NEW r \in Withdrawal, cancelPendingWithdrawal(r.vaultOwner, r) PROVE FALSE
    <3> DEFINE o == r.vaultOwner
    <3>1. o \in Owner /\ r.amount \in Nat
      BY DEF Withdrawal
    <3>2. HasVault(o) /\ vaults' = [vaults EXCEPT ![o].balance = @ + r.amount]
      BY <2>9, <3>1 DEF cancelPendingWithdrawal, Cancellable, IsPending, Typed,
                        NothingWithoutVault
    <3>3. /\ vaults'[o].ecdsaSigner = vaults[o].ecdsaSigner
          /\ vaults'[o].pqPublicKey = vaults[o].pqPublicKey
          /\ \A p \in Owner : p # o => vaults'[p] = vaults[p]
      BY <3>1, <3>2, CreditEffects
    <3> QED
      BY <1>1, <3>3 DEF CredentialChange
  <2> QED
    BY <2>1, <2>2, <2>3, <2>4, <2>5, <2>6, <2>8, <2>9, StepKinds
<1>3. /\ vaults'[q].nonce = vaults[q].nonce + 1
      /\ policyControlEpoch'[q] = policyControlEpoch[q] + 1
      /\ pendingWithdrawals'[q] = NoPending
  BY <1>2, InstallEffects, DequeueEffects
<1>4. ASSUME recoveryRequests'[q] # recoveryRequests[q]
      PROVE  Approved(q) /\ ~Immature(q)
  <2>1. executeRecovery(q)
    <3>1. ASSUME NEW o \in Owner, AccountCall(o) PROVE UNCHANGED recoveryVars
      BY <3>1 DEF AccountCall, createVault, _deposit, rotateCredentials
    <3>2. ASSUME NEW o \in Owner, RecoveryCall(o), ~executeRecovery(o)
          PROVE  UNCHANGED vaults
      BY <3>2 DEF RecoveryCall, setGuardians, initiateRecovery, supportRecovery,
                  cancelRecovery, accountVars
    <3>3. ASSUME NEW o \in Owner, executeRecovery(o) PROVE o = q
      BY <1>4, <3>3 DEF executeRecovery, EndRecovery, Typed, TypeOK, TenantTypeOK
    <3>4. ASSUME NEW r \in Withdrawal, WithdrawalCall(r) PROVE UNCHANGED recoveryVars
      BY <3>4 DEF WithdrawalCall, withdraw, queueWithdrawal, WithdrawEffects, QueueEffects,
                  OpenCheck, finalizeWithdrawal, cancelPendingWithdrawal,
                  approveTreasuryWithdrawal
    <3>5. ASSUME checkReturns \/ transferReturns PROVE UNCHANGED recoveryVars
      BY <3>5 DEF checkReturns, transferReturns, WithdrawEffects, QueueEffects
    <3>6. ASSUME OperatorCall \/ Environment \/ UNCHANGED vars PROVE UNCHANGED recoveryVars
      BY <3>6 DEF OperatorCall, Environment, vars, tenantVars, recoveryVars
    <3>7. ASSUME NEW o \in Owner, NEW t \in 0..MAX_GUARDIANS,
                 setTreasuryQuorumThreshold(o, t)
          PROVE  UNCHANGED recoveryVars
      BY <3>7 DEF setTreasuryQuorumThreshold
    <3>8. ~UNCHANGED recoveryVars /\ ~UNCHANGED vaults
      BY <1>1, <1>4 DEF recoveryVars
    <3> QED
      BY <3>1, <3>2, <3>3, <3>4, <3>5, <3>6, <3>7, <3>8 DEF Next
  <2>2. /\ HasRecovery(q)
        /\ now >= recoveryRequests[q].executeAfter
        /\ recoveryRequests[q].supportCount >= RequiredRecoverySupports(q)
    BY <2>1 DEF executeRecovery, ExecutableRecovery
  <2>3. recoveryRequests[q].executeAfter \in Nat /\ now \in Nat
    BY <2>2 DEF HasRecovery, Typed, TypeOK, TenantTypeOK, GovTypeOK, RecoveryRequest
  <2> QED
    BY <2>2, <2>3, MajorityIsApproval DEF Immature
<1> QED
  BY <1>3, <1>4

\* CredentialChangesAreComplete: rotateCredentials and executeRecovery change
\* credentials, nonce, policy-control epoch and queue together, and a recovery
\* takes over only when it is mature and has its majority.
THEOREM CredentialsChangeCompletely == Spec => CredentialChangesAreComplete
<1>1. IInv /\ [Next]_vars => [\A o \in Owner : CompleteChange(o)]_vars
  BY ChangeIsComplete DEF IInv
<1> QED
  BY <1>1, VaultInvariant, PTL DEF Spec, CredentialChangesAreComplete
=============================================================================
