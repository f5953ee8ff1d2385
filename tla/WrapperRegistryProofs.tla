----------------------- MODULE WrapperRegistryProofs -----------------------
(***************************************************************************)
(* The registry of wrappers, for any number of operators, consumers,       *)
(* chains and wrappers: what it publishes is final, a halt can always be   *)
(* published and is heeded, and the consumers of an identity on a chain    *)
(* are all on one wrapper.                                                 *)
(***************************************************************************)
EXTENDS WrapperRegistry, FiniteSetTheorems, TLAPS

-----------------------------------------------------------------------------
(* Logs. *)

LEMMA FactsAreOfTwoKinds ==
  ASSUME NEW f \in Fact
  PROVE  /\ f.wrapper \in Wrapper
         /\ f.kind \in {"registered", "halted"}
         /\ f.kind = "registered" => f = Registered(f.wrapper)
         /\ f.kind = "halted" => f = Halted(f.wrapper)
BY DEF Fact, Registered, Halted

LEMMA FactsDiffer ==
  ASSUME NEW w \in Wrapper
  PROVE  /\ Registered(w) \in Fact /\ Halted(w) \in Fact
         /\ Registered(w).kind = "registered" /\ Registered(w).wrapper = w
         /\ Halted(w).kind = "halted" /\ Halted(w).wrapper = w
BY DEF Fact, Registered, Halted

\* s is how t begins.
Begins(s, t) == Len(s) <= Len(t) /\ \A i \in 1..Len(s) : s[i] = t[i]

LEMMA PrefixBegins ==
  ASSUME NEW s \in Seq(Fact), NEW t \in Seq(Fact), IsPrefix(s, t)
  PROVE  Begins(s, t)
<1>1. Len(s) <= Len(t) /\ SubSeq(s, 1, Len(s)) = SubSeq(t, 1, Len(s))
  BY DEF IsPrefix
<1>2. ASSUME NEW i \in 1..Len(s) PROVE s[i] = t[i]
  <2>1. SubSeq(s, 1, Len(s))[i] = s[i] /\ SubSeq(t, 1, Len(s))[i] = t[i]
    BY <1>1
  <2> QED
    BY <1>1, <2>1
<1> QED
  BY <1>1, <1>2 DEF Begins

LEMMA TakenBegins ==
  ASSUME NEW t \in Seq(Fact), NEW n \in 0..Len(t)
  PROVE  SubSeq(t, 1, n) \in Seq(Fact) /\ Begins(SubSeq(t, 1, n), t)
BY DEF Begins

LEMMA AppendedBegins ==
  ASSUME NEW s \in Seq(Fact), NEW f \in Fact
  PROVE  /\ Append(s, f) \in Seq(Fact)
         /\ Len(Append(s, f)) = Len(s) + 1
         /\ Append(s, f)[Len(s) + 1] = f
         /\ \A i \in 1..Len(s) : Append(s, f)[i] = s[i]
OBVIOUS

LEMMA NamedInLog ==
  ASSUME NEW s \in Seq(Fact), NEW w \in Wrapper
  PROVE  /\ w \in registered(s) <=> \E i \in 1..Len(s) : s[i] = Registered(w)
         /\ w \in recordedHalted(s) <=> \E i \in 1..Len(s) : s[i] = Halted(w)
<1>1. DOMAIN s = 1..Len(s)
  OBVIOUS
<1> QED
  BY <1>1 DEF registered, recordedHalted, ToSet

LEMMA NamedAfterAppend ==
  ASSUME NEW s \in Seq(Fact), NEW w \in Wrapper
  PROVE  /\ registered(Append(s, Registered(w))) = registered(s) \cup {w}
         /\ recordedHalted(Append(s, Registered(w))) = recordedHalted(s)
         /\ haltedIn(Append(s, Registered(w))) = haltedIn(s)
<1> DEFINE t == Append(s, Registered(w))
<1>0. Registered(w) \in Fact /\ \A v \in Wrapper : Registered(w) # Halted(v)
  BY FactsDiffer
<1>1. /\ t \in Seq(Fact) /\ Len(t) = Len(s) + 1 /\ t[Len(s) + 1] = Registered(w)
      /\ \A i \in 1..Len(s) : t[i] = s[i]
  BY <1>0, AppendedBegins
<1>2. Len(s) \in Nat
  OBVIOUS
<1> HIDE DEF t
<1>3. ASSUME NEW f PROVE (\E i \in 1..Len(t) : t[i] = f)
                           <=> f = Registered(w) \/ \E i \in 1..Len(s) : s[i] = f
  <2>1. ASSUME NEW i \in 1..Len(t) PROVE i \in 1..Len(s) \/ i = Len(s) + 1
    BY <1>1, <1>2
  <2>2. Len(s) + 1 \in 1..Len(t) /\ \A i \in 1..Len(s) : i \in 1..Len(t)
    BY <1>1, <1>2
  <2> QED
    BY <1>1, <2>1, <2>2
<1>4. \A v \in Wrapper : v \in registered(t) <=> v \in registered(s) \/ v = w
  <2> SUFFICES ASSUME NEW v \in Wrapper
               PROVE  v \in registered(t) <=> v \in registered(s) \/ v = w
    OBVIOUS
  <2>1. Registered(v) = Registered(w) <=> v = w
    BY FactsDiffer
  <2> QED
    BY <1>1, <1>3, <2>1, NamedInLog
<1>5. \A v \in Wrapper : v \in recordedHalted(t) <=> v \in recordedHalted(s)
  BY <1>0, <1>1, <1>3, NamedInLog
<1>6. registered(t) = registered(s) \cup {w}
  BY <1>4 DEF registered
<1>7. recordedHalted(t) = recordedHalted(s)
  BY <1>5 DEF recordedHalted
<1> QED
  BY <1>6, <1>7 DEF haltedIn, t

\* What the log's rules ask of one more fact.
Fits(f, log) ==
    IF f.kind = "registered"
    THEN f.wrapper \notin registered(log) /\ IdentityOf[f.wrapper] \notin haltedIn(log)
    ELSE f.wrapper \in registered(log) \ recordedHalted(log)

LEMMA ValidAfterAppend ==
  ASSUME NEW s \in Seq(Fact), NEW f \in Fact, registryValid(s), Fits(f, s)
  PROVE  registryValid(Append(s, f))
<1> DEFINE t == Append(s, f)
<1>1. /\ t \in Seq(Fact) /\ Len(t) = Len(s) + 1 /\ t[Len(s) + 1] = f
      /\ \A i \in 1..Len(s) : t[i] = s[i]
  BY AppendedBegins
<1>2. DOMAIN t = 1..(Len(s) + 1) /\ DOMAIN s = 1..Len(s)
  BY <1>1
<1>3. \A i \in 1..(Len(s) + 1) : SubSeq(t, 1, i - 1) = SubSeq(s, 1, i - 1)
  OBVIOUS
<1>4. SubSeq(s, 1, (Len(s) + 1) - 1) = s
  OBVIOUS
<1> HIDE DEF t
<1>5. ASSUME NEW i \in 1..Len(s) PROVE Fits(t[i], SubSeq(t, 1, i - 1))
  <2>1. i \in DOMAIN s /\ t[i] = s[i] /\ SubSeq(t, 1, i - 1) = SubSeq(s, 1, i - 1)
    BY <1>1, <1>2, <1>3
  <2> QED
    BY <2>1 DEF registryValid, Fits
<1>6. Fits(t[Len(s) + 1], SubSeq(t, 1, (Len(s) + 1) - 1))
  <2>1. Len(s) + 1 \in 1..(Len(s) + 1)
    OBVIOUS
  <2> QED
    BY <1>1, <1>3, <1>4, <2>1
<1>7. \A i \in DOMAIN t : i \in 1..Len(s) \/ i = Len(s) + 1
  BY <1>2
<1>8. \A i \in DOMAIN t : Fits(t[i], SubSeq(t, 1, i - 1))
  BY <1>5, <1>6, <1>7
<1> QED
  BY <1>8 DEF registryValid, Fits, t

-----------------------------------------------------------------------------
(* The inductive invariant. *)

Script ==
    {Idle} \cup [at : {"registering"}] \cup [at : {"deploying"}, wrapper : Wrapper]
    \cup [at : {"binding", "sending"}, consumer : Consumer, wrapper : Wrapper, late : BOOLEAN]

Typed ==
    /\ TypeOK
    /\ run \in [Operator -> Script]

\* What was final stays: a reorganisation goes back to it and no further.
FinalInLatest ==
    \A w \in Wrapper :
        /\ final[w] = "halted" => latest[w] = "halted"
        /\ final[w] # Nothing => latest[w] # Nothing

\* What a fact says, final on its chain.
Shown(f) ==
    IF f.kind = "halted" THEN final[f.wrapper] = "halted" ELSE final[f.wrapper] # Nothing

\* Published or not, in whatever checkout.
FactsShown ==
    /\ \A i \in DOMAIN main : Shown(main[i])
    /\ \A o \in Operator : \A i \in DOMAIN clone[o] : Shown(clone[o][i])

\* A script that binds keeps records that were published, for a consumer of the
\* wrapper's chain, and knows of every halt published before it started.
BindsByPublished ==
    \A o \in Operator :
        run[o].at = "binding" =>
            /\ Begins(clone[o], main)
            /\ ChainOf[run[o].wrapper] = ChainOf[run[o].consumer]
            /\ run[o].late <=> IdentityOf[run[o].wrapper] \in haltedIn(clone[o])

\* The first wrapper of its identity and chain that the log registers.
First(v, log) ==
    \E i \in DOMAIN log :
        /\ log[i] = Registered(v)
        /\ \A j \in 1..(i - 1) :
              (/\ log[j].kind = "registered"
               /\ ChainOf[log[j].wrapper] = ChainOf[v]
               /\ IdentityOf[log[j].wrapper] = IdentityOf[v])
              => log[j].wrapper = v

\* Consumers are let through to such ones only.
AdmittedAreFirst == \A c \in Consumer : \A v \in admittedTo(c) : First(v, main)

IInv ==
    /\ Typed
    /\ FinalInLatest
    /\ FactsShown
    /\ registryValid(main)
    /\ BindsByPublished
    /\ NoneLetThroughLate
    /\ AdmittedAreFirst

-----------------------------------------------------------------------------
(* First *)

LEMMA FirstExtends ==
  ASSUME NEW s \in Seq(Fact), NEW t \in Seq(Fact), Begins(s, t), NEW v, First(v, s)
  PROVE  First(v, t)
<1>1. PICK i \in DOMAIN s :
         /\ s[i] = Registered(v)
         /\ \A j \in 1..(i - 1) :
               (/\ s[j].kind = "registered"
                /\ ChainOf[s[j].wrapper] = ChainOf[v]
                /\ IdentityOf[s[j].wrapper] = IdentityOf[v])
               => s[j].wrapper = v
  BY DEF First
<1>2. i \in 1..Len(s) /\ i \in DOMAIN t /\ Len(s) \in Nat
  BY DEF Begins
<1>3. \A j \in 1..i : t[j] = s[j]
  BY <1>2 DEF Begins
<1>4. i \in 1..i /\ \A j \in 1..(i - 1) : j \in 1..i
  BY <1>2
<1> QED
  BY <1>1, <1>2, <1>3, <1>4 DEF First

LEMMA FirstIsOne ==
  ASSUME NEW s \in Seq(Fact), NEW v \in Wrapper, NEW w \in Wrapper, First(v, s), First(w, s),
         ChainOf[v] = ChainOf[w], IdentityOf[v] = IdentityOf[w]
  PROVE  v = w
<1>1. PICK i \in DOMAIN s :
         /\ s[i] = Registered(v)
         /\ \A j \in 1..(i - 1) :
               (/\ s[j].kind = "registered"
                /\ ChainOf[s[j].wrapper] = ChainOf[v]
                /\ IdentityOf[s[j].wrapper] = IdentityOf[v])
               => s[j].wrapper = v
  BY DEF First
<1>2. PICK k \in DOMAIN s :
         /\ s[k] = Registered(w)
         /\ \A j \in 1..(k - 1) :
               (/\ s[j].kind = "registered"
                /\ ChainOf[s[j].wrapper] = ChainOf[w]
                /\ IdentityOf[s[j].wrapper] = IdentityOf[w])
               => s[j].wrapper = w
  BY DEF First
<1>3. i \in Nat /\ k \in Nat /\ i >= 1 /\ k >= 1
  OBVIOUS
<1>4. CASE i = k
  <2>1. Registered(v) = Registered(w)
    BY <1>1, <1>2, <1>4
  <2>2. Registered(v).wrapper = v /\ Registered(w).wrapper = w
    BY FactsDiffer
  <2> QED
    BY <2>1, <2>2
<1>5. CASE i < k
  <2>1. i \in 1..(k - 1)
    BY <1>3, <1>5
  <2> QED
    BY <1>1, <1>2, <2>1, FactsDiffer
<1>6. CASE k < i
  <2>1. k \in 1..(i - 1)
    BY <1>3, <1>6
  <2> QED
    BY <1>1, <1>2, <2>1, FactsDiffer
<1> QED
  BY <1>3, <1>4, <1>5, <1>6

\* The gate: no other wrapper of the kind is registered, since it would be halted
\* with the identity or active beside this one.
LEMMA BindableIsFirst ==
  ASSUME NEW log \in Seq(Fact), NEW c \in Consumer, NEW w \in Wrapper,
         ChainOf[w] = ChainOf[c], bindable(c, w, log)
  PROVE  First(w, log)
<1>1. ASSUME NEW v \in registered(log), ChainOf[v] = ChainOf[w], IdentityOf[v] = IdentityOf[w]
      PROVE  v = w
  <2> SUFFICES ASSUME v # w PROVE FALSE
    OBVIOUS
  <2>1. v \in registeredOn(ChainOf[c], log) /\ v \in Wrapper
    BY <1>1 DEF registeredOn, registered
  <2>2. v \in twins(w, log)
    BY <1>1, <2>1 DEF twins, registeredOn
  <2>3. latest[v] # "active"
    BY <2>2 DEF bindable
  <2>4. v \in recordedHalted(log)
    BY <2>1, <2>3 DEF bindable, agreesWithChain
  <2>5. IdentityOf[w] \in haltedIn(log)
    BY <1>1, <2>4 DEF haltedIn
  <2> QED
    BY <2>5 DEF bindable
<1>2. PICK i \in 1..Len(log) : log[i] = Registered(w)
  BY NamedInLog DEF bindable
<1>3. ASSUME NEW j \in 1..(i - 1), log[j].kind = "registered",
             ChainOf[log[j].wrapper] = ChainOf[w],
             IdentityOf[log[j].wrapper] = IdentityOf[w]
      PROVE  log[j].wrapper = w
  <2>1. j \in 1..Len(log) /\ log[j] \in Fact
    OBVIOUS
  <2>2. log[j].wrapper \in Wrapper /\ log[j] = Registered(log[j].wrapper)
    BY <1>3, <2>1, FactsAreOfTwoKinds
  <2>3. log[j].wrapper \in registered(log)
    BY <2>1, <2>2, NamedInLog
  <2> QED
    BY <1>1, <1>3, <2>3
<1>4. i \in DOMAIN log
  OBVIOUS
<1> QED
  BY <1>2, <1>3, <1>4 DEF First

-----------------------------------------------------------------------------
(* The initial states *)

\* The founders in some order, each once.
LEMMA FoundersLogged ==
  ASSUME NEW S, IsFiniteSet(S)
  PROVE  /\ SetToSeq(S) \in [1..Cardinality(S) -> S]
         /\ \A i, j \in 1..Cardinality(S) : SetToSeq(S)[i] = SetToSeq(S)[j] => i = j
<1>1. PICK f \in Bijection(1..Cardinality(S), S) : TRUE
  BY FS_CardinalityType DEF ExistsBijection
<1>2. f \in [1..Cardinality(S) -> S] /\ IsInjective(f)
  BY <1>1 DEF Bijection, Injection, IsInjective
<1>3. SetToSeq(S) \in [1..Cardinality(S) -> S] /\ IsInjective(SetToSeq(S))
  BY <1>2 DEF SetToSeq
<1> QED
  BY <1>3 DEF IsInjective

LEMMA InitIInv ==
  ASSUME RegistryAssumption, Init
  PROVE  IInv
<1>1. PICK founders \in Founded :
         /\ latest = [w \in Wrapper |-> IF w \in founders THEN "active" ELSE Nothing]
         /\ main = SetToSeq({Registered(w) : w \in founders})
  BY DEF Init
<1> DEFINE S == {Registered(w) : w \in founders}
           n == Cardinality(S)
<1>2. founders \subseteq Wrapper /\ IsFiniteSet(founders)
  BY DEF RegistryAssumption
<1>3. IsFiniteSet(S)
  <2> DEFINE f == [w \in founders |-> Registered(w)]
  <2>1. f \in Surjection(founders, S)
    BY DEF Surjection
  <2> QED
    BY <1>2, <2>1, FS_Surjection
<1>4. n \in Nat
  BY <1>3, FS_CardinalityType
<1>5. main \in [1..n -> S] /\ \A i, j \in 1..n : main[i] = main[j] => i = j
  BY <1>1, <1>3, FoundersLogged
<1>6. \A f \in S : f \in Fact /\ f.kind = "registered" /\ f.wrapper \in founders
  BY <1>2, FactsDiffer
<1> HIDE DEF S, n
<1>7. main \in Seq(Fact) /\ Len(main) = n /\ DOMAIN main = 1..n
  BY <1>4, <1>5, <1>6
<1>8. \A i \in 1..n : /\ main[i].kind = "registered"
                      /\ main[i].wrapper \in founders
                      /\ main[i] = Registered(main[i].wrapper)
  <2> SUFFICES ASSUME NEW i \in 1..n
               PROVE  /\ main[i].kind = "registered"
                      /\ main[i].wrapper \in founders
                      /\ main[i] = Registered(main[i].wrapper)
    OBVIOUS
  <2>1. main[i] \in S
    BY <1>5
  <2> QED
    BY <1>6, <2>1, FactsAreOfTwoKinds
<1>9. Typed
  <2>1. latest \in [Wrapper -> State]
    BY <1>1 DEF State
  <2>2. run \in [Operator -> Script]
    BY DEF Init, Script
  <2> QED
    BY <1>7, <2>1, <2>2 DEF Typed, TypeOK, Init
<1>10. FinalInLatest
  BY DEF Init, FinalInLatest
<1>11. FactsShown
  <2>1. \A i \in DOMAIN main : Shown(main[i])
    BY <1>1, <1>2, <1>7, <1>8 DEF Shown, Init, Nothing
  <2> QED
    BY <2>1 DEF FactsShown, Init
<1>12. registryValid(main)
  <2> SUFFICES ASSUME NEW i \in 1..n
               PROVE  LET before == SubSeq(main, 1, i - 1)
                          w == main[i].wrapper
                      IN w \notin registered(before) /\ IdentityOf[w] \notin haltedIn(before)
    BY <1>7, <1>8 DEF registryValid
  <2> DEFINE before == SubSeq(main, 1, i - 1)
             w == main[i].wrapper
  <2>1. i - 1 \in 0..Len(main) /\ w \in Wrapper /\ main[i] = Registered(w)
    BY <1>2, <1>4, <1>7, <1>8
  <2>2. /\ before \in Seq(Fact) /\ Len(before) = i - 1
        /\ \A j \in 1..(i - 1) : before[j] = main[j] /\ j \in 1..n /\ j # i
    BY <1>4, <1>7, <2>1
  <2> HIDE DEF before
  <2>3. w \notin registered(before)
    <3> SUFFICES ASSUME NEW j \in 1..(i - 1), before[j] = Registered(w) PROVE FALSE
      BY <2>1, <2>2, NamedInLog
    <3> QED
      BY <1>5, <2>1, <2>2
  <2>4. haltedIn(before) = {}
    <3> SUFFICES ASSUME NEW v \in Wrapper, v \in recordedHalted(before) PROVE FALSE
      BY DEF haltedIn, recordedHalted
    <3>1. PICK j \in 1..(i - 1) : before[j] = Halted(v)
      BY <2>2, NamedInLog
    <3>2. main[j].kind = "halted" /\ j \in 1..n
      BY <2>2, <3>1, FactsDiffer
    <3> QED
      BY <1>8, <3>2
  <2> QED
    BY <2>3, <2>4 DEF before
<1>13. BindsByPublished /\ NoneLetThroughLate
  BY DEF Init, Idle, BindsByPublished, NoneLetThroughLate
<1>14. AdmittedAreFirst
  <2>1. \A c \in Consumer : admittedTo(c) = {}
    BY DEF Init, Idle, admittedTo, RegistryAssumption
  <2> QED
    BY <2>1 DEF AdmittedAreFirst
<1> QED
  BY <1>9, <1>10, <1>11, <1>12, <1>13, <1>14 DEF IInv

-----------------------------------------------------------------------------
(* One action after the other. *)

\* Only what verifies, what is proposed and who sends is looked at.
LEMMA AdmittedTo ==
  ASSUME NEW c \in Consumer, NEW v
  PROVE  v \in admittedTo(c) <=>
            \/ v = verifier[c] /\ v \in Wrapper
            \/ v = pending[c] /\ v \in Wrapper
            \/ \E o \in Operator : /\ run[o].at = "sending"
                                   /\ run[o].consumer = c
                                   /\ v = run[o].wrapper
BY DEF admittedTo

\* The chains move; what is final stays so.
LEMMA ChainStep ==
  ASSUME RegistryAssumption, IInv,
         latest' \in [Wrapper -> State], final' \in [Wrapper -> State],
         FinalInLatest',
         \A w \in Wrapper : /\ final[w] = "halted" => final'[w] = "halted"
                            /\ final[w] # Nothing => final'[w] # Nothing,
         UNCHANGED <<main, clone, run, consumers>>
  PROVE  IInv'
<1>1. Typed'
  BY DEF IInv, Typed, TypeOK, consumers
<1>2. FactsShown'
  <2>1. ASSUME NEW f \in Fact, Shown(f) PROVE Shown(f)'
    BY <2>1, FactsAreOfTwoKinds DEF Shown
  <2>2. main \in Seq(Fact) /\ clone \in [Operator -> Seq(Fact)]
    BY DEF IInv, Typed, TypeOK
  <2>3. \A i \in DOMAIN main : main[i] \in Fact
    BY <2>2
  <2>4. \A o \in Operator : \A i \in DOMAIN clone[o] : clone[o][i] \in Fact
    BY <2>2
  <2> QED
    BY <2>1, <2>3, <2>4 DEF IInv, FactsShown
<1>3. registryValid(main)'
  BY DEF IInv, registryValid, registered, recordedHalted, haltedIn
<1>4. BindsByPublished' /\ NoneLetThroughLate' /\ AdmittedAreFirst'
  BY DEF IInv, BindsByPublished, NoneLetThroughLate, AdmittedAreFirst, admittedTo, First,
         haltedIn, recordedHalted, consumers
<1> QED
  BY <1>1, <1>2, <1>3, <1>4 DEF IInv

LEMMA deployStrayKeeps ==
  ASSUME RegistryAssumption, IInv, NEW w \in Wrapper, deployStray(w)
  PROVE  IInv'
<1>1. latest \in [Wrapper -> State] /\ final \in [Wrapper -> State]
  BY DEF IInv, Typed, TypeOK
<1>2. latest' \in [Wrapper -> State] /\ final' = final
  BY <1>1 DEF deployStray, State
<1>3. FinalInLatest'
  BY <1>1, <1>2 DEF deployStray, IInv, FinalInLatest, Nothing
<1> QED
  BY <1>1, <1>2, <1>3, ChainStep DEF deployStray

LEMMA haltKeeps ==
  ASSUME RegistryAssumption, IInv, NEW w \in Wrapper, halt(w)
  PROVE  IInv'
<1>1. latest \in [Wrapper -> State] /\ final \in [Wrapper -> State]
  BY DEF IInv, Typed, TypeOK
<1>2. latest' \in [Wrapper -> State] /\ final' = final
  BY <1>1 DEF halt, State
<1>3. FinalInLatest'
  BY <1>1, <1>2 DEF halt, IInv, FinalInLatest, Nothing
<1> QED
  BY <1>1, <1>2, <1>3, ChainStep DEF halt

LEMMA finalizeKeeps ==
  ASSUME RegistryAssumption, IInv, NEW chain \in Chain, finalize(chain)
  PROVE  IInv'
<1>1. latest \in [Wrapper -> State] /\ final \in [Wrapper -> State]
  BY DEF IInv, Typed, TypeOK
<1>2. /\ latest' = latest
      /\ final' = [w \in Wrapper |-> IF ChainOf[w] = chain THEN latest[w] ELSE final[w]]
  BY DEF finalize
<1>3. final' \in [Wrapper -> State]
  BY <1>1, <1>2
<1>4. FinalInLatest'
  BY <1>1, <1>2 DEF IInv, FinalInLatest
<1>5. \A w \in Wrapper : /\ final[w] = "halted" => final'[w] = "halted"
                         /\ final[w] # Nothing => final'[w] # Nothing
  BY <1>1, <1>2 DEF IInv, FinalInLatest
<1> QED
  BY <1>1, <1>2, <1>3, <1>4, <1>5, ChainStep DEF finalize

LEMMA reorganizeKeeps ==
  ASSUME RegistryAssumption, IInv, NEW chain \in Chain, reorganize(chain)
  PROVE  IInv'
<1>1. latest \in [Wrapper -> State] /\ final \in [Wrapper -> State]
  BY DEF IInv, Typed, TypeOK
<1>2. /\ final' = final
      /\ latest' = [w \in Wrapper |-> IF ChainOf[w] = chain THEN final[w] ELSE latest[w]]
  BY DEF reorganize
<1>3. latest' \in [Wrapper -> State]
  BY <1>1, <1>2
<1>4. FinalInLatest'
  BY <1>1, <1>2 DEF IInv, FinalInLatest
<1> QED
  BY <1>1, <1>2, <1>3, <1>4, ChainStep DEF reorganize

\* A script goes on without letting anyone through.
LEMMA OtherScript ==
  ASSUME IInv, NEW o \in Operator, NEW to \in Script, to.at # "sending", Goes(o, to),
         UNCHANGED <<main, consumers>>
  PROVE  /\ run' \in [Operator -> Script]
         /\ NoneLetThroughLate'
         /\ AdmittedAreFirst'
<1>1. run \in [Operator -> Script]
  BY DEF IInv, Typed
<1>2. run' = [run EXCEPT ![o] = to] /\ run' \in [Operator -> Script]
  BY <1>1 DEF Goes
<1>3. \A p \in Operator : run'[p].at = "sending" => run'[p] = run[p]
  BY <1>1, <1>2
<1>4. NoneLetThroughLate'
  BY <1>3 DEF IInv, NoneLetThroughLate
<1>5. \A c \in Consumer : admittedTo(c)' \subseteq admittedTo(c)
  BY <1>3 DEF admittedTo, consumers
<1>6. AdmittedAreFirst'
  BY <1>5 DEF IInv, AdmittedAreFirst, First
<1> QED
  BY <1>2, <1>4, <1>6

LEMMA checkoutKeeps ==
  ASSUME RegistryAssumption, IInv, NEW o \in Operator, checkout(o)
  PROVE  IInv'
<1>1. PICK n \in 0..Len(main) : clone' = [clone EXCEPT ![o] = SubSeq(main, 1, n)]
  BY DEF checkout
<1>2. /\ main \in Seq(Fact) /\ clone \in [Operator -> Seq(Fact)]
      /\ UNCHANGED <<chains, main, run, consumers>> /\ run[o] = Idle
  BY DEF IInv, Typed, TypeOK, checkout
<1>3. SubSeq(main, 1, n) \in Seq(Fact) /\ Begins(SubSeq(main, 1, n), main)
  BY <1>2, TakenBegins
<1>4. /\ clone' \in [Operator -> Seq(Fact)]
      /\ clone'[o] = SubSeq(main, 1, n)
      /\ \A p \in Operator : p # o => clone'[p] = clone[p]
  BY <1>1, <1>2, <1>3
<1>5. Typed'
  BY <1>2, <1>4 DEF IInv, Typed, TypeOK, chains, consumers
<1>6. FactsShown'
  <2>1. \A i \in DOMAIN clone'[o] : i \in DOMAIN main /\ clone'[o][i] = main[i]
    BY <1>2, <1>3, <1>4 DEF Begins
  <2>2. \A p \in Operator : \A i \in DOMAIN clone'[p] : Shown(clone'[p][i])
    BY <1>4, <2>1 DEF IInv, FactsShown
  <2> QED
    BY <1>2, <2>2 DEF IInv, FactsShown, Shown, chains
<1>7. BindsByPublished'
  <2>1. \A p \in Operator : run'[p].at = "binding" => run'[p] = run[p] /\ clone'[p] = clone[p]
    BY <1>2, <1>4 DEF Idle
  <2> QED
    BY <1>2, <2>1 DEF IInv, BindsByPublished, haltedIn, recordedHalted, Begins
<1>8. FinalInLatest' /\ NoneLetThroughLate'
  BY <1>2 DEF IInv, FinalInLatest, NoneLetThroughLate, chains
<1>9. AdmittedAreFirst'
  <2>1. \A c \in Consumer : admittedTo(c)' = admittedTo(c)
    BY <1>2 DEF admittedTo, consumers
  <2> QED
    BY <1>2, <2>1 DEF IInv, AdmittedAreFirst, First
<1>10. registryValid(main)'
  BY <1>2 DEF IInv, registryValid, registered, recordedHalted, haltedIn
<1> QED
  BY <1>5, <1>6, <1>7, <1>8, <1>9, <1>10 DEF IInv

LEMMA mergeKeeps ==
  ASSUME RegistryAssumption, IInv, NEW o \in Operator, merge(o)
  PROVE  IInv'
<1>1. /\ main \in Seq(Fact) /\ clone \in [Operator -> Seq(Fact)] /\ clone[o] \in Seq(Fact)
      /\ main' = clone[o] /\ UNCHANGED <<chains, clone, run, consumers>>
      /\ registryValid(clone[o])
  BY DEF IInv, Typed, TypeOK, merge
<1>2. Begins(main, clone[o])
  BY <1>1, PrefixBegins DEF merge
<1>3. Typed' /\ FinalInLatest' /\ NoneLetThroughLate'
  BY <1>1 DEF IInv, Typed, TypeOK, FinalInLatest, NoneLetThroughLate, chains, consumers
<1>4. FactsShown'
  BY <1>1 DEF IInv, FactsShown, Shown, chains
<1>5. registryValid(main)'
  BY <1>1 DEF registryValid, registered, recordedHalted, haltedIn
<1>6. BindsByPublished'
  <2> SUFFICES ASSUME NEW p \in Operator, run[p].at = "binding"
               PROVE  Begins(clone[p], clone[o])
    BY <1>1 DEF IInv, BindsByPublished, haltedIn, recordedHalted, Begins
  <2>1. Begins(clone[p], main) /\ clone[p] \in Seq(Fact)
    BY <1>1 DEF IInv, BindsByPublished
  <2>2. /\ Len(clone[p]) \in Nat /\ Len(main) \in Nat /\ Len(clone[o]) \in Nat
    BY <1>1, <2>1
  <2> QED
    BY <1>2, <2>1, <2>2 DEF Begins
<1>7. AdmittedAreFirst'
  <2>1. \A c \in Consumer : admittedTo(c)' = admittedTo(c)
    BY <1>1 DEF admittedTo, consumers
  <2>2. \A c \in Consumer : \A v \in admittedTo(c) : First(v, clone[o])
    BY <1>1, <1>2, FirstExtends DEF IInv, AdmittedAreFirst
  <2>3. \A c \in Consumer : \A v \in admittedTo(c) : First(v, main')
    BY <1>1, <2>2
  <2> QED
    BY <2>1, <2>3 DEF AdmittedAreFirst, First
<1> QED
  BY <1>3, <1>4, <1>5, <1>6, <1>7 DEF IInv

\* A script goes on, and nothing else changes that the checkouts depend on.
LEMMA ScriptStep ==
  ASSUME RegistryAssumption, IInv, NEW o \in Operator, NEW to \in Script,
         to.at \notin {"sending", "binding"}, Goes(o, to),
         UNCHANGED <<chains, main, clone, consumers>>
  PROVE  IInv'
<1>1. run \in [Operator -> Script] /\ run' = [run EXCEPT ![o] = to]
  BY DEF IInv, Typed, Goes
<1>2. run' \in [Operator -> Script] /\ NoneLetThroughLate' /\ AdmittedAreFirst'
  BY OtherScript
<1>3. Typed' /\ FinalInLatest' /\ FactsShown'
  BY <1>2 DEF IInv, Typed, TypeOK, FinalInLatest, FactsShown, Shown, chains, consumers
<1>4. registryValid(main)'
  BY DEF IInv, registryValid, registered, recordedHalted, haltedIn
<1>5. \A p \in Operator : run'[p].at = "binding" => run'[p] = run[p]
  BY <1>1
<1>6. BindsByPublished'
  BY <1>5 DEF IInv, BindsByPublished, haltedIn, recordedHalted, Begins
<1> QED
  BY <1>2, <1>3, <1>4, <1>6 DEF IInv

LEMMA startRegistrationKeeps ==
  ASSUME RegistryAssumption, IInv, NEW o \in Operator, startRegistration(o)
  PROVE  IInv'
BY ScriptStep DEF startRegistration, Script

LEMMA planWrapperDeploymentKeeps ==
  ASSUME RegistryAssumption, IInv, NEW o \in Operator, NEW w \in Wrapper,
         planWrapperDeployment(o, w)
  PROVE  IInv'
BY ScriptStep DEF planWrapperDeployment, Script

LEMMA appendFactKeeps ==
  ASSUME RegistryAssumption, IInv, NEW o \in Operator, NEW fact \in Fact, appendFact(o, fact)
  PROVE  IInv'
<1>1. /\ main \in Seq(Fact) /\ clone \in [Operator -> Seq(Fact)] /\ clone[o] \in Seq(Fact)
      /\ clone' = [clone EXCEPT ![o] = Append(clone[o], fact)]
      /\ run \in [Operator -> Script] /\ run[o].at = "registering"
      /\ run' = [run EXCEPT ![o] = Idle]
      /\ UNCHANGED <<chains, main, consumers>>
  BY DEF IInv, Typed, TypeOK, appendFact, Goes
<1>2. run' \in [Operator -> Script] /\ NoneLetThroughLate' /\ AdmittedAreFirst'
  <2>1. Idle \in Script /\ Idle.at # "sending"
    BY DEF Idle, Script
  <2> QED
    BY <1>1, <2>1, OtherScript DEF Goes
<1>3. /\ Append(clone[o], fact) \in Seq(Fact)
      /\ Len(Append(clone[o], fact)) = Len(clone[o]) + 1
      /\ Append(clone[o], fact)[Len(clone[o]) + 1] = fact
      /\ \A i \in 1..Len(clone[o]) : Append(clone[o], fact)[i] = clone[o][i]
  BY <1>1, AppendedBegins
<1>4. /\ clone' \in [Operator -> Seq(Fact)]
      /\ clone'[o] = Append(clone[o], fact)
      /\ \A p \in Operator : p # o => clone'[p] = clone[p]
  BY <1>1, <1>3
<1>5. Typed' /\ FinalInLatest'
  BY <1>1, <1>2, <1>4 DEF IInv, Typed, TypeOK, FinalInLatest, chains, consumers
<1>6. FactsShown'
  <2>1. Shown(fact)
    BY FactsAreOfTwoKinds
       DEF appendFact, registrationFact, haltFact, measured, Shown, Nothing
  <2>2. \A i \in DOMAIN clone'[o] : i \in 1..Len(clone[o]) \/ i = Len(clone[o]) + 1
    BY <1>1, <1>3, <1>4
  <2>3. \A i \in 1..Len(clone[o]) : Shown(clone[o][i])
    BY <1>1 DEF IInv, FactsShown
  <2>4. \A i \in DOMAIN clone'[o] : Shown(clone'[o][i])
    BY <1>3, <1>4, <2>1, <2>2, <2>3
  <2>5. \A p \in Operator : \A i \in DOMAIN clone'[p] : Shown(clone'[p][i])
    BY <1>4, <2>4 DEF IInv, FactsShown
  <2> QED
    BY <1>1, <2>5 DEF IInv, FactsShown, Shown, chains
<1>7. registryValid(main)'
  BY <1>1 DEF IInv, registryValid, registered, recordedHalted, haltedIn
<1>8. BindsByPublished'
  <2>1. \A p \in Operator : run'[p].at = "binding" => run'[p] = run[p] /\ p # o
    BY <1>1 DEF Idle
  <2> QED
    BY <1>1, <1>4, <2>1 DEF IInv, BindsByPublished, haltedIn, recordedHalted, Begins
<1> QED
  BY <1>2, <1>5, <1>6, <1>7, <1>8 DEF IInv

LEMMA deployPlannedWrapperKeeps ==
  ASSUME RegistryAssumption, IInv, NEW o \in Operator, deployPlannedWrapper(o)
  PROVE  IInv'
<1>1. /\ latest \in [Wrapper -> State] /\ final \in [Wrapper -> State]
      /\ run \in [Operator -> Script] /\ run[o].at = "deploying"
      /\ run' = [run EXCEPT ![o] = Idle]
      /\ UNCHANGED <<final, main, clone, consumers>>
  BY DEF IInv, Typed, TypeOK, deployPlannedWrapper, Goes
<1>2. run' \in [Operator -> Script] /\ NoneLetThroughLate' /\ AdmittedAreFirst'
  <2>1. Idle \in Script /\ Idle.at # "sending"
    BY DEF Idle, Script
  <2> QED
    BY <1>1, <2>1, OtherScript DEF Goes
<1>3. /\ latest' \in [Wrapper -> State]
      /\ \A w \in Wrapper : latest[w] # Nothing => latest'[w] = latest[w]
  BY <1>1 DEF deployPlannedWrapper, State
<1>4. FinalInLatest'
  BY <1>1, <1>3 DEF IInv, FinalInLatest, Nothing
<1>5. Typed' /\ FactsShown'
  BY <1>1, <1>2, <1>3 DEF IInv, Typed, TypeOK, FactsShown, Shown, consumers
<1>6. registryValid(main)'
  BY <1>1 DEF IInv, registryValid, registered, recordedHalted, haltedIn
<1>7. BindsByPublished'
  <2>1. \A p \in Operator : run'[p].at = "binding" => run'[p] = run[p]
    BY <1>1 DEF Idle
  <2> QED
    BY <1>1, <2>1 DEF IInv, BindsByPublished, haltedIn, recordedHalted, Begins
<1> QED
  BY <1>2, <1>4, <1>5, <1>6, <1>7 DEF IInv

LEMMA startBindingKeeps ==
  ASSUME RegistryAssumption, IInv, NEW o \in Operator, NEW c \in Consumer, NEW w \in Wrapper,
         startBinding(o, c, w)
  PROVE  IInv'
<1> DEFINE to == [at |-> "binding", consumer |-> c, wrapper |-> w,
                  late |-> IdentityOf[w] \in haltedIn(main)]
<1>1. /\ run \in [Operator -> Script] /\ run' = [run EXCEPT ![o] = to]
      /\ UNCHANGED <<chains, main, clone, consumers>>
      /\ main \in Seq(Fact) /\ clone[o] = main /\ ChainOf[w] = ChainOf[c]
  BY DEF IInv, Typed, TypeOK, startBinding, Goes, published
<1>2. to \in Script /\ to.at = "binding"
  BY DEF Script
<1>3. run' \in [Operator -> Script] /\ NoneLetThroughLate' /\ AdmittedAreFirst'
  BY <1>1, <1>2, OtherScript DEF Goes
<1>4. Typed' /\ FinalInLatest' /\ FactsShown'
  BY <1>1, <1>3 DEF IInv, Typed, TypeOK, FinalInLatest, FactsShown, Shown, chains, consumers
<1>5. registryValid(main)'
  BY <1>1 DEF IInv, registryValid, registered, recordedHalted, haltedIn
<1>6. BindsByPublished'
  <2>1. Begins(main, main)
    BY <1>1 DEF Begins
  <2>2. run'[o] = to /\ \A p \in Operator : p # o => run'[p] = run[p]
    BY <1>1
  <2> SUFFICES ASSUME NEW p \in Operator, run'[p].at = "binding"
               PROVE  /\ Begins(clone[p], main)
                      /\ ChainOf[run'[p].wrapper] = ChainOf[run'[p].consumer]
                      /\ run'[p].late <=> IdentityOf[run'[p].wrapper] \in haltedIn(clone[p])
    BY <1>1 DEF BindsByPublished, Begins, haltedIn, recordedHalted
  <2>3. CASE p = o
    BY <1>1, <2>1, <2>2, <2>3
  <2>4. CASE p # o
    BY <2>2, <2>4 DEF IInv, BindsByPublished
  <2> QED
    BY <2>3, <2>4
<1> QED
  BY <1>3, <1>4, <1>5, <1>6 DEF IInv

\* The gate: what it lets through is not halted in records it knows, and is the
\* first wrapper of its kind.
LEMMA assertBindableKeeps ==
  ASSUME RegistryAssumption, IInv, NEW o \in Operator, assertBindable(o)
  PROVE  IInv'
<1> DEFINE c == run[o].consumer
           w == run[o].wrapper
           to == [run[o] EXCEPT !.at = "sending"]
<1>1. /\ run \in [Operator -> Script] /\ run[o].at = "binding"
      /\ UNCHANGED <<chains, main, clone, consumers>>
      /\ main \in Seq(Fact) /\ clone[o] \in Seq(Fact)
  BY DEF IInv, Typed, TypeOK, assertBindable
<1>2. CASE ~ bindable(c, w, clone[o])
  <2>1. Idle \in Script /\ Idle.at \notin {"sending", "binding"}
    BY DEF Idle, Script
  <2> QED
    BY <1>1, <1>2, <2>1, ScriptStep DEF assertBindable
<1>3. CASE bindable(c, w, clone[o])
  <2>1. /\ run[o] \in [at : {"binding", "sending"}, consumer : Consumer, wrapper : Wrapper,
                        late : BOOLEAN]
    BY <1>1 DEF Script, Idle
  <2>2. /\ c \in Consumer /\ w \in Wrapper
        /\ to \in Script /\ to.at = "sending" /\ to.consumer = c /\ to.wrapper = w
        /\ to.late = run[o].late
    BY <2>1 DEF Script
  <2>3. run' = [run EXCEPT ![o] = to]
    BY <1>3 DEF assertBindable, Goes
  <2> HIDE DEF to, c, w
  <2>4. /\ run' \in [Operator -> Script] /\ run'[o] = to
        /\ \A p \in Operator : p # o => run'[p] = run[p]
    BY <1>1, <2>2, <2>3
  <2>5. /\ Begins(clone[o], main) /\ ChainOf[w] = ChainOf[c]
        /\ run[o].late <=> IdentityOf[w] \in haltedIn(clone[o])
    BY <1>1 DEF IInv, BindsByPublished, c, w
  <2>6. ~ to.late
    BY <1>3, <2>2, <2>5 DEF bindable
  <2>7. First(w, main)
    BY <1>1, <1>3, <2>2, <2>5, BindableIsFirst, FirstExtends
  <2>8. NoneLetThroughLate'
    BY <2>4, <2>6 DEF IInv, NoneLetThroughLate
  <2>9. AdmittedAreFirst'
    <3>1. ASSUME NEW d \in Consumer, NEW v \in admittedTo(d)' PROVE First(v, main)
      <4>1. v \in admittedTo(d) \/ v = to.wrapper
        BY <1>1, <2>4, <3>1 DEF admittedTo, consumers
      <4> QED
        BY <2>2, <2>7, <4>1 DEF IInv, AdmittedAreFirst
    <3> QED
      BY <1>1, <3>1 DEF AdmittedAreFirst, First
  <2>10. BindsByPublished'
    <3>1. \A p \in Operator : run'[p].at = "binding" => run'[p] = run[p]
      BY <2>2, <2>4
    <3> QED
      BY <1>1, <3>1 DEF IInv, BindsByPublished, haltedIn, recordedHalted, Begins
  <2>11. Typed' /\ FinalInLatest' /\ FactsShown'
    BY <1>1, <2>4 DEF IInv, Typed, TypeOK, FinalInLatest, FactsShown, Shown, chains, consumers
  <2>12. registryValid(main)'
    BY <1>1 DEF IInv, registryValid, registered, recordedHalted, haltedIn
  <2> QED
    BY <2>8, <2>9, <2>10, <2>11, <2>12 DEF IInv
<1> QED
  BY <1>2, <1>3

LEMMA sendKeeps ==
  ASSUME RegistryAssumption, IInv, NEW o \in Operator, send(o)
  PROVE  IInv'
<1> DEFINE c == run[o].consumer
           w == run[o].wrapper
<1>1. /\ run \in [Operator -> Script] /\ run[o].at = "sending"
      /\ run' = [run EXCEPT ![o] = Idle]
      /\ UNCHANGED <<chains, main, clone>>
      /\ verifier \in [Consumer -> Wrapper \cup {NotDeployed, OffPath}]
      /\ pending \in [Consumer -> Wrapper \cup {Nothing}]
  BY DEF IInv, Typed, TypeOK, send, Goes
<1>2. c \in Consumer /\ w \in Wrapper
  BY <1>1 DEF Script, Idle
<1>3. w \in admittedTo(c)
  BY <1>1, <1>2, AdmittedTo
<1>4. \/ UNCHANGED consumers
      \/ verifier' = [verifier EXCEPT ![c] = w] /\ pending' = pending
      \/ pending' = [pending EXCEPT ![c] = w] /\ verifier' = verifier
  BY DEF send
<1> HIDE DEF c, w
<1>5. /\ verifier' \in [Consumer -> Wrapper \cup {NotDeployed, OffPath}]
      /\ pending' \in [Consumer -> Wrapper \cup {Nothing}]
      /\ \A d \in Consumer : verifier'[d] # verifier[d] => d = c /\ verifier'[d] = w
      /\ \A d \in Consumer : pending'[d] # pending[d] => d = c /\ pending'[d] = w
  BY <1>1, <1>2, <1>4 DEF consumers
<1>6. Idle \in Script /\ Idle.at \notin {"sending", "binding"}
  BY DEF Idle, Script
<1>7. /\ run' \in [Operator -> Script]
      /\ \A p \in Operator : run'[p].at \in {"sending", "binding"} => run'[p] = run[p]
  BY <1>1, <1>6
<1>8. Typed' /\ FinalInLatest' /\ FactsShown'
  BY <1>1, <1>5, <1>7 DEF IInv, Typed, TypeOK, FinalInLatest, FactsShown, Shown, chains
<1>9. registryValid(main)'
  BY <1>1 DEF IInv, registryValid, registered, recordedHalted, haltedIn
<1>10. BindsByPublished' /\ NoneLetThroughLate'
  BY <1>1, <1>7 DEF IInv, BindsByPublished, NoneLetThroughLate, haltedIn, recordedHalted, Begins
<1>11. AdmittedAreFirst'
  <2>1. ASSUME NEW d \in Consumer, NEW v \in admittedTo(d)' PROVE First(v, main)
    <3>1. \/ v = verifier'[d] /\ v \in Wrapper
          \/ v = pending'[d] /\ v \in Wrapper
          \/ \E p \in Operator : run[p].at = "sending" /\ run[p].consumer = d /\ v = run[p].wrapper
      BY <1>7, <2>1 DEF admittedTo
    <3>2. v \in admittedTo(d) \/ (d = c /\ v = w)
      BY <1>5, <3>1, AdmittedTo
    <3>3. v \in admittedTo(d)
      BY <1>3, <3>2
    <3> QED
      BY <3>3 DEF IInv, AdmittedAreFirst
  <2> QED
    BY <1>1, <2>1 DEF AdmittedAreFirst, First
<1> QED
  BY <1>8, <1>9, <1>10, <1>11 DEF IInv

LEMMA applyRotationKeeps ==
  ASSUME RegistryAssumption, IInv, NEW c \in Consumer, applyRotation(c)
  PROVE  IInv'
<1>1. /\ UNCHANGED <<chains, main, clone, run>>
      /\ verifier \in [Consumer -> Wrapper \cup {NotDeployed, OffPath}]
      /\ pending \in [Consumer -> Wrapper \cup {Nothing}]
      /\ pending[c] # Nothing
      /\ verifier' = [verifier EXCEPT ![c] = pending[c]]
      /\ pending' = [pending EXCEPT ![c] = Nothing]
  BY DEF IInv, Typed, TypeOK, applyRotation
<1>2. Nothing \notin Wrapper
  BY DEF RegistryAssumption
<1>3. /\ verifier' \in [Consumer -> Wrapper \cup {NotDeployed, OffPath}]
      /\ pending' \in [Consumer -> Wrapper \cup {Nothing}]
      /\ \A d \in Consumer : /\ verifier'[d] \in {verifier[d], pending[d]}
                             /\ pending'[d] \in {pending[d], Nothing}
  BY <1>1
<1>4. Typed' /\ FinalInLatest' /\ FactsShown'
  BY <1>1, <1>3 DEF IInv, Typed, TypeOK, FinalInLatest, FactsShown, Shown, chains
<1>5. registryValid(main)'
  BY <1>1 DEF IInv, registryValid, registered, recordedHalted, haltedIn
<1>6. BindsByPublished' /\ NoneLetThroughLate'
  BY <1>1 DEF IInv, BindsByPublished, NoneLetThroughLate, haltedIn, recordedHalted, Begins
<1>7. \A d \in Consumer : admittedTo(d)' \subseteq admittedTo(d)
  BY <1>1, <1>2, <1>3 DEF admittedTo
<1>8. AdmittedAreFirst'
  BY <1>1, <1>7 DEF IInv, AdmittedAreFirst, First
<1> QED
  BY <1>4, <1>5, <1>6, <1>8 DEF IInv

LEMMA StutterKeeps ==
  ASSUME IInv, UNCHANGED vars
  PROVE  IInv'
<1>1. UNCHANGED <<latest, final, main, clone, run, verifier, pending>>
  BY DEF vars, chains, consumers
<1>2. Typed' /\ FinalInLatest' /\ FactsShown'
  BY <1>1 DEF IInv, Typed, TypeOK, FinalInLatest, FactsShown, Shown
<1>3. registryValid(main)'
  BY <1>1 DEF IInv, registryValid, registered, recordedHalted, haltedIn
<1>4. BindsByPublished' /\ NoneLetThroughLate' /\ AdmittedAreFirst'
  BY <1>1 DEF IInv, BindsByPublished, NoneLetThroughLate, AdmittedAreFirst, admittedTo, First,
              haltedIn, recordedHalted, Begins
<1> QED
  BY <1>2, <1>3, <1>4 DEF IInv

LEMMA NextKeeps ==
  ASSUME RegistryAssumption
  PROVE  IInv /\ [Next]_vars => IInv'
<1> SUFFICES ASSUME IInv, [Next]_vars PROVE IInv'
  OBVIOUS
<1>1. CASE \E w \in Wrapper : deployStray(w) \/ halt(w)
  BY <1>1, deployStrayKeeps, haltKeeps
<1>2. CASE \E chain \in Chain : finalize(chain) \/ reorganize(chain)
  BY <1>2, finalizeKeeps, reorganizeKeeps
<1>3. CASE \E c \in Consumer : applyRotation(c)
  BY <1>3, applyRotationKeeps
<1>4. CASE \E o \in Operator :
             \/ checkout(o) \/ merge(o) \/ startRegistration(o)
             \/ deployPlannedWrapper(o) \/ assertBindable(o) \/ send(o)
  BY <1>4, checkoutKeeps, mergeKeeps, startRegistrationKeeps,
     deployPlannedWrapperKeeps, assertBindableKeeps, sendKeeps
<1>5. CASE \E o \in Operator :
             \/ \E fact \in Fact : appendFact(o, fact)
             \/ \E w \in Wrapper : planWrapperDeployment(o, w)
             \/ \E c \in Consumer, w \in Wrapper : startBinding(o, c, w)
  BY <1>5, appendFactKeeps, planWrapperDeploymentKeeps, startBindingKeeps
<1>6. CASE UNCHANGED vars
  BY <1>6, StutterKeeps
<1> QED
  BY <1>1, <1>2, <1>3, <1>4, <1>5, <1>6 DEF Next

LEMMA RegistryInvariant ==
  ASSUME RegistryAssumption
  PROVE  Spec => []IInv
BY InitIInv, NextKeeps, PTL DEF Spec

-----------------------------------------------------------------------------
(* What follows. *)

LEMMA ShowsFactsAreFinal == IInv => FactsAreFinal
BY DEF IInv, FactsShown, Shown, FactsAreFinal

LEMMA ShowsHaltCanBePublished == IInv => HaltCanBePublished
<1> SUFFICES ASSUME IInv, NEW w \in Wrapper, final[w] = "halted",
                    IdentityOf[w] \in Designated \ haltedIn(main)
             PROVE  IF w \in registered(main) THEN haltFact(w, main)
                    ELSE /\ registrationFact(w, main)
                         /\ haltFact(w, Append(main, Registered(w)))
  BY DEF HaltCanBePublished
<1>1. main \in Seq(Fact) /\ registryValid(main)
  BY DEF IInv, Typed, TypeOK
<1>2. w \notin recordedHalted(main)
  BY DEF haltedIn
<1>3. CASE w \in registered(main)
  <2>1. Fits(Halted(w), main)
    BY <1>2, <1>3, FactsDiffer DEF Fits
  <2> QED
    BY <1>1, <1>3, <2>1, FactsDiffer, ValidAfterAppend DEF haltFact, measured
<1>4. CASE w \notin registered(main)
  <2> DEFINE log == Append(main, Registered(w))
  <2>1. Fits(Registered(w), main)
    BY <1>4, FactsDiffer DEF Fits
  <2>2. log \in Seq(Fact) /\ registryValid(log)
    BY <1>1, <2>1, FactsDiffer, AppendedBegins, ValidAfterAppend
  <2>3. w \in registered(log) /\ w \notin recordedHalted(log)
    BY <1>1, <1>2, NamedAfterAppend
  <2> HIDE DEF log
  <2>4. Fits(Halted(w), log)
    BY <2>3, FactsDiffer DEF Fits
  <2>5. haltFact(w, log)
    BY <2>2, <2>3, <2>4, FactsDiffer, ValidAfterAppend DEF haltFact, measured
  <2>6. registrationFact(w, main)
    BY <2>2 DEF registrationFact, measured, Nothing, log
  <2> QED
    BY <1>4, <2>5, <2>6 DEF log
<1> QED
  BY <1>3, <1>4

LEMMA ShowsNoneLetThroughLate == IInv => NoneLetThroughLate
BY DEF IInv

LEMMA ShowsOneHaltReachesAll == IInv => OneHaltReachesAll
<1> SUFFICES ASSUME IInv, NEW c \in Consumer, NEW d \in Consumer,
                    NEW v \in admittedTo(c), NEW w \in admittedTo(d),
                    ChainOf[v] = ChainOf[w], IdentityOf[v] = IdentityOf[w]
             PROVE  v = w
  BY DEF OneHaltReachesAll
<1>1. First(v, main) /\ First(w, main) /\ main \in Seq(Fact)
  BY DEF IInv, AdmittedAreFirst, Typed, TypeOK
<1>2. v \in Wrapper /\ w \in Wrapper
  BY AdmittedTo DEF IInv, Typed, Script, Idle
<1> QED
  BY <1>1, <1>2, FirstIsOne

\* The registry never says more than the chains do for good, whatever is merged
\* from whichever checkout and however the chains reorganise
\* (sp1-registration.ts:10-13).
THEOREM PublishedFactsAreFinal ==
  ASSUME RegistryAssumption
  PROVE  Spec => []FactsAreFinal
BY RegistryInvariant, ShowsFactsAreFinal, PTL

\* A designated wrapper that is halted for good can be said to be: as it is when
\* it is registered, and else registered first (sp1-registration.ts:100-102).
THEOREM HaltsCanBePublished ==
  ASSUME RegistryAssumption
  PROVE  Spec => []HaltCanBePublished
BY RegistryInvariant, ShowsHaltCanBePublished, PTL

\* Nobody is let through to a wrapper of an identity whose halt was published
\* before the script started: it read the records when they had the halt
\* (sp1-published-records.ts:5-12).
THEOREM HaltsAreHeeded ==
  ASSUME RegistryAssumption
  PROVE  Spec => []NoneLetThroughLate
BY RegistryInvariant, ShowsNoneLetThroughLate, PTL

\* Scripts that never see each other let consumers through to the same wrapper of
\* an identity: the one that every log registers first, since logs of all lengths
\* begin alike (verifier-binding.ts:486-495).
THEOREM OneHaltReaches ==
  ASSUME RegistryAssumption
  PROVE  Spec => []OneHaltReachesAll
BY RegistryInvariant, ShowsOneHaltReachesAll, PTL
=============================================================================
