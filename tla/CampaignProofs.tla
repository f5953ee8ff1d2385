---------------------------- MODULE CampaignProofs ----------------------------
(***************************************************************************)
(* The stateful test campaigns, for every profile, every number of calls   *)
(* and of replays, and every delay: what the harness believes, records and *)
(* charges stays what the vault under test really holds.                   *)
(***************************************************************************)
EXTENDS MCCampaigns, SequenceTheorems, TLAPS

Genesis == Campaign!Genesis
Decoy == Campaign!Decoy
NoKey == Campaign!NoKey
Founders == Campaign!Founders
Successors == Campaign!Successors

\* The keys that somebody holds.
RealKeys == Spares \cup {Genesis}
Rosters == {Founders, Successors}
Verifiers == VerifierKinds \cup {p.verifier : p \in StatefulProfiles} \cup {NoKey}
Policies == PolicyKinds \cup {"none"}
Domains == {"spend", "credential", "guardian", "migration"}
RootCounts == [credential : Nat, guardians : Nat]
Labels == {"g0", "g1", "g2", "h0", "h1", "h2", Decoy}
Attestations == [seat : Nat, by : Labels]

Requests ==
    [active : BOOLEAN, spare : Spares \cup {NoKey}, verifier : Verifiers, executableAt : Nat,
     expiresAt : Nat, challengesUsed : Nat]

Kernels ==
    [signer : RealKeys, pq : RealKeys \cup {NoKey}, verifier : Verifiers, requirePq : BOOLEAN,
     credentialGeneration : Nat, policy : Policies, roster : Rosters, threshold : Nat,
     guardianGeneration : Nat, nonces : [Domains -> Nat], recovery : Requests, boundAt : Nat,
     balance : Int]

Beliefs ==
    [cred : RealKeys, pq : RealKeys, roster : Rosters, verifier : Verifiers,
     requirePq : BOOLEAN, policy : Policies]

Records ==
    [live : [state : {"NONE", "LIVE"}, expiresAt : Nat, authorizedBy : RootCounts],
     migrationAuthorizedBy : RootCounts]

LEMMA Constants ==
    /\ RecoveryDelay \in Nat /\ RecoveryWindow \in Nat /\ BindDelay \in Nat
    /\ ChallengeLimit \in Nat /\ MaxBalance \in Nat
    /\ ContainmentMax \in Nat /\ ContainmentMax > 0 /\ ContainmentWindow \in Nat
    /\ ContainmentBudget = ContainmentMax + ContainmentMax /\ ContainmentBudget < ContainmentWindow
    /\ Thresholds \subseteq Nat /\ Generations \subseteq {1, 2}
    /\ Decoy \notin RealKeys /\ NoKey \notin RealKeys /\ NoKey # Decoy /\ NoKey \notin VerifierKinds
    /\ \A p \in StatefulProfiles : /\ p.ecdsaOnlyFloor \in BOOLEAN /\ p.commitPqKey \in BOOLEAN
                                   /\ p.fabricate \in BOOLEAN
  BY CampaignAssumption
     DEF Campaign!StatefulAssumption, Genesis, Decoy, NoKey, Campaign!Genesis, Campaign!Decoy,
         Campaign!NoKey, RealKeys

-----------------------------------------------------------------------------
(* Roots and the quorums built with them *)

Owns(actor, label) == Campaign!ownsSeat(actor, label)

LEMMA RosterSeats ==
    ASSUME NEW roster \in Rosters
    PROVE  /\ roster \in [1..3 -> Labels]
           /\ \A i, j \in 1..3 : i # j => roster[i] # roster[j]
<1>1. roster = <<"g0", "g1", "g2">> \/ roster = <<"h0", "h1", "h2">>
  BY DEF Rosters, Founders, Successors, Campaign!Founders, Campaign!Successors
<1>2. /\ roster \in [1..3 -> Labels]
      /\ roster[1] # roster[2] /\ roster[1] # roster[3] /\ roster[2] # roster[3]
  BY <1>1 DEF Labels
<1>3. \A i \in 1..3 : i = 1 \/ i = 2 \/ i = 3
  OBVIOUS
<1> QED
  BY <1>2, <1>3

LEMMA RootsCounted ==
    ASSUME NEW actor, sCtx \in Beliefs
    PROVE  /\ Campaign!rootsNow(actor) \in RootCounts
           /\ Campaign!ownsCred(actor, sCtx.cred) => Campaign!rootsNow(actor).credential >= 1
           /\ /\ Campaign!ownsCred(actor, sCtx.cred)
              /\ sCtx.requirePq /\ Campaign!ownsPq(actor, sCtx.pq)
              => Campaign!rootsNow(actor).credential >= 2
  BY DEF Beliefs, RootCounts, Campaign!rootsNow

\* Guardian roots are the seats that the actor can sign for.
LEMMA SeatsCounted ==
    ASSUME NEW actor, sCtx \in Beliefs
    PROVE  /\ \A i \in 1..3 : Owns(actor, sCtx.roster[i]) => Campaign!rootsNow(actor).guardians >= 1
           /\ \A i, j \in 1..3 :
                i # j /\ Owns(actor, sCtx.roster[i]) /\ Owns(actor, sCtx.roster[j])
                => Campaign!rootsNow(actor).guardians >= 2
           /\ (\A i \in 1..3 : Owns(actor, sCtx.roster[i])) => Campaign!rootsNow(actor).guardians = 3
<1> DEFINE seats == {sCtx.roster[i] : i \in 1..3}
           held == {label \in seats : Owns(actor, label)}
<1>1. Campaign!rootsNow(actor).guardians =
        IF held = {} THEN 0
        ELSE IF \E g \in held : held = {g} THEN 1
        ELSE IF held = seats /\ sCtx.roster[1] # sCtx.roster[2] THEN 3 ELSE 2
  BY DEF Campaign!rootsNow, Owns
<1>2. \A i, j \in 1..3 : i # j => sCtx.roster[i] # sCtx.roster[j]
  BY RosterSeats DEF Beliefs
<1>3. \A i \in 1..3 : Owns(actor, sCtx.roster[i]) => sCtx.roster[i] \in held
  OBVIOUS
<1> HIDE DEF held
<1>4. \A i \in 1..3 : Owns(actor, sCtx.roster[i]) => Campaign!rootsNow(actor).guardians >= 1
  BY <1>1, <1>3
<1>5. ASSUME NEW i \in 1..3, NEW j \in 1..3, i # j,
             Owns(actor, sCtx.roster[i]), Owns(actor, sCtx.roster[j])
      PROVE  Campaign!rootsNow(actor).guardians >= 2
  BY <1>1, <1>2, <1>3, <1>5
<1>6. ASSUME \A i \in 1..3 : Owns(actor, sCtx.roster[i])
      PROVE  Campaign!rootsNow(actor).guardians = 3
  <2>1. held = seats
    BY <1>6 DEF held
  <2>2. sCtx.roster[1] \in held /\ sCtx.roster[2] \in held /\ sCtx.roster[1] # sCtx.roster[2]
    BY <1>2, <1>3, <1>6
  <2> QED
    BY <1>1, <2>1, <2>2
<1> QED
  BY <1>4, <1>5, <1>6

\* What kernelVerifies of a quorum's signatures, whatever roster is installed.
Signed(q) ==
    \A i \in DOMAIN q.attests :
        /\ q.attests[i].seat \in 1..3
        /\ q.attests[i].by = q.members[q.attests[i].seat]
        /\ i > 1 => q.attests[i - 1].seat < q.attests[i].seat

\* A quorum is of one roster, and signed by no more than who is charged for it.
QuorumBacked(q, roots) ==
    /\ q.members \in Rosters
    /\ q.attests \in Seq(Attestations)
    /\ Signed(q) => roots.guardians >= Len(q.attests)

LEMMA QuorumsBacked ==
    ASSUME NEW actor, NEW shape, sCtx \in Beliefs
    PROVE  QuorumBacked(Campaign!buildQuorum(actor, shape), Campaign!rootsNow(actor))
<1> DEFINE q == Campaign!buildQuorum(actor, shape)
           by(seat) == IF Owns(actor, sCtx.roster[seat]) THEN sCtx.roster[seat] ELSE Decoy
           held(seat) == IF Owns(actor, sCtx.roster[seat]) THEN <<seat>> ELSE <<>>
           ascending == held(1) \o held(2) \o held(3)
           seats == CASE shape = "honest" -> ascending
                      [] shape = "forgeMissing" -> <<1, 2, 3>>
                      [] shape = "duplicateIndex" -> <<1, 1>>
                      [] shape = "descendingIndices" -> <<3, 2, 1>>
                      [] shape = "outOfRangeIndex" -> <<1, 6>>
                      [] OTHER -> <<>>
           label(seat) == IF seat \in 1..3 THEN by(seat) ELSE Decoy
<1>1. seats \in Seq(Nat)
  <2>1. ascending \in Seq(Nat)
    OBVIOUS
  <2> HIDE DEF ascending
  <2> QED
    BY <2>1
<1>2. /\ q.members = sCtx.roster
      /\ q.attests = [i \in DOMAIN seats |-> [seat |-> seats[i], by |-> label(seats[i])]]
  BY DEF Campaign!buildQuorum, Owns, Decoy
<1> HIDE DEF seats, q
<1>3. sCtx.roster \in Rosters /\ sCtx.roster \in [1..3 -> Labels]
  BY RosterSeats DEF Beliefs
<1>4. PICK n \in Nat : Len(seats) = n /\ DOMAIN seats = 1..n
  BY <1>1
<1>5. \A seat \in 1..3 : ~Owns(actor, sCtx.roster[seat]) => label(seat) # sCtx.roster[seat]
  <2>1. Decoy \notin {"g0", "g1", "g2", "h0", "h1", "h2"}
    BY DEF Decoy, Campaign!Decoy
  <2>2. \A seat \in 1..3 : sCtx.roster[seat] \in {"g0", "g1", "g2", "h0", "h1", "h2"}
    BY <1>3 DEF Rosters, Founders, Successors, Campaign!Founders, Campaign!Successors
  <2> QED
    BY <2>1, <2>2
<1>6. /\ DOMAIN q.attests = 1..n
      /\ \A i \in 1..n : /\ q.attests[i].seat = seats[i] /\ q.attests[i].by = label(seats[i])
                          /\ seats[i] \in Nat /\ q.attests[i] \in Attestations
  <2>1. \A seat \in Nat : label(seat) \in Labels
    BY <1>3 DEF Labels
  <2>2. \A i \in 1..n : seats[i] \in Nat
    BY <1>1, <1>4
  <2> HIDE DEF label
  <2> QED
    BY <1>2, <1>4, <2>1, <2>2 DEF Attestations
<1>7. q.attests \in Seq(Attestations) /\ Len(q.attests) = n
  <2>1. q.attests \in [1..n -> Attestations]
    BY <1>2, <1>4, <1>6
  <2> QED
    BY <2>1
<1>8. Campaign!rootsNow(actor).guardians \in Nat
  BY RootsCounted DEF RootCounts
<1>9. ASSUME Signed(q)
      PROVE  Campaign!rootsNow(actor).guardians >= n
  <2>1. \A i \in 1..n : seats[i] \in 1..3 /\ label(seats[i]) = sCtx.roster[seats[i]]
    BY <1>2, <1>6, <1>9 DEF Signed
  <2>2. \A i \in 1..n : seats[i] \in 1..3 /\ Owns(actor, sCtx.roster[seats[i]])
    BY <1>5, <2>1
  <2>3. \A i \in 1..n : i - 1 \in 1..n => seats[i - 1] < seats[i]
    <3> SUFFICES ASSUME NEW i \in 1..n, i - 1 \in 1..n
                 PROVE  seats[i - 1] < seats[i]
      OBVIOUS
    <3>1. i > 1 /\ i \in DOMAIN q.attests
      BY <1>4, <1>6
    <3>2. q.attests[i - 1].seat < q.attests[i].seat
      BY <1>9, <3>1 DEF Signed
    <3> QED
      BY <1>6, <3>2
  <2>4. n <= 3
    <3> SUFFICES ASSUME n >= 4
                 PROVE  FALSE
      BY <1>4
    <3>1. seats[1] \in 1..3 /\ seats[2] \in 1..3 /\ seats[3] \in 1..3 /\ seats[4] \in 1..3
      BY <2>2
    <3>2. seats[2 - 1] < seats[2] /\ seats[3 - 1] < seats[3] /\ seats[4 - 1] < seats[4]
      BY <2>3
    <3> QED
      BY <3>1, <3>2
  <2>6. CASE n = 1
    BY <2>2, <2>6, SeatsCounted
  <2>7. CASE n = 2
    <3>1. seats[1] \in 1..3 /\ seats[2] \in 1..3 /\ seats[2 - 1] < seats[2]
      BY <2>2, <2>3, <2>7
    <3> QED
      BY <2>2, <2>7, <3>1, SeatsCounted
  <2>8. CASE n = 3
    <3>1. /\ seats[1] \in 1..3 /\ seats[2] \in 1..3 /\ seats[3] \in 1..3
          /\ seats[2 - 1] < seats[2] /\ seats[3 - 1] < seats[3]
      BY <2>2, <2>3, <2>8
    <3>2. seats[1] = 1 /\ seats[2] = 2 /\ seats[3] = 3
      BY <3>1
    <3>3. \A i \in 1..3 : Owns(actor, sCtx.roster[i])
      BY <2>2, <2>8, <3>2
    <3> QED
      BY <2>8, <3>3, SeatsCounted
  <2> QED
    BY <1>8, <2>4, <2>6, <2>7, <2>8
<1> QED
  BY <1>2, <1>3, <1>7, <1>9 DEF QuorumBacked, q

-----------------------------------------------------------------------------
(* The calls that the harness sends *)

SignedByBoth == {"SPEND", "ROTATE_CREDENTIAL", "SET_VERIFIER", "SET_POLICY"}
SignedByOne == {"CANCEL_RECOVERY", "BIND_MIGRATION"}
SignedByQuorum ==
    {"SET_GUARDIANS", "INITIATE_RECOVERY", "CANCEL_RECOVERY_BY_QUORUM", "ENTER_CONTAINMENT",
     "BIND_MIGRATION"}
Unsigned == {"EXECUTE_RECOVERY", "RETIRE", "EGRESS"}
Kinds == SignedByBoth \cup SignedByOne \cup SignedByQuorum \cup Unsigned

DomainOf(kind) ==
    IF kind = "SPEND" THEN "spend"
    ELSE IF kind \in SignedByBoth \cup {"CANCEL_RECOVERY"} THEN "credential"
    ELSE IF kind = "BIND_MIGRATION" THEN "migration" ELSE "guardian"

\* What every call of its kind asks for.
Shaped(c) ==
    /\ c.kind \in Kinds
    /\ c.kind \notin Unsigned => c.domain = DomainOf(c.kind) /\ c.nonce \in Nat
    /\ c.kind = "SPEND" => c.body.amount \in {0, 1}
    /\ c.kind = "ROTATE_CREDENTIAL" =>
          /\ c.body.spare \in Spares
          /\ c.body.hash = c.body.spare \/ (c.body.hash = Decoy /\ c.body.exhibit # Decoy)
    /\ c.kind = "SET_VERIFIER" => c.body.verifier \in VerifierKinds /\ c.body.requirePq \in BOOLEAN
    /\ c.kind = "SET_POLICY" => c.body.policy \in PolicyKinds
    /\ c.kind = "SET_GUARDIANS" =>
          /\ c.body.threshold \in Thresholds
          /\ c.body.roster = Successors \/ c.body.roster[1] = c.body.roster[2]
    /\ c.kind = "INITIATE_RECOVERY" => c.body.spare \in Spares /\ c.body.verifier \in VerifierKinds

\* Every signature on a call that some key could have made is charged for.
BackedBy(c, roots) ==
    /\ roots \in RootCounts
    /\ c.kind \in SignedByBoth \cup SignedByOne /\ c.cred # Decoy => roots.credential >= 1
    /\ c.kind \in SignedByQuorum => QuorumBacked(c.quorum, roots)

\* The second factor too, as long as the harness knows that there is one.
FullyBackedBy(c, roots) ==
    c.kind \in SignedByBoth /\ c.cred # Decoy /\ c.pq \notin {Decoy, NoKey} => roots.credential >= 2

\* Generation 1 does not learn of what a replay changes; until there is one, it follows.
Following == sGeneration = 2 \/ ~sRelayed

\* What the harness believes is what the chain holds.
Match ==
    /\ sCtx.cred = sKernel.signer /\ sCtx.verifier = sKernel.verifier
    /\ sCtx.requirePq = sKernel.requirePq /\ sCtx.policy = sKernel.policy
    /\ sCtx.roster = sKernel.roster
    /\ sKernel.pq # NoKey => sCtx.pq = sKernel.pq

\* Types of the state that the campaign keeps.
Typed ==
    /\ sNow \in Nat /\ sNow > 0 /\ sGeneration \in {1, 2} /\ sProfile \in StatefulProfiles
    /\ sKernel \in Kernels /\ sCtx \in Beliefs /\ sAbstract \in Records

\* A call that its author sends now.
Sends(actor, c, stale) ==
    /\ Campaign!Attempt(actor, c, stale)
    /\ Shaped(c) /\ BackedBy(c, Campaign!rootsNow(actor))
    /\ Match => FullyBackedBy(c, Campaign!rootsNow(actor))
    /\ Campaign!Accepts(c) => ~stale

LEMMA BothSign ==
    ASSUME Typed, NEW actor, NEW kind \in SignedByBoth, NEW body, NEW c,
           c = Campaign!SignedByBoth(kind, DomainOf(kind), actor, body)
    PROVE  /\ c.kind = kind /\ c.body = body /\ c.domain = DomainOf(kind) /\ c.nonce \in Nat
           /\ BackedBy(c, Campaign!rootsNow(actor))
           /\ Match => FullyBackedBy(c, Campaign!rootsNow(actor))
<1>1. /\ c.kind = kind /\ c.body = body /\ c.domain = DomainOf(kind)
      /\ c.nonce = sKernel.nonces[DomainOf(kind)] /\ c.cred = Campaign!credSigningKey(actor)
      /\ c.pq = IF sKernel.requirePq THEN Campaign!pqSigningKey(actor) ELSE NoKey
  BY DEF Campaign!SignedByBoth, NoKey
<1>2. c.nonce \in Nat
  <2>1. DomainOf(kind) \in Domains
    BY DEF DomainOf, Domains
  <2> QED
    BY <1>1, <2>1 DEF Typed, Kernels
<1>3. c.cred # Decoy => Campaign!ownsCred(actor, sCtx.cred)
  BY <1>1 DEF Campaign!credSigningKey, Decoy
<1>4. c.pq \notin {Decoy, NoKey} => sKernel.requirePq /\ Campaign!ownsPq(actor, sCtx.pq)
  BY <1>1 DEF Campaign!pqSigningKey, Decoy
<1>5. kind \notin SignedByQuorum
  BY DEF SignedByBoth, SignedByQuorum
<1> QED
  BY <1>1, <1>2, <1>3, <1>4, <1>5, RootsCounted DEF Typed, BackedBy, FullyBackedBy, Match

LEMMA QuorumSigns ==
    ASSUME Typed, NEW actor, NEW shape, NEW kind \in SignedByQuorum \ {"BIND_MIGRATION"},
           NEW body, NEW c, c = Campaign!SignedByQuorum(kind, actor, shape, body)
    PROVE  /\ c.kind = kind /\ c.body = body /\ c.domain = DomainOf(kind) /\ c.nonce \in Nat
           /\ BackedBy(c, Campaign!rootsNow(actor))
           /\ FullyBackedBy(c, Campaign!rootsNow(actor))
<1>1. /\ c.kind = kind /\ c.body = body /\ c.domain = "guardian"
      /\ c.nonce = sKernel.nonces["guardian"] /\ c.quorum = Campaign!buildQuorum(actor, shape)
  BY DEF Campaign!SignedByQuorum
<1>2. DomainOf(kind) = "guardian" /\ kind \notin SignedByBoth \cup SignedByOne
  BY DEF DomainOf, SignedByQuorum, SignedByBoth, SignedByOne
<1>3. c.nonce \in Nat
  BY <1>1 DEF Typed, Kernels, Domains
<1> QED
  BY <1>1, <1>2, <1>3, RootsCounted, QuorumsBacked DEF Typed, BackedBy, FullyBackedBy

Direct(actor) ==
    \/ Campaign!SPEND(actor) \/ Campaign!ROTATE_CREDENTIAL(actor) \/ Campaign!SET_VERIFIER(actor)
    \/ Campaign!SET_POLICY(actor) \/ Campaign!SET_GUARDIANS(actor)
    \/ Campaign!INITIATE_RECOVERY(actor) \/ Campaign!CANCEL_RECOVERY(actor)
    \/ Campaign!CANCEL_RECOVERY_BY_QUORUM(actor) \/ Campaign!EXECUTE_RECOVERY(actor)
    \/ Campaign!ENTER_CONTAINMENT(actor) \/ Campaign!BIND_MIGRATION(actor)
    \/ Campaign!RETIRE(actor) \/ Campaign!EGRESS(actor)

LEMMA CallsSent ==
    ASSUME Typed, NEW actor, Direct(actor)
    PROVE  \E c, stale : Sends(actor, c, stale)
<1> DEFINE roots == Campaign!rootsNow(actor)
           Sent(c, stale) == Sends(actor, c, stale)
<1>0. /\ sCtx \in Beliefs /\ sCtx.pq \in RealKeys /\ sCtx.roster \in Rosters
      /\ sProfile \in StatefulProfiles
  BY DEF Typed, Beliefs
<1>1. CASE Campaign!SPEND(actor)
  <2>1. PICK amount \in {0, 1} :
            Campaign!Attempt(actor,
                Campaign!SignedByBoth("SPEND", "spend", actor, [amount |-> amount]), FALSE)
    BY <1>1 DEF Campaign!SPEND
  <2>2. PICK c : c = Campaign!SignedByBoth("SPEND", "spend", actor, [amount |-> amount])
    OBVIOUS
  <2>3. /\ c.kind = "SPEND" /\ c.body = [amount |-> amount] /\ c.domain = DomainOf("SPEND")
        /\ c.nonce \in Nat /\ BackedBy(c, roots) /\ (Match => FullyBackedBy(c, roots))
    <3>1. DomainOf("SPEND") = "spend" /\ "SPEND" \in SignedByBoth
      BY DEF DomainOf, SignedByBoth
    <3> QED
      BY <2>2, <3>1, BothSign
  <2>4. Shaped(c)
    BY <2>3 DEF Shaped, Kinds, SignedByBoth
  <2> QED
    BY <2>1, <2>2, <2>3, <2>4 DEF Sends
<1>2. CASE Campaign!ROTATE_CREDENTIAL(actor)
  <2> DEFINE Body(spare, popStale, fabricate) ==
                 [spare |-> spare, hash |-> IF fabricate THEN Decoy ELSE spare,
                  exhibit |-> IF fabricate THEN sCtx.pq ELSE spare,
                  pop |-> IF popStale THEN sCtx.cred ELSE spare]
  <2>1. PICK spare \in Spares, popStale \in BOOLEAN, fabricate \in {FALSE, sProfile.fabricate} :
            Campaign!Attempt(actor,
                Campaign!SignedByBoth("ROTATE_CREDENTIAL", "credential", actor,
                    Body(spare, popStale, fabricate)),
                popStale /\ sCtx.cred # spare)
    BY <1>2 DEF Campaign!ROTATE_CREDENTIAL, Decoy
  <2>2. PICK body : body = Body(spare, popStale, fabricate)
    OBVIOUS
  <2>3. PICK c : c = Campaign!SignedByBoth("ROTATE_CREDENTIAL", "credential", actor, body)
    OBVIOUS
  <2>4. PICK stale : stale = (popStale /\ sCtx.cred # spare)
    OBVIOUS
  <2>5. /\ c.kind = "ROTATE_CREDENTIAL" /\ c.body = body /\ c.nonce \in Nat
        /\ c.domain = DomainOf("ROTATE_CREDENTIAL")
        /\ BackedBy(c, roots) /\ (Match => FullyBackedBy(c, roots))
    <3>1. DomainOf("ROTATE_CREDENTIAL") = "credential" /\ "ROTATE_CREDENTIAL" \in SignedByBoth
      BY DEF DomainOf, SignedByBoth
    <3> QED
      BY <2>3, <3>1, BothSign
  <2>6. /\ body.spare = spare /\ body.pop = IF popStale THEN sCtx.cred ELSE spare
        /\ body.hash = spare \/ (body.hash = Decoy /\ body.exhibit = sCtx.pq)
    BY <2>2
  <2>7. Shaped(c)
    BY <1>0, <2>5, <2>6, Constants DEF Shaped, Kinds, SignedByBoth
  <2>8. Campaign!Accepts(c) => ~stale
    <3>1. Campaign!Accepts(c) => Campaign!Possesses(c, c.body.spare, sKernel.verifier)
      BY <2>5 DEF Campaign!Accepts
    <3>2. Campaign!Accepts(c) => c.body.pop = c.body.spare
      BY <3>1 DEF Campaign!Possesses
    <3> QED
      BY <2>4, <2>5, <2>6, <3>2
  <2>9. Campaign!Attempt(actor, c, stale)
    BY <2>1, <2>2, <2>3, <2>4
  <2> QED
    BY <2>5, <2>7, <2>8, <2>9 DEF Sends
<1>3. CASE Campaign!SET_VERIFIER(actor)
  <2> DEFINE Body(verifier, raisePq) ==
                 [verifier |-> verifier, requirePq |-> sKernel.requirePq \/ raisePq,
                  exhibit |-> Genesis]
  <2>1. PICK verifier \in VerifierKinds, raisePq \in BOOLEAN :
            Campaign!Attempt(actor,
                Campaign!SignedByBoth("SET_VERIFIER", "credential", actor, Body(verifier, raisePq)),
                FALSE)
    BY <1>3 DEF Campaign!SET_VERIFIER, Genesis
  <2>2. PICK body : body = Body(verifier, raisePq)
    OBVIOUS
  <2>3. PICK c : c = Campaign!SignedByBoth("SET_VERIFIER", "credential", actor, body)
    OBVIOUS
  <2>4. /\ c.kind = "SET_VERIFIER" /\ c.body = body /\ c.nonce \in Nat
        /\ c.domain = DomainOf("SET_VERIFIER")
        /\ BackedBy(c, roots) /\ (Match => FullyBackedBy(c, roots))
    <3>1. DomainOf("SET_VERIFIER") = "credential" /\ "SET_VERIFIER" \in SignedByBoth
      BY DEF DomainOf, SignedByBoth
    <3> QED
      BY <2>3, <3>1, BothSign
  <2>5. body.verifier = verifier /\ body.requirePq \in BOOLEAN
    BY <2>2
  <2>6. Shaped(c)
    BY <2>4, <2>5 DEF Shaped, Kinds, SignedByBoth
  <2> QED
    BY <2>1, <2>2, <2>3, <2>4, <2>6 DEF Sends
<1>4. CASE Campaign!SET_POLICY(actor)
  <2>1. PICK policy \in PolicyKinds :
            Campaign!Attempt(actor,
                Campaign!SignedByBoth("SET_POLICY", "credential", actor, [policy |-> policy]), FALSE)
    BY <1>4 DEF Campaign!SET_POLICY
  <2>2. PICK c : c = Campaign!SignedByBoth("SET_POLICY", "credential", actor, [policy |-> policy])
    OBVIOUS
  <2>3. /\ c.kind = "SET_POLICY" /\ c.body = [policy |-> policy] /\ c.nonce \in Nat
        /\ c.domain = DomainOf("SET_POLICY")
        /\ BackedBy(c, roots) /\ (Match => FullyBackedBy(c, roots))
    <3>1. DomainOf("SET_POLICY") = "credential" /\ "SET_POLICY" \in SignedByBoth
      BY DEF DomainOf, SignedByBoth
    <3> QED
      BY <2>2, <3>1, BothSign
  <2>4. Shaped(c)
    BY <2>3 DEF Shaped, Kinds, SignedByBoth
  <2> QED
    BY <2>1, <2>2, <2>3, <2>4 DEF Sends
<1>5. CASE Campaign!SET_GUARDIANS(actor)
  <2>1. PICK shape \in QuorumShapes, threshold \in Thresholds,
             roster \in {Successors, <<sCtx.roster[1], sCtx.roster[1], sCtx.roster[2]>>} :
            Campaign!Attempt(actor,
                Campaign!SignedByQuorum("SET_GUARDIANS", actor, shape,
                    [threshold |-> threshold, roster |-> roster]), FALSE)
    BY <1>5 DEF Campaign!SET_GUARDIANS, Successors
  <2>2. PICK body : body = [threshold |-> threshold, roster |-> roster]
    OBVIOUS
  <2>3. PICK c : c = Campaign!SignedByQuorum("SET_GUARDIANS", actor, shape, body)
    OBVIOUS
  <2>4. /\ c.kind = "SET_GUARDIANS" /\ c.body = body /\ c.nonce \in Nat
        /\ c.domain = DomainOf("SET_GUARDIANS")
        /\ BackedBy(c, roots) /\ FullyBackedBy(c, roots)
    <3>1. "SET_GUARDIANS" \in SignedByQuorum \ {"BIND_MIGRATION"}
      BY DEF SignedByQuorum
    <3> QED
      BY <2>3, <3>1, QuorumSigns
  <2>5. body.threshold = threshold /\ (body.roster = Successors \/ body.roster[1] = body.roster[2])
    BY <2>2
  <2>6. Shaped(c)
    BY <2>4, <2>5 DEF Shaped, Kinds, SignedByQuorum
  <2> QED
    BY <2>1, <2>2, <2>3, <2>4, <2>6 DEF Sends
<1>6. CASE Campaign!INITIATE_RECOVERY(actor)
  <2>1. PICK shape \in QuorumShapes, spare \in Spares, verifier \in VerifierKinds :
            Campaign!Attempt(actor,
                Campaign!SignedByQuorum("INITIATE_RECOVERY", actor, shape,
                    [spare |-> spare, verifier |-> verifier]), FALSE)
    BY <1>6 DEF Campaign!INITIATE_RECOVERY
  <2>2. PICK body : body = [spare |-> spare, verifier |-> verifier]
    OBVIOUS
  <2>3. PICK c : c = Campaign!SignedByQuorum("INITIATE_RECOVERY", actor, shape, body)
    OBVIOUS
  <2>4. /\ c.kind = "INITIATE_RECOVERY" /\ c.body = body /\ c.nonce \in Nat
        /\ c.domain = DomainOf("INITIATE_RECOVERY")
        /\ BackedBy(c, roots) /\ FullyBackedBy(c, roots)
    <3>1. "INITIATE_RECOVERY" \in SignedByQuorum \ {"BIND_MIGRATION"}
      BY DEF SignedByQuorum
    <3> QED
      BY <2>3, <3>1, QuorumSigns
  <2>5. body.spare = spare /\ body.verifier = verifier
    BY <2>2
  <2>6. Shaped(c)
    BY <2>4, <2>5 DEF Shaped, Kinds, SignedByQuorum
  <2> QED
    BY <2>1, <2>2, <2>3, <2>4, <2>6 DEF Sends
<1>7. CASE Campaign!CANCEL_RECOVERY(actor)
  <2>1. PICK c : c = [kind |-> "CANCEL_RECOVERY", domain |-> "credential",
                      nonce |-> sKernel.nonces["credential"],
                      generation |-> sKernel.credentialGeneration,
                      cred |-> Campaign!credSigningKey(actor)]
    OBVIOUS
  <2>2. Campaign!Attempt(actor, c, FALSE)
    BY <1>7, <2>1 DEF Campaign!CANCEL_RECOVERY
  <2>3. /\ c.kind = "CANCEL_RECOVERY" /\ c.domain = "credential"
        /\ c.nonce = sKernel.nonces["credential"] /\ c.cred = Campaign!credSigningKey(actor)
    BY <2>1
  <2>4. Shaped(c)
    BY <2>3 DEF Shaped, Kinds, SignedByOne, Unsigned, DomainOf, Typed, Kernels, Domains
  <2>5. BackedBy(c, roots) /\ FullyBackedBy(c, roots)
    BY <1>0, <2>3, RootsCounted DEF BackedBy, FullyBackedBy, SignedByBoth, SignedByQuorum,
       Campaign!credSigningKey, Decoy
  <2> QED
    BY <2>2, <2>4, <2>5 DEF Sends
<1>8. CASE Campaign!CANCEL_RECOVERY_BY_QUORUM(actor)
  <2>1. PICK shape \in QuorumShapes :
            Campaign!Attempt(actor,
                Campaign!SignedByQuorum("CANCEL_RECOVERY_BY_QUORUM", actor, shape, Campaign!NoBody),
                FALSE)
    BY <1>8 DEF Campaign!CANCEL_RECOVERY_BY_QUORUM
  <2>2. PICK c : c = Campaign!SignedByQuorum("CANCEL_RECOVERY_BY_QUORUM", actor, shape,
                                             Campaign!NoBody)
    OBVIOUS
  <2>3. /\ c.kind = "CANCEL_RECOVERY_BY_QUORUM" /\ c.nonce \in Nat
        /\ c.domain = DomainOf("CANCEL_RECOVERY_BY_QUORUM")
        /\ BackedBy(c, roots) /\ FullyBackedBy(c, roots)
    <3>1. "CANCEL_RECOVERY_BY_QUORUM" \in SignedByQuorum \ {"BIND_MIGRATION"}
      BY DEF SignedByQuorum
    <3> QED
      BY <2>2, <3>1, QuorumSigns
  <2>4. Shaped(c)
    BY <2>3 DEF Shaped, Kinds, SignedByQuorum
  <2> QED
    BY <2>1, <2>2, <2>3, <2>4 DEF Sends
<1>9. CASE Campaign!EXECUTE_RECOVERY(actor)
  <2> DEFINE r == sKernel.recovery
             proposed == IF r.spare = NoKey THEN sCtx.cred ELSE r.spare
             Sent1(popStale) ==
                 [kind |-> "EXECUTE_RECOVERY",
                  body |-> [spare |-> r.spare, executableAt |-> r.executableAt,
                            hash |-> r.spare, exhibit |-> proposed,
                            pop |-> IF popStale THEN sCtx.cred ELSE proposed]]
  <2>1. PICK popStale \in BOOLEAN :
            Campaign!Attempt(actor, Sent1(popStale),
                             popStale /\ r.spare # NoKey /\ sCtx.cred # r.spare)
    BY <1>9 DEF Campaign!EXECUTE_RECOVERY, NoKey
  <2>2. PICK c : c = Sent1(popStale)
    OBVIOUS
  <2>3. PICK stale : stale = (popStale /\ r.spare # NoKey /\ sCtx.cred # r.spare)
    OBVIOUS
  <2>4. c.kind = "EXECUTE_RECOVERY" /\ c.body.pop = IF popStale THEN sCtx.cred ELSE proposed
    BY <2>2
  <2>5. Shaped(c)
    BY <2>4 DEF Shaped, Kinds, Unsigned
  <2>6. BackedBy(c, roots) /\ FullyBackedBy(c, roots)
    BY <1>0, <2>4, RootsCounted DEF BackedBy, FullyBackedBy, SignedByBoth, SignedByOne,
       SignedByQuorum
  <2>7. Campaign!Accepts(c) => ~stale
    <3>1. Campaign!Accepts(c) => Campaign!Possesses(c, r.spare, r.verifier)
      BY <2>4 DEF Campaign!Accepts
    <3>2. Campaign!Accepts(c) => c.body.pop = r.spare
      BY <3>1 DEF Campaign!Possesses
    <3> QED
      BY <2>3, <2>4, <3>2
  <2>8. Campaign!Attempt(actor, c, stale)
    BY <2>1, <2>2, <2>3
  <2> QED
    BY <2>5, <2>6, <2>7, <2>8 DEF Sends
<1>10. CASE Campaign!ENTER_CONTAINMENT(actor)
  <2>1. PICK shape \in QuorumShapes :
            Campaign!Attempt(actor,
                Campaign!SignedByQuorum("ENTER_CONTAINMENT", actor, shape, Campaign!NoBody), FALSE)
    BY <1>10 DEF Campaign!ENTER_CONTAINMENT
  <2>2. PICK c : c = Campaign!SignedByQuorum("ENTER_CONTAINMENT", actor, shape, Campaign!NoBody)
    OBVIOUS
  <2>3. /\ c.kind = "ENTER_CONTAINMENT" /\ c.nonce \in Nat
        /\ c.domain = DomainOf("ENTER_CONTAINMENT")
        /\ BackedBy(c, roots) /\ FullyBackedBy(c, roots)
    <3>1. "ENTER_CONTAINMENT" \in SignedByQuorum \ {"BIND_MIGRATION"}
      BY DEF SignedByQuorum
    <3> QED
      BY <2>2, <3>1, QuorumSigns
  <2>4. Shaped(c)
    BY <2>3 DEF Shaped, Kinds, SignedByQuorum
  <2> QED
    BY <2>1, <2>2, <2>3, <2>4 DEF Sends
<1>11. CASE Campaign!BIND_MIGRATION(actor)
  <2> DEFINE Sent1(shape) ==
                 [kind |-> "BIND_MIGRATION", domain |-> "migration",
                  nonce |-> sKernel.nonces["migration"], generation |-> sKernel.guardianGeneration,
                  quorum |-> Campaign!buildQuorum(actor, shape),
                  cred |-> Campaign!credSigningKey(actor)]
  <2>1. PICK shape \in QuorumShapes : Campaign!Attempt(actor, Sent1(shape), FALSE)
    BY <1>11 DEF Campaign!BIND_MIGRATION
  <2>2. PICK c : c = Sent1(shape)
    OBVIOUS
  <2>3. /\ c.kind = "BIND_MIGRATION" /\ c.domain = "migration"
        /\ c.nonce = sKernel.nonces["migration"] /\ c.cred = Campaign!credSigningKey(actor)
        /\ c.quorum = Campaign!buildQuorum(actor, shape)
    BY <2>2
  <2>4. Shaped(c)
    BY <2>3 DEF Shaped, Kinds, SignedByOne, SignedByBoth, Unsigned, DomainOf, Typed, Kernels,
       Domains
  <2>5. BackedBy(c, roots) /\ FullyBackedBy(c, roots)
    BY <1>0, <2>3, RootsCounted, QuorumsBacked DEF BackedBy, FullyBackedBy, SignedByBoth,
       SignedByQuorum, Campaign!credSigningKey, Decoy
  <2> QED
    BY <2>1, <2>2, <2>4, <2>5 DEF Sends
<1>12. CASE Campaign!RETIRE(actor) \/ Campaign!EGRESS(actor)
  <2>1. PICK kind \in {"RETIRE", "EGRESS"} : Campaign!Attempt(actor, [kind |-> kind], FALSE)
    BY <1>12 DEF Campaign!RETIRE, Campaign!EGRESS
  <2>2. PICK c : c = [kind |-> kind]
    OBVIOUS
  <2>3. c.kind = kind
    BY <2>2
  <2>4. Shaped(c)
    BY <2>3 DEF Shaped, Kinds, Unsigned
  <2>5. BackedBy(c, roots) /\ FullyBackedBy(c, roots)
    BY <1>0, <2>3, RootsCounted DEF BackedBy, FullyBackedBy, SignedByBoth, SignedByOne,
       SignedByQuorum
  <2> QED
    BY <2>1, <2>2, <2>4, <2>5 DEF Sends
<1> QED
  BY <1>1, <1>2, <1>3, <1>4, <1>5, <1>6, <1>7, <1>8, <1>9, <1>10, <1>11, <1>12 DEF Direct

-----------------------------------------------------------------------------
(* What each kind of call leaves behind *)

CredentialKept ==
    UNCHANGED <<sKernel.signer, sKernel.pq, sKernel.verifier, sKernel.requirePq,
                sKernel.credentialGeneration>>

RosterKept == UNCHANGED <<sKernel.roster, sKernel.threshold, sKernel.guardianGeneration>>

SafeStateKept == UNCHANGED <<sState, sUntil, sPrevious, sEarlier>>

\* One nonce moves, by one.
NonceSpent(domain) ==
    /\ domain \in Domains
    /\ \A d \in Domains : sKernel'.nonces[d] = sKernel.nonces[d] + (IF d = domain THEN 1 ELSE 0)

LEMMA NonceIsSpent ==
    ASSUME Typed, NEW domain \in Domains, sKernel'.nonces = Campaign!Spent(domain)
    PROVE  NonceSpent(domain) /\ sKernel'.nonces \in [Domains -> Nat]
<1>1. sKernel.nonces \in [Domains -> Nat]
  BY DEF Typed, Kernels
<1>2. sKernel'.nonces = [sKernel.nonces EXCEPT ![domain] = sKernel.nonces[domain] + 1]
  BY DEF Campaign!Spent
<1> QED
  BY <1>1, <1>2 DEF NonceSpent

LEMMA SpendLeaves ==
    ASSUME Typed, NEW c, Shaped(c), c.kind = "SPEND",
           sKernel' = Campaign!Landed(c), Campaign!SafeStateAfter(c)
    PROVE  /\ sKernel' \in Kernels /\ NonceSpent("spend")
           /\ sKernel'.balance = sKernel.balance - c.body.amount
           /\ CredentialKept /\ RosterKept /\ SafeStateKept
           /\ UNCHANGED <<sKernel.policy, sKernel.recovery, sKernel.boundAt>>
<1>1. sKernel' = [sKernel EXCEPT !.nonces = Campaign!Spent("spend"),
                                 !.balance = sKernel.balance - c.body.amount]
  BY DEF Campaign!Landed
<1>2. sKernel'.nonces = Campaign!Spent("spend")
  BY <1>1 DEF Typed, Kernels
<1>3. NonceSpent("spend") /\ sKernel'.nonces \in [Domains -> Nat]
  BY <1>2, NonceIsSpent DEF Domains
<1>4. SafeStateKept
  BY DEF Campaign!SafeStateAfter, Campaign!containment, SafeStateKept
<1>5. sKernel.balance - c.body.amount \in Int
  BY DEF Shaped, Typed, Kernels
<1> QED
  BY <1>1, <1>2, <1>3, <1>4, <1>5 DEF Typed, Kernels, CredentialKept, RosterKept

\* The request that each call on recoveries leaves.
Proposal(c) ==
    [active |-> TRUE, spare |-> c.body.spare, verifier |-> c.body.verifier,
     executableAt |-> sNow + RecoveryDelay, expiresAt |-> sNow + RecoveryWindow,
     challengesUsed |-> sKernel.recovery.challengesUsed]

LEMMA RotateLeaves ==
    ASSUME Typed, NEW c, Shaped(c), c.kind = "ROTATE_CREDENTIAL", c.body.hash = c.body.spare,
           sKernel' = Campaign!Landed(c), Campaign!SafeStateAfter(c)
    PROVE  /\ sKernel' \in Kernels /\ NonceSpent("credential")
           /\ sKernel'.signer = c.body.spare /\ sKernel'.pq = c.body.spare
           /\ sKernel'.credentialGeneration = sKernel.credentialGeneration + 1
           /\ RosterKept /\ SafeStateKept
           /\ UNCHANGED <<sKernel.verifier, sKernel.requirePq, sKernel.policy, sKernel.recovery,
                          sKernel.boundAt, sKernel.balance>>
<1>1. sKernel' = [sKernel EXCEPT !.nonces = Campaign!Spent("credential"),
                                 !.signer = c.body.spare,
                                 !.pq = c.body.hash,
                                 !.credentialGeneration = sKernel.credentialGeneration + 1]
  BY DEF Campaign!Landed, NoKey, Decoy
<1>2. NonceSpent("credential") /\ sKernel'.nonces \in [Domains -> Nat]
  <2>1. sKernel'.nonces = Campaign!Spent("credential")
    BY <1>1 DEF Typed, Kernels
  <2> QED
    BY <2>1, NonceIsSpent DEF Domains
<1>3. SafeStateKept
  BY DEF Campaign!SafeStateAfter, Campaign!containment, SafeStateKept
<1>4. c.body.spare \in RealKeys /\ sKernel.credentialGeneration + 1 \in Nat
  BY Constants DEF Shaped, Typed, Kernels, RealKeys
<1> QED
  BY <1>1, <1>2, <1>3, <1>4 DEF Typed, Kernels, CredentialKept, RosterKept

LEMMA SetVerifierLeaves ==
    ASSUME Typed, NEW c, Shaped(c), c.kind = "SET_VERIFIER",
           sKernel' = Campaign!Landed(c), Campaign!SafeStateAfter(c)
    PROVE  /\ sKernel' \in Kernels /\ NonceSpent("credential")
           /\ sKernel'.verifier = c.body.verifier /\ sKernel'.requirePq = c.body.requirePq
           /\ RosterKept /\ SafeStateKept
           /\ UNCHANGED <<sKernel.signer, sKernel.pq, sKernel.credentialGeneration,
                          sKernel.policy, sKernel.recovery, sKernel.boundAt, sKernel.balance>>
<1>1. sKernel' = [sKernel EXCEPT !.nonces = Campaign!Spent("credential"),
                                 !.verifier = c.body.verifier,
                                 !.requirePq = c.body.requirePq]
  BY DEF Campaign!Landed, NoKey, Decoy
<1>2. NonceSpent("credential") /\ sKernel'.nonces \in [Domains -> Nat]
  <2>1. sKernel'.nonces = Campaign!Spent("credential")
    BY <1>1 DEF Typed, Kernels
  <2> QED
    BY <2>1, NonceIsSpent DEF Domains
<1>3. SafeStateKept
  BY DEF Campaign!SafeStateAfter, Campaign!containment, SafeStateKept
<1>4. c.body.verifier \in Verifiers /\ c.body.requirePq \in BOOLEAN
  BY Constants DEF Shaped, Verifiers
<1> QED
  BY <1>1, <1>2, <1>3, <1>4 DEF Typed, Kernels, CredentialKept, RosterKept

LEMMA SetPolicyLeaves ==
    ASSUME Typed, NEW c, Shaped(c), c.kind = "SET_POLICY",
           sKernel' = Campaign!Landed(c), Campaign!SafeStateAfter(c)
    PROVE  /\ sKernel' \in Kernels /\ NonceSpent("credential")
           /\ sKernel'.policy = c.body.policy
           /\ CredentialKept /\ RosterKept /\ SafeStateKept
           /\ UNCHANGED <<sKernel.recovery, sKernel.boundAt, sKernel.balance>>
<1>1. sKernel' = [sKernel EXCEPT !.nonces = Campaign!Spent("credential"),
                                 !.policy = c.body.policy]
  BY DEF Campaign!Landed, NoKey, Decoy
<1>2. NonceSpent("credential") /\ sKernel'.nonces \in [Domains -> Nat]
  <2>1. sKernel'.nonces = Campaign!Spent("credential")
    BY <1>1 DEF Typed, Kernels
  <2> QED
    BY <2>1, NonceIsSpent DEF Domains
<1>3. SafeStateKept
  BY DEF Campaign!SafeStateAfter, Campaign!containment, SafeStateKept
<1>4. c.body.policy \in Policies
  BY Constants DEF Shaped, Policies
<1> QED
  BY <1>1, <1>2, <1>3, <1>4 DEF Typed, Kernels, CredentialKept, RosterKept

LEMMA SetGuardiansLeaves ==
    ASSUME Typed, NEW c, Shaped(c), c.kind = "SET_GUARDIANS", c.body.roster = Successors,
           sKernel' = Campaign!Landed(c), Campaign!SafeStateAfter(c)
    PROVE  /\ sKernel' \in Kernels /\ NonceSpent("guardian")
           /\ sKernel'.roster = Successors /\ sKernel'.threshold = c.body.threshold
           /\ sKernel'.guardianGeneration = sKernel.guardianGeneration + 1
           /\ CredentialKept /\ SafeStateKept
           /\ UNCHANGED <<sKernel.policy, sKernel.recovery, sKernel.boundAt, sKernel.balance>>
<1>1. sKernel' = [sKernel EXCEPT !.nonces = Campaign!Spent("guardian"),
                                 !.roster = c.body.roster,
                                 !.threshold = c.body.threshold,
                                 !.guardianGeneration = sKernel.guardianGeneration + 1]
  BY DEF Campaign!Landed, NoKey, Decoy
<1>2. NonceSpent("guardian") /\ sKernel'.nonces \in [Domains -> Nat]
  <2>1. sKernel'.nonces = Campaign!Spent("guardian")
    BY <1>1 DEF Typed, Kernels
  <2> QED
    BY <2>1, NonceIsSpent DEF Domains
<1>3. SafeStateKept
  BY DEF Campaign!SafeStateAfter, Campaign!containment, SafeStateKept
<1>4. c.body.roster \in Rosters /\ c.body.threshold \in Nat /\ sKernel.guardianGeneration + 1 \in Nat
  <2>1. c.body.threshold \in Thresholds /\ Thresholds \subseteq Nat
    BY Constants DEF Shaped
  <2>2. c.body.roster \in Rosters
    BY DEF Rosters
  <2>3. sKernel.guardianGeneration + 1 \in Nat
    BY DEF Typed, Kernels
  <2>4. c.body.threshold \in Nat
    BY <2>1
  <2> QED
    BY <2>2, <2>3, <2>4
<1> QED
  BY <1>1, <1>2, <1>3, <1>4 DEF Typed, Kernels, CredentialKept, RosterKept

LEMMA InitiateLeaves ==
    ASSUME Typed, NEW c, Shaped(c), c.kind = "INITIATE_RECOVERY",
           sKernel' = Campaign!Landed(c), Campaign!SafeStateAfter(c)
    PROVE  /\ sKernel' \in Kernels /\ NonceSpent("guardian")
           /\ sKernel'.recovery = Proposal(c)
           /\ CredentialKept /\ RosterKept /\ SafeStateKept
           /\ UNCHANGED <<sKernel.policy, sKernel.boundAt, sKernel.balance>>
<1>1. sKernel' = [sKernel EXCEPT !.nonces = Campaign!Spent("guardian"),
                                 !.recovery = Proposal(c)]
  BY DEF Campaign!Landed, Proposal
<1>2. NonceSpent("guardian") /\ sKernel'.nonces \in [Domains -> Nat]
  <2>1. sKernel'.nonces = Campaign!Spent("guardian")
    BY <1>1 DEF Typed, Kernels
  <2> QED
    BY <2>1, NonceIsSpent DEF Domains
<1>3. SafeStateKept
  BY DEF Campaign!SafeStateAfter, Campaign!containment, SafeStateKept
<1>4. Proposal(c) \in Requests
  BY Constants DEF Shaped, Typed, Kernels, Requests, Proposal, Verifiers
<1> QED
  BY <1>1, <1>2, <1>3, <1>4 DEF Typed, Kernels, CredentialKept, RosterKept, Requests

LEMMA CancelLeaves ==
    ASSUME Typed, NEW c, Shaped(c), c.kind = "CANCEL_RECOVERY",
           sKernel' = Campaign!Landed(c), Campaign!SafeStateAfter(c)
    PROVE  /\ sKernel' \in Kernels /\ NonceSpent("credential")
           /\ sKernel'.recovery = Campaign!Challenged
           /\ CredentialKept /\ RosterKept /\ SafeStateKept
           /\ UNCHANGED <<sKernel.policy, sKernel.boundAt, sKernel.balance>>
<1>1. sKernel' = [sKernel EXCEPT !.nonces = Campaign!Spent("credential"),
                                 !.recovery = Campaign!Challenged]
  BY DEF Campaign!Landed, NoKey, Decoy
<1>2. NonceSpent("credential") /\ sKernel'.nonces \in [Domains -> Nat]
  <2>1. sKernel'.nonces = Campaign!Spent("credential")
    BY <1>1 DEF Typed, Kernels
  <2> QED
    BY <2>1, NonceIsSpent DEF Domains
<1>3. SafeStateKept
  BY DEF Campaign!SafeStateAfter, Campaign!containment, SafeStateKept
<1>4. Campaign!Challenged \in Requests
  <2>1. sKernel.recovery \in Requests
    BY DEF Typed, Kernels
  <2>2. Campaign!Dropped \in Requests
    BY <2>1 DEF Requests, Campaign!Dropped
  <2>3. Campaign!Dropped.challengesUsed + 1 \in Nat
    BY <2>2 DEF Requests
  <2> QED
    BY <2>2, <2>3 DEF Requests, Campaign!Challenged
<1> QED
  BY <1>1, <1>2, <1>3, <1>4 DEF Typed, Kernels, CredentialKept, RosterKept, Requests

LEMMA QuorumCancelLeaves ==
    ASSUME Typed, NEW c, Shaped(c), c.kind = "CANCEL_RECOVERY_BY_QUORUM",
           sKernel' = Campaign!Landed(c), Campaign!SafeStateAfter(c)
    PROVE  /\ sKernel' \in Kernels /\ NonceSpent("guardian")
           /\ sKernel'.recovery = Campaign!Dropped
           /\ CredentialKept /\ RosterKept /\ SafeStateKept
           /\ UNCHANGED <<sKernel.policy, sKernel.boundAt, sKernel.balance>>
<1>1. sKernel' = [sKernel EXCEPT !.nonces = Campaign!Spent("guardian"),
                                 !.recovery = Campaign!Dropped]
  BY DEF Campaign!Landed, NoKey, Decoy
<1>2. NonceSpent("guardian") /\ sKernel'.nonces \in [Domains -> Nat]
  <2>1. sKernel'.nonces = Campaign!Spent("guardian")
    BY <1>1 DEF Typed, Kernels
  <2> QED
    BY <2>1, NonceIsSpent DEF Domains
<1>3. SafeStateKept
  BY DEF Campaign!SafeStateAfter, Campaign!containment, SafeStateKept
<1>4. Campaign!Dropped \in Requests
  <2>1. sKernel.recovery \in Requests
    BY DEF Typed, Kernels
  <2> QED
    BY <2>1 DEF Requests, Campaign!Dropped
<1> QED
  BY <1>1, <1>2, <1>3, <1>4 DEF Typed, Kernels, CredentialKept, RosterKept, Requests

LEMMA ExecuteLeaves ==
    ASSUME Typed, NEW c, Shaped(c), c.kind = "EXECUTE_RECOVERY", sKernel.recovery.spare \in Spares,
           sKernel' = Campaign!Landed(c), Campaign!SafeStateAfter(c)
    PROVE  /\ sKernel' \in Kernels
           /\ sKernel'.signer = sKernel.recovery.spare /\ sKernel'.pq = sKernel.recovery.spare
           /\ sKernel'.verifier = sKernel.recovery.verifier /\ sKernel'.recovery = Campaign!NoRequest
           /\ sKernel'.credentialGeneration = sKernel.credentialGeneration + 1
           /\ RosterKept /\ SafeStateKept
           /\ UNCHANGED <<sKernel.requirePq, sKernel.policy, sKernel.nonces, sKernel.boundAt,
                          sKernel.balance>>
<1>1. sKernel' = [sKernel EXCEPT !.signer = sKernel.recovery.spare,
                                 !.pq = sKernel.recovery.spare,
                                 !.verifier = sKernel.recovery.verifier,
                                 !.credentialGeneration = sKernel.credentialGeneration + 1,
                                 !.recovery = Campaign!NoRequest]
  BY DEF Campaign!Landed, NoKey, Decoy
<1>3. SafeStateKept
  BY DEF Campaign!SafeStateAfter, Campaign!containment, SafeStateKept
<1>4. /\ Campaign!NoRequest \in Requests /\ sKernel.recovery.spare \in RealKeys
      /\ sKernel.recovery.verifier \in Verifiers /\ sKernel.credentialGeneration + 1 \in Nat
  BY Constants DEF Typed, Kernels, Requests, RealKeys, Verifiers, Campaign!NoRequest, NoKey
<1> QED
  BY <1>1, <1>3, <1>4 DEF Typed, Kernels, CredentialKept, RosterKept, Requests

LEMMA ContainLeaves ==
    ASSUME Typed, NEW c, Shaped(c), c.kind = "ENTER_CONTAINMENT",
           sKernel' = Campaign!Landed(c), Campaign!SafeStateAfter(c)
    PROVE  /\ sKernel' \in Kernels /\ NonceSpent("guardian")
           /\ CredentialKept /\ RosterKept /\ Campaign!Contain
           /\ UNCHANGED <<sKernel.policy, sKernel.recovery, sKernel.boundAt, sKernel.balance>>
<1>1. sKernel' = [sKernel EXCEPT !.nonces = Campaign!Spent("guardian")]
  BY DEF Campaign!Landed, NoKey, Decoy
<1>2. NonceSpent("guardian") /\ sKernel'.nonces \in [Domains -> Nat]
  <2>1. sKernel'.nonces = Campaign!Spent("guardian")
    BY <1>1 DEF Typed, Kernels
  <2> QED
    BY <2>1, NonceIsSpent DEF Domains
<1>3. Campaign!Contain
  BY DEF Campaign!SafeStateAfter, Campaign!containment, SafeStateKept
<1> QED
  BY <1>1, <1>2, <1>3 DEF Typed, Kernels, CredentialKept, RosterKept

LEMMA BindLeaves ==
    ASSUME Typed, NEW c, Shaped(c), c.kind = "BIND_MIGRATION",
           sKernel' = Campaign!Landed(c), Campaign!SafeStateAfter(c)
    PROVE  /\ sKernel' \in Kernels /\ NonceSpent("migration")
           /\ sKernel'.boundAt = sNow
           /\ CredentialKept /\ RosterKept /\ Campaign!LeaveFor("MIGRATION_ONLY")
           /\ UNCHANGED <<sKernel.policy, sKernel.recovery, sKernel.balance>>
<1>1. sKernel' = [sKernel EXCEPT !.nonces = Campaign!Spent("migration"),
                                 !.boundAt = sNow]
  BY DEF Campaign!Landed, NoKey, Decoy
<1>2. NonceSpent("migration") /\ sKernel'.nonces \in [Domains -> Nat]
  <2>1. sKernel'.nonces = Campaign!Spent("migration")
    BY <1>1 DEF Typed, Kernels
  <2> QED
    BY <2>1, NonceIsSpent DEF Domains
<1>3. Campaign!LeaveFor("MIGRATION_ONLY")
  BY DEF Campaign!SafeStateAfter, Campaign!containment, SafeStateKept
<1>4. sNow \in Nat
  BY Constants DEF Typed
<1> QED
  BY <1>1, <1>2, <1>3, <1>4 DEF Typed, Kernels, CredentialKept, RosterKept

LEMMA RetireLeaves ==
    ASSUME Typed, NEW c, Shaped(c), c.kind = "RETIRE",
           sKernel' = Campaign!Landed(c), Campaign!SafeStateAfter(c)
    PROVE  /\ sKernel' \in Kernels
           /\ sKernel' = sKernel
           /\ Campaign!LeaveFor("RETIRED")
<1>1. sKernel' = sKernel
  BY DEF Campaign!Landed
<1>3. Campaign!LeaveFor("RETIRED")
  BY DEF Campaign!SafeStateAfter, Campaign!containment, SafeStateKept
<1> QED
  BY <1>1, <1>3 DEF Typed, Kernels, CredentialKept, RosterKept

LEMMA EgressLeaves ==
    ASSUME Typed, NEW c, Shaped(c), c.kind = "EGRESS",
           sKernel' = Campaign!Landed(c), Campaign!SafeStateAfter(c)
    PROVE  /\ sKernel' \in Kernels
           /\ sKernel'.balance = 0
           /\ CredentialKept /\ RosterKept /\ SafeStateKept
           /\ UNCHANGED <<sKernel.policy, sKernel.nonces, sKernel.recovery, sKernel.boundAt>>
<1>1. sKernel' = [sKernel EXCEPT !.balance = 0]
  BY DEF Campaign!Landed, NoKey, Decoy
<1>3. SafeStateKept
  BY DEF Campaign!SafeStateAfter, Campaign!containment, SafeStateKept
<1> QED
  BY <1>1, <1>3 DEF Typed, Kernels, CredentialKept, RosterKept

-----------------------------------------------------------------------------
(* Who is charged, and for what *)

\* No key that the kernel relies on is missing, and challenges are counted.
Safe ==
    /\ sKernel.requirePq => sKernel.pq # NoKey
    /\ sKernel.recovery.active => NoKey \notin {sKernel.recovery.spare, sKernel.recovery.verifier}
    /\ sKernel.recovery.challengesUsed <= ChallengeLimit

Factors == IF sKernel.requirePq THEN 2 ELSE 1

\* A quorum that the kernel takes costs as many guardians as it asks for.
LEMMA QuorumCharged ==
    ASSUME Typed, NEW c, NEW roots, c.kind \in SignedByQuorum, BackedBy(c, roots),
           Campaign!QuorumMet(c)
    PROVE  roots.guardians >= sKernel.threshold
<1>1. /\ c.quorum.members = sKernel.roster
      /\ \A i \in DOMAIN c.quorum.attests :
            /\ c.quorum.attests[i].seat \in 1..3
            /\ c.quorum.attests[i].by = sKernel.roster[c.quorum.attests[i].seat]
            /\ i > 1 => c.quorum.attests[i - 1].seat < c.quorum.attests[i].seat
  BY DEF Campaign!QuorumMet
<1>2. Signed(c.quorum)
  BY <1>1 DEF Signed
<1>3. QuorumBacked(c.quorum, roots)
  BY DEF BackedBy
<1>4. c.quorum.attests \in Seq(Attestations) /\ roots.guardians >= Len(c.quorum.attests)
  BY <1>2, <1>3 DEF QuorumBacked
<1>5. Len(c.quorum.attests) >= sKernel.threshold
  BY DEF Campaign!QuorumMet
<1>6. PICK n \in Nat : n = Len(c.quorum.attests)
  BY <1>4
<1>7. roots.guardians >= n /\ n >= sKernel.threshold
  BY <1>4, <1>5, <1>6
<1>8. roots.guardians \in Nat /\ sKernel.threshold \in Nat
  BY DEF BackedBy, RootCounts, Typed, Kernels
<1> QED
  BY <1>6, <1>7, <1>8

\* A credential that the kernel takes costs each factor that it asks for.
LEMMA CredentialCharged ==
    ASSUME Typed, Safe, NEW c, NEW roots, c.kind \in SignedByBoth, BackedBy(c, roots),
           FullyBackedBy(c, roots), Campaign!Authorises(c)
    PROVE  roots.credential >= Factors
<1>1. c.cred # Decoy
  BY Constants DEF Campaign!Authorises, Campaign!FloorAuthorises, Typed, Kernels
<1>2. sKernel.requirePq => c.pq \notin {Decoy, NoKey}
  BY Constants DEF Campaign!Authorises, Typed, Kernels, Safe
<1>3. roots.credential >= 1
  BY <1>1 DEF BackedBy
<1>4. sKernel.requirePq => roots.credential >= 2
  BY <1>1, <1>2 DEF FullyBackedBy
<1> QED
  BY <1>3, <1>4 DEF Factors

LEMMA Detected ==
    ASSUME NEW o \in Campaign!detectOutcomes
    PROVE  /\ o \in Campaign!Outcomes
           /\ o = "ASSET_MOVEMENT" => sKernel'.balance < sKernel.balance
           /\ o = "CREDENTIAL_REPLACEMENT" =>
                 sKernel'.signer # sKernel.signer \/ sKernel'.pq # sKernel.pq
           /\ o = "VERIFIER_REPLACEMENT" => sKernel'.verifier # sKernel.verifier
           /\ o = "POLICY_CHANGE" => sKernel'.policy # sKernel.policy
           /\ o = "GUARDIAN_TRANSITION" =>
                 sKernel'.roster # sKernel.roster \/ sKernel'.threshold # sKernel.threshold
           /\ o = "MIGRATION_BINDING" => sKernel.boundAt = 0 /\ sKernel'.boundAt # 0
           /\ o = "CONTAINMENT" => sState # "CONTAINED" /\ sState' = "CONTAINED"
           /\ o = "RECOVERY_QUORUM_CANCEL" =>
                 /\ sKernel.recovery.active /\ ~sKernel'.recovery.active
                 /\ sKernel'.recovery.challengesUsed = sKernel.recovery.challengesUsed
  BY DEF Campaign!detectOutcomes, Campaign!Outcomes

LEMMA PathsMet ==
    ASSUME NEW held \in RootCounts, NEW o \in Campaign!Outcomes, NEW f, NEW k
    PROVE  /\ o # "MIGRATION_BINDING" /\ held.guardians >= k => Campaign!judgeCut(held, o, f, k)
           /\ o = "MIGRATION_BINDING" /\ held.guardians >= k /\ held.credential >= 1
              => Campaign!judgeCut(held, o, f, k)
           /\ o \in Campaign!CredentialGated /\ held.credential >= f
              => Campaign!judgeCut(held, o, f, k)
<1> DEFINE both == [credential |-> 1, guardians |-> k]
           quorum == [credential |-> 0, guardians |-> k]
           factors == [credential |-> f, guardians |-> 0]
<1>1. held.credential \in Nat /\ held.guardians \in Nat
  BY DEF RootCounts
<1>2. \A path \in Campaign!authorityPaths(o, f, k) :
          held.credential >= path.credential /\ held.guardians >= path.guardians
          => Campaign!judgeCut(held, o, f, k)
  BY DEF Campaign!judgeCut
<1>3. CASE o \in Campaign!CredentialGated
  <2>1. Campaign!authorityPaths(o, f, k) = {factors, quorum} /\ o # "MIGRATION_BINDING"
    BY <1>3 DEF Campaign!authorityPaths, Campaign!CredentialGated
  <2>2. factors.credential = f /\ factors.guardians = 0 /\ quorum.credential = 0
        /\ quorum.guardians = k
    OBVIOUS
  <2> HIDE DEF factors, quorum
  <2>3. held.credential >= 0 /\ held.guardians >= 0
    BY <1>1
  <2> QED
    BY <1>2, <2>1, <2>2, <2>3
<1>4. CASE o = "MIGRATION_BINDING"
  <2>1. Campaign!authorityPaths(o, f, k) = {both} /\ o \notin Campaign!CredentialGated
    BY <1>4 DEF Campaign!authorityPaths, Campaign!CredentialGated
  <2>2. both.credential = 1 /\ both.guardians = k
    OBVIOUS
  <2> HIDE DEF both
  <2> QED
    BY <1>2, <1>4, <2>1, <2>2
<1>5. CASE o \notin Campaign!CredentialGated /\ o # "MIGRATION_BINDING"
  <2>1. Campaign!authorityPaths(o, f, k) = {quorum}
    BY <1>5 DEF Campaign!authorityPaths
  <2>2. quorum.credential = 0 /\ quorum.guardians = k
    OBVIOUS
  <2> HIDE DEF quorum
  <2>3. held.credential >= 0
    BY <1>1
  <2> QED
    BY <1>2, <1>5, <2>1, <2>2, <2>3
<1> QED
  BY <1>3, <1>4, <1>5

\* Guardians up to the threshold pay for all but a binding, which takes a key too.
LEMMA GuardiansEntitled ==
    ASSUME NEW charged \in RootCounts, charged.guardians >= sKernel.threshold,
           "MIGRATION_BINDING" \in Campaign!detectOutcomes => charged.credential >= 1
    PROVE  ~Campaign!UnentitledOutcome(charged)
<1> SUFFICES ASSUME NEW o \in Campaign!detectOutcomes
             PROVE  Campaign!judgeCut(charged, o, Factors, sKernel.threshold)
  BY DEF Campaign!UnentitledOutcome, Factors
<1>1. o \in Campaign!Outcomes
  BY Detected
<1> QED
  BY <1>1, PathsMet

LEMMA CredentialEntitled ==
    ASSUME NEW charged \in RootCounts, charged.credential >= Factors,
           Campaign!detectOutcomes \subseteq Campaign!CredentialGated
    PROVE  ~Campaign!UnentitledOutcome(charged)
<1> SUFFICES ASSUME NEW o \in Campaign!detectOutcomes
             PROVE  Campaign!judgeCut(charged, o, Factors, sKernel.threshold)
  BY DEF Campaign!UnentitledOutcome, Factors
<1>1. o \in Campaign!Outcomes
  BY Detected
<1> QED
  BY <1>1, PathsMet

-----------------------------------------------------------------------------
(* What the harness checks after a call that the kernel takes *)

Lands(c) ==
    /\ Shaped(c) /\ Campaign!Accepts(c)
    /\ sKernel' = Campaign!Landed(c) /\ Campaign!SafeStateAfter(c) /\ UNCHANGED sNow

\* StateGlobals but for the time contained.
Grown ==
    /\ sKernel'.credentialGeneration >= sKernel.credentialGeneration
    /\ sKernel'.guardianGeneration >= sKernel.guardianGeneration
    /\ \A d \in DOMAIN sKernel.nonces : sKernel'.nonces[d] >= sKernel.nonces[d]
    /\ sKernel.requirePq => sKernel'.requirePq
    /\ sKernel.boundAt # 0 => sKernel'.boundAt = sKernel.boundAt
    /\ sState = "RETIRED" => sState' = "RETIRED"

NoncesGrown == \A d \in DOMAIN sKernel.nonces : sKernel'.nonces[d] >= sKernel.nonces[d]

LEMMA NoncesGrow ==
    ASSUME Typed, NEW domain, NonceSpent(domain) \/ UNCHANGED sKernel.nonces
    PROVE  NoncesGrown
<1>1. DOMAIN sKernel.nonces = Domains /\ \A d \in Domains : sKernel.nonces[d] \in Nat
  BY DEF Typed, Kernels
<1> QED
  BY <1>1 DEF NonceSpent, NoncesGrown

LEMMA RequestKept ==
    ASSUME Typed, Safe, sKernel' \in Kernels, UNCHANGED sKernel.recovery,
           sKernel'.requirePq => sKernel'.pq # NoKey
    PROVE  Campaign!RecoveryGlobals
<1>1. sKernel.recovery.challengesUsed \in Nat
  BY DEF Typed, Kernels, Requests
<1>2. Campaign!ChallengeEpochHolds
  BY <1>1 DEF Campaign!ChallengeEpochHolds, Safe, NoKey
<1>3. sKernel'.pq # Decoy
  BY Constants DEF Kernels
<1> QED
  BY <1>2, <1>3 DEF Campaign!RecoveryGlobals, Safe, NoKey, Decoy

LEMMA Steady ==
    ASSUME SafeStateKept, CredentialKept, RosterKept, Typed
    PROVE  /\ sKernel'.credentialGeneration >= sKernel.credentialGeneration
           /\ sKernel'.guardianGeneration >= sKernel.guardianGeneration
           /\ sKernel.requirePq => sKernel'.requirePq
           /\ sState = "RETIRED" => sState' = "RETIRED"
           /\ sKernel'.requirePq => sKernel.requirePq /\ sKernel'.pq = sKernel.pq
  BY DEF SafeStateKept, CredentialKept, RosterKept, Typed, Kernels

Acceptable == sKernel' \in Kernels /\ Grown /\ Campaign!RecoveryGlobals

LEMMA CredentialCallsChecked ==
    ASSUME Typed, Safe, NEW c, Lands(c), c.kind \in SignedByBoth
    PROVE  Acceptable
<1>0. Shaped(c) /\ Campaign!Accepts(c)
  BY DEF Lands
<1>1. CASE c.kind = "SPEND"
  <2>1. /\ sKernel' \in Kernels /\ NonceSpent("spend")
        /\ CredentialKept /\ RosterKept /\ SafeStateKept
        /\ UNCHANGED <<sKernel.recovery, sKernel.boundAt>>
    BY <1>1, SpendLeaves DEF Lands
  <2>2. Grown
    BY <2>1, Steady, NoncesGrow DEF Grown, NoncesGrown
  <2>3. sKernel'.requirePq => sKernel'.pq # NoKey
    BY <2>1, Steady DEF Safe
  <2> QED
    BY <2>1, <2>2, <2>3, RequestKept DEF Acceptable
<1>2. CASE c.kind = "ROTATE_CREDENTIAL"
  <2>1. c.body.hash = c.body.spare /\ c.body.spare \in Spares
    <3>1. Campaign!Possesses(c, c.body.spare, sKernel.verifier)
      BY <1>0, <1>2 DEF Campaign!Accepts
    <3>2. c.body.exhibit = c.body.hash
      BY <3>1 DEF Campaign!Possesses
    <3> QED
      BY <1>0, <1>2, <3>2 DEF Shaped
  <2>2. /\ sKernel' \in Kernels /\ NonceSpent("credential")
        /\ sKernel'.pq = c.body.spare
        /\ sKernel'.credentialGeneration = sKernel.credentialGeneration + 1
        /\ RosterKept /\ SafeStateKept
        /\ UNCHANGED <<sKernel.requirePq, sKernel.recovery, sKernel.boundAt>>
    BY <1>2, <2>1, RotateLeaves DEF Lands
  <2>3. Grown
    BY <2>2, NoncesGrow DEF Grown, NoncesGrown, RosterKept, SafeStateKept, Typed, Kernels
  <2>4. sKernel'.pq # NoKey
    BY <2>1, <2>2, Constants DEF RealKeys
  <2> QED
    BY <2>2, <2>3, <2>4, RequestKept DEF Acceptable
<1>3. CASE c.kind = "SET_VERIFIER"
  <2>1. /\ sKernel.requirePq => c.body.requirePq
        /\ ~sKernel.requirePq /\ c.body.requirePq => sKernel.pq # NoKey
    BY <1>0, <1>3 DEF Campaign!Accepts, NoKey
  <2>2. /\ sKernel' \in Kernels /\ NonceSpent("credential")
        /\ sKernel'.requirePq = c.body.requirePq /\ RosterKept /\ SafeStateKept
        /\ UNCHANGED <<sKernel.pq, sKernel.credentialGeneration, sKernel.recovery, sKernel.boundAt>>
    BY <1>3, SetVerifierLeaves DEF Lands
  <2>3. Grown
    BY <2>1, <2>2, NoncesGrow DEF Grown, NoncesGrown, RosterKept, SafeStateKept, Typed, Kernels
  <2>4. sKernel'.requirePq => sKernel'.pq # NoKey
    BY <2>1, <2>2 DEF Safe, Typed, Kernels
  <2> QED
    BY <2>2, <2>3, <2>4, RequestKept DEF Acceptable
<1>4. CASE c.kind = "SET_POLICY"
  <2>1. /\ sKernel' \in Kernels /\ NonceSpent("credential")
        /\ CredentialKept /\ RosterKept /\ SafeStateKept
        /\ UNCHANGED <<sKernel.recovery, sKernel.boundAt>>
    BY <1>4, SetPolicyLeaves DEF Lands
  <2>2. Grown
    BY <2>1, Steady, NoncesGrow DEF Grown, NoncesGrown
  <2>3. sKernel'.requirePq => sKernel'.pq # NoKey
    BY <2>1, Steady DEF Safe
  <2> QED
    BY <2>1, <2>2, <2>3, RequestKept DEF Acceptable
<1> QED
  BY <1>1, <1>2, <1>3, <1>4 DEF SignedByBoth

LEMMA RecoveryCallsChecked ==
    ASSUME Typed, Safe, NEW c, Lands(c),
           c.kind \in {"INITIATE_RECOVERY", "CANCEL_RECOVERY", "CANCEL_RECOVERY_BY_QUORUM",
                       "EXECUTE_RECOVERY"}
    PROVE  Acceptable
<1>0. /\ Shaped(c) /\ Campaign!Accepts(c)
      /\ sKernel.recovery \in Requests /\ sKernel.recovery.challengesUsed \in Nat
      /\ sKernel.pq \in RealKeys \cup {NoKey} /\ ChallengeLimit \in Nat
  BY Constants DEF Lands, Typed, Kernels, Requests
<1>1. CASE c.kind = "INITIATE_RECOVERY"
  <2>1. /\ sKernel' \in Kernels /\ NonceSpent("guardian") /\ sKernel'.recovery = Proposal(c)
        /\ CredentialKept /\ RosterKept /\ SafeStateKept /\ UNCHANGED sKernel.boundAt
    BY <1>1, InitiateLeaves DEF Lands
  <2>2. Grown
    BY <2>1, Steady, NoncesGrow DEF Grown, NoncesGrown
  <2>3. /\ sKernel'.recovery.spare = c.body.spare /\ sKernel'.recovery.verifier = c.body.verifier
        /\ sKernel'.recovery.challengesUsed = sKernel.recovery.challengesUsed
        /\ c.body.spare # NoKey /\ c.body.verifier # NoKey
    BY <1>0, <1>1, <2>1, Constants DEF Proposal, Shaped, RealKeys
  <2>4. Campaign!ChallengeEpochHolds
    BY <1>0, <2>3 DEF Campaign!ChallengeEpochHolds, NoKey
  <2>5. sKernel'.pq # Decoy /\ (sKernel'.requirePq => sKernel'.pq # NoKey)
    BY <1>0, <2>1, Steady, Constants DEF Safe, CredentialKept
  <2> QED
    BY <2>1, <2>2, <2>3, <2>4, <2>5 DEF Acceptable, Campaign!RecoveryGlobals, NoKey, Decoy, Safe
<1>2. CASE c.kind = "CANCEL_RECOVERY"
  <2>1. /\ sKernel' \in Kernels /\ NonceSpent("credential")
        /\ sKernel'.recovery = Campaign!Challenged
        /\ CredentialKept /\ RosterKept /\ SafeStateKept /\ UNCHANGED sKernel.boundAt
    BY <1>2, CancelLeaves DEF Lands
  <2>2. Grown
    BY <2>1, Steady, NoncesGrow DEF Grown, NoncesGrown
  <2>3. /\ sKernel'.recovery.challengesUsed = sKernel.recovery.challengesUsed + 1
        /\ ~sKernel'.recovery.active
    BY <1>0, <2>1 DEF Requests, Campaign!Challenged, Campaign!Dropped
  <2>4. sKernel.recovery.challengesUsed < ChallengeLimit
    BY <1>0, <1>2 DEF Campaign!Accepts
  <2>5. sKernel'.credentialGeneration # sKernel.credentialGeneration + 1
    BY <2>1 DEF CredentialKept, Typed, Kernels
  <2>6. Campaign!ChallengeEpochHolds
    BY <1>0, <2>3, <2>5 DEF Campaign!ChallengeEpochHolds
  <2>7. sKernel'.pq # Decoy /\ (sKernel'.requirePq => sKernel'.pq # NoKey)
    BY <1>0, <2>1, Steady, Constants DEF Safe, CredentialKept
  <2>8. sKernel'.recovery.challengesUsed <= ChallengeLimit
    BY <1>0, <2>3, <2>4
  <2> QED
    BY <2>1, <2>2, <2>3, <2>6, <2>7, <2>8 DEF Acceptable, Campaign!RecoveryGlobals, NoKey, Decoy
<1>3. CASE c.kind = "CANCEL_RECOVERY_BY_QUORUM"
  <2>1. /\ sKernel' \in Kernels /\ NonceSpent("guardian")
        /\ sKernel'.recovery = Campaign!Dropped
        /\ CredentialKept /\ RosterKept /\ SafeStateKept /\ UNCHANGED sKernel.boundAt
    BY <1>3, QuorumCancelLeaves DEF Lands
  <2>2. Grown
    BY <2>1, Steady, NoncesGrow DEF Grown, NoncesGrown
  <2>3. /\ sKernel'.recovery.challengesUsed = sKernel.recovery.challengesUsed
        /\ ~sKernel'.recovery.active
    BY <1>0, <2>1 DEF Requests, Campaign!Dropped
  <2>5. sKernel'.credentialGeneration # sKernel.credentialGeneration + 1
    BY <2>1 DEF CredentialKept, Typed, Kernels
  <2>6. Campaign!ChallengeEpochHolds
    BY <1>0, <2>3, <2>5 DEF Campaign!ChallengeEpochHolds
  <2>7. sKernel'.pq # Decoy /\ (sKernel'.requirePq => sKernel'.pq # NoKey)
    BY <1>0, <2>1, Steady, Constants DEF Safe, CredentialKept
  <2> QED
    BY <2>1, <2>2, <2>3, <2>6, <2>7 DEF Acceptable, Campaign!RecoveryGlobals, NoKey, Decoy, Safe
<1>4. CASE c.kind = "EXECUTE_RECOVERY"
  <2>1. sKernel.recovery.active /\ sKernel.recovery.spare \in Spares
    <3>1. Campaign!Live
      BY <1>0, <1>4 DEF Campaign!Accepts
    <3> QED
      BY <1>0, <3>1 DEF Campaign!Live, Safe, Requests
  <2>2. /\ sKernel' \in Kernels
        /\ sKernel'.signer = sKernel.recovery.spare /\ sKernel'.pq = sKernel.recovery.spare
        /\ sKernel'.verifier = sKernel.recovery.verifier
        /\ sKernel'.recovery = Campaign!NoRequest
        /\ sKernel'.credentialGeneration = sKernel.credentialGeneration + 1
        /\ RosterKept /\ SafeStateKept
        /\ UNCHANGED <<sKernel.requirePq, sKernel.nonces, sKernel.boundAt>>
    BY <1>4, <2>1, ExecuteLeaves DEF Lands
  <2>3. Grown
    BY <2>2, NoncesGrow DEF Grown, NoncesGrown, RosterKept, SafeStateKept, Typed, Kernels
  <2>4. /\ ~sKernel'.recovery.active /\ sKernel'.recovery.challengesUsed = 0
        /\ sKernel'.recovery.spare = Campaign!NoKey
    BY <2>2 DEF Campaign!NoRequest
  <2>5. Campaign!ChallengeEpochHolds
    BY <2>1, <2>2, <2>4 DEF Campaign!ChallengeEpochHolds
  <2>6. sKernel'.pq # Decoy /\ sKernel'.pq # NoKey
    BY <2>1, <2>2, Constants DEF RealKeys
  <2>7. 0 <= ChallengeLimit
    BY <1>0
  <2> QED
    BY <2>2, <2>3, <2>4, <2>5, <2>6, <2>7 DEF Acceptable, Campaign!RecoveryGlobals, NoKey, Decoy
<1> QED
  BY <1>1, <1>2, <1>3, <1>4

LEMMA OtherCallsChecked ==
    ASSUME Typed, Safe, NEW c, Lands(c),
           c.kind \in {"SET_GUARDIANS", "ENTER_CONTAINMENT", "BIND_MIGRATION", "RETIRE", "EGRESS"}
    PROVE  Acceptable
<1>0. Shaped(c) /\ Campaign!Accepts(c)
  BY DEF Lands
<1>1. CASE c.kind = "SET_GUARDIANS"
  <2>1. c.body.roster = Successors
    BY <1>0, <1>1 DEF Campaign!Accepts, Shaped
  <2>2. /\ sKernel' \in Kernels /\ NonceSpent("guardian") /\ CredentialKept /\ SafeStateKept
        /\ sKernel'.guardianGeneration = sKernel.guardianGeneration + 1
        /\ UNCHANGED <<sKernel.recovery, sKernel.boundAt>>
    BY <1>1, <2>1, SetGuardiansLeaves DEF Lands
  <2>3. Grown
    BY <2>2, NoncesGrow DEF Grown, NoncesGrown, CredentialKept, SafeStateKept, Typed, Kernels
  <2>4. sKernel'.requirePq => sKernel'.pq # NoKey
    BY <2>2 DEF Safe, CredentialKept
  <2> QED
    BY <2>2, <2>3, <2>4, RequestKept DEF Acceptable
<1>2. CASE c.kind = "ENTER_CONTAINMENT"
  <2>1. /\ sKernel' \in Kernels /\ NonceSpent("guardian") /\ CredentialKept /\ RosterKept
        /\ Campaign!Contain /\ UNCHANGED <<sKernel.recovery, sKernel.boundAt>>
    BY <1>2, ContainLeaves DEF Lands
  <2>2. sState # "RETIRED"
    BY <2>1 DEF Campaign!Contain, Campaign!MayContain, Campaign!EffectiveState
  <2>3. Grown
    BY <2>1, <2>2, NoncesGrow DEF Grown, NoncesGrown, CredentialKept, RosterKept, Typed, Kernels
  <2>4. sKernel'.requirePq => sKernel'.pq # NoKey
    BY <2>1 DEF Safe, CredentialKept
  <2> QED
    BY <2>1, <2>3, <2>4, RequestKept DEF Acceptable
<1>3. CASE c.kind = "BIND_MIGRATION"
  <2>1. /\ sKernel' \in Kernels /\ NonceSpent("migration") /\ CredentialKept /\ RosterKept
        /\ UNCHANGED sKernel.recovery
    BY <1>3, BindLeaves DEF Lands
  <2>2. sState # "RETIRED" /\ sKernel.boundAt = 0
    BY <1>0, <1>3 DEF Campaign!Accepts, Campaign!EffectiveState
  <2>3. Grown
    BY <2>1, <2>2, NoncesGrow DEF Grown, NoncesGrown, CredentialKept, RosterKept, Typed, Kernels
  <2>4. sKernel'.requirePq => sKernel'.pq # NoKey
    BY <2>1 DEF Safe, CredentialKept
  <2> QED
    BY <2>1, <2>3, <2>4, RequestKept DEF Acceptable
<1>4. CASE c.kind = "RETIRE"
  <2>1. sKernel' \in Kernels /\ sKernel' = sKernel /\ Campaign!LeaveFor("RETIRED")
    BY <1>4, RetireLeaves DEF Lands
  <2>2. Grown
    BY <2>1, NoncesGrow DEF Grown, NoncesGrown, Campaign!LeaveFor, Typed, Kernels
  <2>3. sKernel'.requirePq => sKernel'.pq # NoKey
    BY <2>1 DEF Safe
  <2> QED
    BY <2>1, <2>2, <2>3, RequestKept DEF Acceptable
<1>5. CASE c.kind = "EGRESS"
  <2>1. /\ sKernel' \in Kernels /\ CredentialKept /\ RosterKept /\ SafeStateKept
        /\ UNCHANGED <<sKernel.recovery, sKernel.boundAt, sKernel.nonces>>
    BY <1>5, EgressLeaves DEF Lands
  <2>2. Grown
    BY <2>1, Steady, NoncesGrow DEF Grown, NoncesGrown
  <2>3. sKernel'.requirePq => sKernel'.pq # NoKey
    BY <2>1, Steady DEF Safe
  <2> QED
    BY <2>1, <2>2, <2>3, RequestKept DEF Acceptable
<1> QED
  BY <1>1, <1>2, <1>3, <1>4, <1>5

LEMMA CallsChecked ==
    ASSUME Typed, Safe, NEW c, Lands(c)
    PROVE  Acceptable
<1>1. c.kind \in Kinds
  BY DEF Lands, Shaped
<1> QED
  BY <1>1, CredentialCallsChecked, RecoveryCallsChecked, OtherCallsChecked
     DEF Kinds, SignedByBoth, SignedByOne, SignedByQuorum, Unsigned

-----------------------------------------------------------------------------
(* The cut *)

\* A binding ends the authority to change anything else, and was paid for.
Bound ==
    /\ sKernel.boundAt # 0 => sState \in {"MIGRATION_ONLY", "RETIRED"}
    /\ Following /\ sKernel.boundAt # 0 =>
          sAbstract.migrationAuthorizedBy.guardians >= sKernel.threshold

\* A request that can be executed was approved by as many as it takes now.
Approved ==
    Campaign!Live /\ ~sRaised => sAbstract.live.authorizedBy.guardians >= sKernel.threshold

LEMMA CredentialCallsEntitled ==
    ASSUME Typed, Safe, NEW c, NEW roots, Lands(c), c.kind \in SignedByBoth,
           BackedBy(c, roots), FullyBackedBy(c, roots)
    PROVE  ~Campaign!UnentitledOutcome(roots)
<1>0. Shaped(c) /\ Campaign!Accepts(c) /\ roots \in RootCounts
  BY DEF Lands, BackedBy
<1>1. Campaign!Authorises(c)
  BY <1>0 DEF SignedByBoth, Campaign!Accepts
<1>2. roots.credential >= Factors
  BY <1>1, CredentialCharged
<1>3. /\ RosterKept /\ SafeStateKept /\ UNCHANGED <<sKernel.recovery, sKernel.boundAt>>
      /\ sKernel \in Kernels
  <2>1. CASE c.kind = "SPEND"
    BY <2>1, SpendLeaves DEF Lands, Typed
  <2>2. CASE c.kind = "ROTATE_CREDENTIAL"
    <3>1. c.body.hash = c.body.spare
      <4>1. Campaign!Possesses(c, c.body.spare, sKernel.verifier)
        BY <1>0, <2>2 DEF Campaign!Accepts
      <4>2. c.body.exhibit = c.body.hash
        BY <4>1 DEF Campaign!Possesses
      <4> QED
        BY <1>0, <2>2, <4>2 DEF Shaped
    <3> QED
      BY <2>2, <3>1, RotateLeaves DEF Lands, Typed
  <2>3. CASE c.kind = "SET_VERIFIER"
    BY <2>3, SetVerifierLeaves DEF Lands, Typed
  <2>4. CASE c.kind = "SET_POLICY"
    BY <2>4, SetPolicyLeaves DEF Lands, Typed
  <2> QED
    BY <2>1, <2>2, <2>3, <2>4 DEF SignedByBoth
<1>4. \A o \in Campaign!detectOutcomes : o \in Campaign!CredentialGated
  BY <1>3, Detected DEF RosterKept, SafeStateKept, Campaign!Outcomes, Campaign!CredentialGated
<1> QED
  BY <1>0, <1>2, <1>4, CredentialEntitled

LEMMA QuorumCallsEntitled ==
    ASSUME Typed, Safe, NEW c, NEW roots, Lands(c), c.kind \in SignedByQuorum,
           BackedBy(c, roots)
    PROVE  ~Campaign!UnentitledOutcome(roots)
<1>0. Shaped(c) /\ Campaign!Accepts(c) /\ roots \in RootCounts
  BY DEF Lands, BackedBy
<1>1. Campaign!QuorumMet(c)
  BY <1>0 DEF SignedByQuorum, Campaign!Accepts
<1>2. roots.guardians >= sKernel.threshold
  BY <1>1, QuorumCharged
<1>3. CASE c.kind = "BIND_MIGRATION"
  <2>1. Campaign!FloorAuthorises(c)
    BY <1>0, <1>3 DEF Campaign!Accepts
  <2>2. c.cred # Decoy
    BY <2>1, Constants DEF Campaign!FloorAuthorises, Typed, Kernels
  <2>3. roots.credential >= 1
    BY <1>3, <2>2 DEF BackedBy, SignedByOne
  <2> QED
    BY <1>0, <1>2, <2>3, GuardiansEntitled
<1>4. CASE c.kind # "BIND_MIGRATION"
  <2>1. UNCHANGED sKernel.boundAt
    <3>1. CASE c.kind = "SET_GUARDIANS"
      <4>1. c.body.roster = Successors
        BY <1>0, <3>1 DEF Campaign!Accepts, Shaped
      <4> QED
        BY <3>1, <4>1, SetGuardiansLeaves DEF Lands
    <3>2. CASE c.kind = "INITIATE_RECOVERY"
      BY <3>2, InitiateLeaves DEF Lands
    <3>3. CASE c.kind = "CANCEL_RECOVERY_BY_QUORUM"
      BY <3>3, QuorumCancelLeaves DEF Lands
    <3>4. CASE c.kind = "ENTER_CONTAINMENT"
      BY <3>4, ContainLeaves DEF Lands
    <3> QED
      BY <1>4, <3>1, <3>2, <3>3, <3>4 DEF SignedByQuorum
  <2>2. "MIGRATION_BINDING" \notin Campaign!detectOutcomes
    BY <2>1, Detected
  <2> QED
    BY <1>0, <1>2, <2>2, GuardiansEntitled
<1> QED
  BY <1>3, <1>4

LEMMA OtherCallsEntitled ==
    ASSUME Typed, Safe, Bound, Approved, Following, NEW c, NEW roots, Lands(c),
           c.kind \in {"CANCEL_RECOVERY"} \cup Unsigned
    PROVE  ~Campaign!UnentitledOutcome(Campaign!AttributedTo(c, roots)) \/ sRaised
<1>0. /\ Shaped(c) /\ Campaign!Accepts(c)
      /\ sAbstract.live.authorizedBy \in RootCounts
      /\ sAbstract.migrationAuthorizedBy \in RootCounts
  BY DEF Lands, Typed, Records
<1>1. CASE c.kind = "CANCEL_RECOVERY"
  <2>1. /\ CredentialKept /\ RosterKept /\ SafeStateKept
        /\ UNCHANGED <<sKernel.policy, sKernel.boundAt, sKernel.balance>>
        /\ sKernel'.recovery = Campaign!Challenged
    BY <1>1, CancelLeaves DEF Lands
  <2>2. /\ sKernel.recovery.challengesUsed \in Nat /\ sKernel.recovery \in Requests
        /\ sKernel.balance \in Int
    BY DEF Typed, Kernels, Requests
  <2>3. sKernel'.recovery.challengesUsed # sKernel.recovery.challengesUsed
    <3>1. sKernel'.recovery.challengesUsed = sKernel.recovery.challengesUsed + 1
      BY <2>1, <2>2 DEF Requests, Campaign!Challenged, Campaign!Dropped
    <3> QED
      BY <2>2, <3>1
  <2>4. Campaign!detectOutcomes = {}
    BY <2>1, <2>2, <2>3, Detected DEF CredentialKept, RosterKept, SafeStateKept, Campaign!Outcomes
  <2> QED
    BY <2>4 DEF Campaign!UnentitledOutcome
<1>2. CASE c.kind = "EXECUTE_RECOVERY"
  <2>1. Campaign!Live /\ sKernel.recovery.spare \in Spares
    <3>1. Campaign!Live
      BY <1>0, <1>2 DEF Campaign!Accepts
    <3> QED
      BY <3>1 DEF Campaign!Live, Safe, Requests, Typed, Kernels
  <2>2. UNCHANGED sKernel.boundAt
    BY <1>2, <2>1, ExecuteLeaves DEF Lands
  <2>3. "MIGRATION_BINDING" \notin Campaign!detectOutcomes
    BY <2>2, Detected
  <2>4. Campaign!AttributedTo(c, roots) = sAbstract.live.authorizedBy
    BY <1>2 DEF Campaign!AttributedTo
  <2> QED
    BY <1>0, <2>1, <2>3, <2>4, GuardiansEntitled DEF Approved
<1>3. CASE c.kind \in {"RETIRE", "EGRESS"}
  <2>1. UNCHANGED sKernel.boundAt
    <3>1. CASE c.kind = "RETIRE"
      BY <3>1, RetireLeaves DEF Lands
    <3>2. CASE c.kind = "EGRESS"
      BY <3>2, EgressLeaves DEF Lands
    <3> QED
      BY <1>3, <3>1, <3>2
  <2>2. "MIGRATION_BINDING" \notin Campaign!detectOutcomes
    BY <2>1, Detected
  <2>3. Campaign!AttributedTo(c, roots) = sAbstract.migrationAuthorizedBy
    BY <1>3 DEF Campaign!AttributedTo
  <2>4. sKernel.boundAt # 0
    BY <1>0, <1>3 DEF Campaign!Accepts
  <2> QED
    BY <1>0, <2>2, <2>3, <2>4, GuardiansEntitled DEF Bound
<1> QED
  BY <1>1, <1>2, <1>3 DEF Unsigned

\* Whatever a call that lands brings about, its roots pay for, but for a threshold
\* that went up over an approved request.
LEMMA CallsEntitled ==
    ASSUME Typed, Safe, Bound, Approved, Following, NEW c, NEW roots, Lands(c),
           BackedBy(c, roots), FullyBackedBy(c, roots)
    PROVE  ~Campaign!UnentitledOutcome(Campaign!AttributedTo(c, roots)) \/ sRaised
<1>1. CASE c.kind \in SignedByBoth \cup SignedByQuorum
  <2>1. Campaign!AttributedTo(c, roots) = roots
    BY <1>1 DEF Campaign!AttributedTo, SignedByBoth, SignedByQuorum
  <2> QED
    BY <1>1, <2>1, CredentialCallsEntitled, QuorumCallsEntitled
<1>2. CASE c.kind \notin SignedByBoth \cup SignedByQuorum
  <2>1. c.kind \in Kinds
    BY DEF Lands, Shaped
  <2>2. c.kind \in {"CANCEL_RECOVERY"} \cup Unsigned
    BY <1>2, <2>1 DEF Kinds, SignedByOne, SignedByQuorum
  <2> QED
    BY <2>2, OtherCallsEntitled
<1> QED
  BY <1>1, <1>2

-----------------------------------------------------------------------------
(* The time contained *)

LastStart == Campaign!LastStart

\* Of the three starts that are stored, each is an episode after the one before it,
\* and the third a window.
Episodes ==
    /\ sState \in {"NORMAL", "CONTAINED", "MIGRATION_ONLY", "RETIRED"}
    /\ sUntil \in Nat /\ sPrevious \in Nat /\ sEarlier \in Nat
    /\ sState = "NORMAL" => sUntil = 0
    /\ sState = "CONTAINED" => sUntil # 0
    /\ sUntil = 0 => sPrevious = 0
    /\ sUntil # 0 => sUntil > ContainmentMax /\ sUntil <= sNow + ContainmentMax
    /\ sPrevious = 0 => sEarlier = 0
    /\ sPrevious # 0 => sPrevious + ContainmentMax + ContainmentMax <= sUntil
    /\ sEarlier # 0 =>
          /\ sEarlier + ContainmentMax <= sPrevious
          /\ sEarlier + ContainmentWindow + ContainmentMax <= sUntil

LEMMA ContainKeeps ==
    ASSUME Typed, Episodes, Campaign!Contain, UNCHANGED sNow
    PROVE  Episodes'
<1>1. /\ sEarlier' = sPrevious /\ sPrevious' = Campaign!LastStart
      /\ sUntil' = sNow + ContainmentMax /\ sState' = "CONTAINED" /\ sNow' = sNow
      /\ sPrevious # 0 => sNow >= sPrevious + ContainmentWindow
  BY DEF Campaign!Contain, Campaign!BudgetAllows
<1>2. sUntil = 0 \/ sNow >= sUntil
  BY DEF Campaign!Contain, Campaign!MayContain, Campaign!EffectiveState, Episodes
<1>3. Campaign!LastStart = IF sUntil = 0 THEN 0 ELSE sUntil - ContainmentMax
  BY DEF Campaign!LastStart
<1>4. sNow \in Nat /\ sNow > 0 /\ ContainmentMax \in Nat /\ ContainmentMax > 0
      /\ ContainmentWindow \in Nat
  BY Constants DEF Typed
<1> QED
  BY <1>1, <1>2, <1>3, <1>4 DEF Episodes

LEMMA LeavingKeeps ==
    ASSUME Typed, Episodes, UNCHANGED sNow,
           SafeStateKept \/ Campaign!LeaveFor("MIGRATION_ONLY") \/ Campaign!LeaveFor("RETIRED")
    PROVE  Episodes'
  BY DEF Episodes, SafeStateKept, Campaign!LeaveFor

\* containmentUsedInWindow never reports more than the budget.
LEMMA UsedWithinBudget ==
    ASSUME sNow \in Nat, Episodes
    PROVE  Campaign!containmentUsedInWindow <= ContainmentBudget
<1> DEFINE from == Campaign!WindowFrom
           last == Campaign!LastStart
           Within(start) ==
               LET lo == IF start > from THEN start ELSE from
                   hi == IF start + ContainmentMax < sNow THEN start + ContainmentMax ELSE sNow
               IN  IF start # 0 /\ hi > lo THEN hi - lo ELSE 0
<1>1. /\ ContainmentMax \in Nat /\ ContainmentWindow \in Nat
      /\ ContainmentBudget = ContainmentMax + ContainmentMax
      /\ from \in Nat /\ from >= sNow - ContainmentWindow
  BY Constants DEF Campaign!WindowFrom
<1>2. last = IF sUntil = 0 THEN 0 ELSE sUntil - ContainmentMax
  BY DEF Campaign!LastStart
<1>3. Campaign!containmentUsedInWindow = Within(last) + Within(sPrevious) + Within(sEarlier)
  BY DEF Campaign!containmentUsedInWindow, Campaign!containedWithin
<1>4. last \in Nat /\ sPrevious \in Nat /\ sEarlier \in Nat
  BY <1>1, <1>2 DEF Episodes
<1> HIDE DEF from, last
<1>5. ASSUME NEW start \in Nat
      PROVE  /\ Within(start) \in Nat /\ Within(start) <= ContainmentMax
             /\ start = 0 => Within(start) = 0
             /\ Within(start) # 0 => /\ Within(start) <= sNow - start
                                     /\ Within(start) <= start + ContainmentMax - from
  BY <1>1
<1>6. sEarlier # 0 => last # 0 /\ sEarlier + ContainmentWindow <= last
  BY <1>1, <1>2 DEF Episodes
<1> HIDE DEF Within
<1>7. PICK x \in Nat, y \in Nat, z \in Nat :
          x = Within(last) /\ y = Within(sPrevious) /\ z = Within(sEarlier)
  BY <1>4, <1>5
<1>8. /\ x <= ContainmentMax /\ y <= ContainmentMax /\ z <= ContainmentMax
      /\ x # 0 => x <= sNow - last
      /\ z # 0 => z <= sEarlier + ContainmentMax - from /\ sEarlier # 0
  BY <1>4, <1>5, <1>7
<1>9. x + z <= ContainmentMax
  <2>1. CASE x = 0 \/ z = 0
    BY <1>1, <1>8, <2>1
  <2>2. CASE x # 0 /\ z # 0
    <3>1. x <= sNow - last /\ z <= sEarlier + ContainmentMax - from
          /\ sEarlier + ContainmentWindow <= last
      BY <1>6, <1>8, <2>2
    <3> QED
      BY <1>1, <1>4, <3>1
  <2> QED
    BY <2>1, <2>2
<1>10. x + y + z <= ContainmentMax + ContainmentMax
  BY <1>1, <1>8, <1>9
<1> QED
  BY <1>1, <1>3, <1>7, <1>10

-----------------------------------------------------------------------------
(* What the harness records and believes after a call that lands *)

\* The harness's episode is the request of the kernel.
Mirror ==
    /\ sAbstract.live.state = "LIVE" <=> sKernel.recovery.active
    /\ sKernel.recovery.active => sAbstract.live.expiresAt = sKernel.recovery.expiresAt

RecoveryCalls ==
    {"INITIATE_RECOVERY", "CANCEL_RECOVERY", "CANCEL_RECOVERY_BY_QUORUM", "EXECUTE_RECOVERY"}

\* Only the calls on recoveries touch the request.
LEMMA RequestsMoved ==
    ASSUME Typed, Safe, NEW c, Lands(c)
    PROVE  /\ c.kind \notin RecoveryCalls => UNCHANGED sKernel.recovery
           /\ c.kind \notin {"SET_GUARDIANS"} => UNCHANGED <<sKernel.roster, sKernel.threshold>>
           /\ c.kind = "SET_GUARDIANS" =>
                 sKernel'.roster = Successors /\ sKernel'.threshold = c.body.threshold
           /\ c.kind \notin {"BIND_MIGRATION"} => UNCHANGED sKernel.boundAt
<1>0. /\ Shaped(c) /\ Campaign!Accepts(c) /\ sKernel' = Campaign!Landed(c)
      /\ Campaign!SafeStateAfter(c) /\ c.kind \in Kinds
  BY DEF Lands, Shaped
<1>1. CASE c.kind = "SPEND"
  BY <1>0, <1>1, SpendLeaves DEF RosterKept
<1>2. CASE c.kind = "ROTATE_CREDENTIAL"
  <2>1. c.body.hash = c.body.spare
    <3>1. Campaign!Possesses(c, c.body.spare, sKernel.verifier)
      BY <1>0, <1>2 DEF Campaign!Accepts
    <3>2. c.body.exhibit = c.body.hash
      BY <3>1 DEF Campaign!Possesses
    <3> QED
      BY <1>0, <1>2, <3>2 DEF Shaped
  <2> QED
    BY <1>0, <1>2, <2>1, RotateLeaves DEF RosterKept
<1>3. CASE c.kind = "SET_VERIFIER"
  BY <1>0, <1>3, SetVerifierLeaves DEF RosterKept
<1>4. CASE c.kind = "SET_POLICY"
  BY <1>0, <1>4, SetPolicyLeaves DEF RosterKept
<1>5. CASE c.kind = "SET_GUARDIANS"
  <2>1. c.body.roster = Successors
    BY <1>0, <1>5 DEF Campaign!Accepts, Shaped
  <2> QED
    BY <1>0, <1>5, <2>1, SetGuardiansLeaves DEF RecoveryCalls
<1>6. CASE c.kind = "INITIATE_RECOVERY"
  BY <1>0, <1>6, InitiateLeaves DEF RosterKept, RecoveryCalls
<1>7. CASE c.kind = "CANCEL_RECOVERY"
  BY <1>0, <1>7, CancelLeaves DEF RosterKept, RecoveryCalls
<1>8. CASE c.kind = "CANCEL_RECOVERY_BY_QUORUM"
  BY <1>0, <1>8, QuorumCancelLeaves DEF RosterKept, RecoveryCalls
<1>9. CASE c.kind = "EXECUTE_RECOVERY"
  <2>1. sKernel.recovery.spare \in Spares
    <3>1. Campaign!Live
      BY <1>0, <1>9 DEF Campaign!Accepts
    <3> QED
      BY <3>1 DEF Campaign!Live, Safe, Requests, Typed, Kernels
  <2> QED
    BY <1>0, <1>9, <2>1, ExecuteLeaves DEF RosterKept, RecoveryCalls
<1>10. CASE c.kind = "ENTER_CONTAINMENT"
  BY <1>0, <1>10, ContainLeaves DEF RosterKept
<1>11. CASE c.kind = "BIND_MIGRATION"
  BY <1>0, <1>11, BindLeaves DEF RosterKept
<1>12. CASE c.kind = "RETIRE"
  BY <1>0, <1>12, RetireLeaves
<1>13. CASE c.kind = "EGRESS"
  BY <1>0, <1>13, EgressLeaves DEF RosterKept
<1> QED
  BY <1>0, <1>1, <1>2, <1>3, <1>4, <1>5, <1>6, <1>7, <1>8, <1>9, <1>10, <1>11, <1>12, <1>13
     DEF Kinds, SignedByBoth, SignedByOne, SignedByQuorum, Unsigned

NoEpisode == [state |-> "NONE", expiresAt |-> 0, authorizedBy |-> Campaign!NoRoots]

Opened(roots) ==
    [state |-> "LIVE", expiresAt |-> sNow + RecoveryWindow, authorizedBy |-> roots]

Unexpired == sAbstract.live.state = "LIVE" /\ sNow < sAbstract.live.expiresAt
RunOut == sAbstract.live.state # "LIVE" \/ sNow >= sAbstract.live.expiresAt

\* What becomes of the record, and that the harness never contradicts itself.
LEMMA CallsRecorded ==
    ASSUME Typed, Safe, Mirror, NEW c, NEW roots, Lands(c), BackedBy(c, roots)
    PROVE  /\ ~Campaign!Recorded(c, roots).violation
           /\ Campaign!Recorded(c, roots).state \in Records
           /\ Campaign!Recorded(c, roots).state.live =
                 IF c.kind = "INITIATE_RECOVERY" THEN Opened(roots)
                 ELSE IF c.kind \in RecoveryCalls THEN NoEpisode ELSE sAbstract.live
           /\ Campaign!Recorded(c, roots).state.migrationAuthorizedBy =
                 IF c.kind = "BIND_MIGRATION" THEN roots ELSE sAbstract.migrationAuthorizedBy
<1> DEFINE rec == Campaign!Recorded(c, roots)
<1>0. /\ Campaign!Accepts(c) /\ sAbstract \in Records /\ roots \in RootCounts /\ sNow \in Nat
      /\ sKernel.recovery \in Requests /\ RecoveryWindow \in Nat
  BY Constants DEF Lands, Typed, BackedBy, Kernels
<1>1. CASE c.kind = "INITIATE_RECOVERY"
  <2>1. ~Campaign!Live
    BY <1>0, <1>1 DEF Campaign!Accepts
  <2>2. rec = Campaign!recordInitiation(sAbstract, roots, sNow)
    BY <1>1 DEF Campaign!Recorded
  <2>3. /\ rec.violation = Unexpired
        /\ rec.state = [sAbstract EXCEPT !.live = Opened(roots)]
    <3>1. rec = [violation |-> Unexpired, state |-> [sAbstract EXCEPT !.live = Opened(roots)]]
      BY <2>2 DEF Campaign!recordInitiation, Campaign!currentEpisode, Opened, Unexpired
    <3> QED
      BY <3>1
  <2>4. ~Unexpired
    BY <2>1 DEF Mirror, Campaign!Live, Unexpired
  <2>5. Opened(roots) \in [state : {"NONE", "LIVE"}, expiresAt : Nat, authorizedBy : RootCounts]
    BY <1>0 DEF Opened
  <2> HIDE DEF rec
  <2>6. /\ rec.state \in Records /\ rec.state.live = Opened(roots)
        /\ rec.state.migrationAuthorizedBy = sAbstract.migrationAuthorizedBy
    BY <1>0, <2>3, <2>5 DEF Records
  <2> QED
    BY <1>1, <2>3, <2>4, <2>6 DEF rec
<1>2. NoEpisode \in [state : {"NONE", "LIVE"}, expiresAt : Nat, authorizedBy : RootCounts]
  BY DEF NoEpisode, RootCounts, Campaign!NoRoots
<1>3. CASE c.kind \in {"CANCEL_RECOVERY", "CANCEL_RECOVERY_BY_QUORUM"}
  <2>1. Campaign!Live
    BY <1>0, <1>3 DEF Campaign!Accepts
  <2>2. rec = Campaign!recordCancellation(sAbstract, sNow)
    BY <1>3 DEF Campaign!Recorded
  <2>3. /\ rec.violation = RunOut
        /\ rec.state = [sAbstract EXCEPT !.live = NoEpisode]
    <3>1. rec = [violation |-> RunOut, state |-> [sAbstract EXCEPT !.live = NoEpisode]]
      BY <2>2 DEF Campaign!recordCancellation, Campaign!currentEpisode, NoEpisode,
         Campaign!NoEpisode, RunOut
    <3> QED
      BY <3>1
  <2>4. ~RunOut
    BY <1>0, <2>1 DEF Mirror, Campaign!Live, Requests, RunOut
  <2> HIDE DEF rec
  <2>5. /\ rec.state \in Records /\ rec.state.live = NoEpisode
        /\ rec.state.migrationAuthorizedBy = sAbstract.migrationAuthorizedBy
    BY <1>0, <1>2, <2>3 DEF Records
  <2> QED
    BY <1>3, <2>3, <2>4, <2>5 DEF rec, RecoveryCalls
<1>4. CASE c.kind = "EXECUTE_RECOVERY"
  <2>1. Campaign!Live
    BY <1>0, <1>4 DEF Campaign!Accepts
  <2>2. rec = [violation |-> Campaign!judgeRecoveryExecution(sAbstract, sNow),
               state |-> Campaign!recordExecution(sAbstract)]
    BY <1>4 DEF Campaign!Recorded
  <2>3. /\ rec.violation <=> sAbstract.live.state # "LIVE" \/ sNow >= sAbstract.live.expiresAt
        /\ rec.state = [sAbstract EXCEPT !.live = NoEpisode]
    BY <2>2 DEF Campaign!judgeRecoveryExecution, Campaign!recordExecution, Campaign!currentEpisode,
       NoEpisode, Campaign!NoEpisode
  <2>4. ~rec.violation
    BY <1>0, <2>1, <2>3 DEF Mirror, Campaign!Live, Requests
  <2> HIDE DEF rec
  <2> QED
    BY <1>0, <1>2, <1>4, <2>3, <2>4 DEF Records, rec, RecoveryCalls
<1>5. CASE c.kind = "BIND_MIGRATION"
  <2>1. rec = [violation |-> FALSE, state |-> [sAbstract EXCEPT !.migrationAuthorizedBy = roots]]
    BY <1>5 DEF Campaign!Recorded
  <2>2. ~rec.violation /\ rec.state = [sAbstract EXCEPT !.migrationAuthorizedBy = roots]
    BY <2>1
  <2> HIDE DEF rec
  <2> QED
    BY <1>0, <1>5, <2>2 DEF Records, rec, RecoveryCalls
<1>6. CASE c.kind \notin RecoveryCalls \cup {"BIND_MIGRATION"}
  <2>1. rec = [violation |-> FALSE, state |-> sAbstract]
    BY <1>6 DEF Campaign!Recorded, RecoveryCalls
  <2>2. ~rec.violation /\ rec.state = sAbstract
    BY <2>1
  <2> HIDE DEF rec
  <2> QED
    BY <1>0, <1>6, <2>2 DEF rec, RecoveryCalls
<1> QED
  BY <1>1, <1>3, <1>4, <1>5, <1>6 DEF RecoveryCalls

\* The episode follows the request.
LEMMA MirrorKept ==
    ASSUME Typed, Safe, Mirror, NEW c, NEW roots, Lands(c), BackedBy(c, roots),
           sAbstract' \in Records,
           sAbstract'.live = Campaign!Recorded(c, roots).state.live
    PROVE  Mirror'
<1>0. /\ Shaped(c) /\ Campaign!Accepts(c) /\ sKernel' = Campaign!Landed(c)
      /\ Campaign!SafeStateAfter(c) /\ sKernel.recovery \in Requests
  BY DEF Lands, Typed, Kernels
<1>1. sAbstract'.live = IF c.kind = "INITIATE_RECOVERY" THEN Opened(roots)
                        ELSE IF c.kind \in RecoveryCalls THEN NoEpisode ELSE sAbstract.live
  BY CallsRecorded
<1>2. CASE c.kind = "INITIATE_RECOVERY"
  <2>1. sKernel'.recovery = Proposal(c)
    BY <1>0, <1>2, InitiateLeaves
  <2>2. /\ sKernel'.recovery.active /\ sKernel'.recovery.expiresAt = sNow + RecoveryWindow
        /\ sAbstract'.live.state = "LIVE" /\ sAbstract'.live.expiresAt = sNow + RecoveryWindow
    BY <1>1, <1>2, <2>1 DEF Proposal, Opened
  <2> QED
    BY <2>2 DEF Mirror
<1>3. CASE c.kind \in RecoveryCalls \ {"INITIATE_RECOVERY"}
  <2>1. ~sKernel'.recovery.active
    <3>1. CASE c.kind = "CANCEL_RECOVERY"
      <4>1. sKernel'.recovery = Campaign!Challenged
        BY <1>0, <3>1, CancelLeaves
      <4> QED
        BY <1>0, <4>1 DEF Requests, Campaign!Challenged, Campaign!Dropped
    <3>2. CASE c.kind = "CANCEL_RECOVERY_BY_QUORUM"
      <4>1. sKernel'.recovery = Campaign!Dropped
        BY <1>0, <3>2, QuorumCancelLeaves
      <4> QED
        BY <1>0, <4>1 DEF Requests, Campaign!Dropped
    <3>3. CASE c.kind = "EXECUTE_RECOVERY"
      <4>1. sKernel.recovery.spare \in Spares
        <5>1. Campaign!Live
          BY <1>0, <3>3 DEF Campaign!Accepts
        <5> QED
          BY <1>0, <5>1 DEF Campaign!Live, Safe, Requests
      <4>2. sKernel'.recovery = Campaign!NoRequest
        BY <1>0, <3>3, <4>1, ExecuteLeaves
      <4> QED
        BY <4>2 DEF Campaign!NoRequest
    <3> QED
      BY <1>3, <3>1, <3>2, <3>3 DEF RecoveryCalls
  <2>2. sAbstract'.live.state = "NONE"
    BY <1>1, <1>3 DEF NoEpisode
  <2> QED
    BY <2>1, <2>2 DEF Mirror
<1>4. CASE c.kind \notin RecoveryCalls
  <2>1. UNCHANGED sKernel.recovery
    BY <1>4, RequestsMoved
  <2>2. UNCHANGED sAbstract.live
    BY <1>1, <1>4 DEF RecoveryCalls
  <2> QED
    BY <2>1, <2>2 DEF Mirror
<1> QED
  BY <1>2, <1>3, <1>4 DEF RecoveryCalls

\* Where the safe state goes.
LEMMA StatesMoved ==
    ASSUME NEW c, Lands(c)
    PROVE  /\ c.kind = "ENTER_CONTAINMENT" => Campaign!Contain
           /\ c.kind = "BIND_MIGRATION" => Campaign!LeaveFor("MIGRATION_ONLY")
           /\ c.kind = "RETIRE" => Campaign!LeaveFor("RETIRED")
           /\ c.kind \notin {"ENTER_CONTAINMENT", "BIND_MIGRATION", "RETIRE"} => SafeStateKept
  BY DEF Lands, Campaign!SafeStateAfter, Campaign!containment, SafeStateKept

LEMMA EpisodesKept ==
    ASSUME Typed, Episodes, NEW c, Lands(c)
    PROVE  Episodes'
<1>1. UNCHANGED sNow
  BY DEF Lands
<1> QED
  BY <1>1, StatesMoved, ContainKeeps, LeavingKeeps

\* A binding stays bound, and paid for by as many guardians as the kernel asks for.
LEMMA BoundKept ==
    ASSUME Typed, Safe, Bound, NEW c, NEW roots, Lands(c), BackedBy(c, roots), sKernel' \in Kernels,
           Following' =>
              /\ Following
              /\ sAbstract'.migrationAuthorizedBy =
                    IF c.kind = "BIND_MIGRATION" THEN roots ELSE sAbstract.migrationAuthorizedBy
    PROVE  Bound'
<1>0. Shaped(c) /\ Campaign!Accepts(c)
  BY DEF Lands
<1>1. CASE c.kind = "BIND_MIGRATION"
  <2>1. sState' = "MIGRATION_ONLY"
    BY <1>1, StatesMoved DEF Campaign!LeaveFor
  <2>2. Campaign!QuorumMet(c)
    BY <1>0, <1>1 DEF Campaign!Accepts
  <2>3. roots.guardians >= sKernel.threshold
    BY <1>1, <2>2, QuorumCharged DEF SignedByQuorum
  <2>4. UNCHANGED sKernel.threshold
    BY <1>1, RequestsMoved
  <2> QED
    BY <1>1, <2>1, <2>3, <2>4 DEF Bound
<1>2. CASE c.kind \in {"SET_GUARDIANS", "ENTER_CONTAINMENT"}
  <2>1. sState \notin {"MIGRATION_ONLY", "RETIRED"}
    BY <1>0, <1>2 DEF Campaign!Accepts, Campaign!IsNormal, Campaign!MayContain,
       Campaign!EffectiveState
  <2>2. sKernel'.boundAt = 0
    BY <1>2, <2>1, RequestsMoved DEF Bound
  <2> QED
    BY <2>2 DEF Bound
<1>3. CASE c.kind \notin {"BIND_MIGRATION", "SET_GUARDIANS", "ENTER_CONTAINMENT"}
  <2>1. UNCHANGED <<sKernel.boundAt, sKernel.threshold>>
    BY <1>3, RequestsMoved
  <2>2. sState' = sState \/ sState' = "RETIRED"
    BY <1>3, StatesMoved DEF SafeStateKept, Campaign!LeaveFor
  <2> QED
    BY <1>3, <2>1, <2>2 DEF Bound
<1> QED
  BY <1>1, <1>2, <1>3

\* A live request keeps the approval that it takes to execute it.
LEMMA ApprovedKept ==
    ASSUME Typed, Safe, Mirror, Approved, NEW c, NEW roots, Lands(c), BackedBy(c, roots),
           sKernel' \in Kernels,
           sAbstract'.live = Campaign!Recorded(c, roots).state.live,
           sRaised' = (sRaised \/ Campaign!Raises(c)), Mirror'
    PROVE  Approved'
<1>0. /\ Shaped(c) /\ Campaign!Accepts(c) /\ UNCHANGED sNow
      /\ sAbstract'.live = IF c.kind = "INITIATE_RECOVERY" THEN Opened(roots)
                           ELSE IF c.kind \in RecoveryCalls THEN NoEpisode ELSE sAbstract.live
      /\ sAbstract.live.authorizedBy.guardians \in Nat
      /\ sKernel.threshold \in Nat /\ sKernel'.threshold \in Nat
  BY CallsRecorded DEF Lands, Typed, Records, RootCounts, Kernels
<1> SUFFICES ASSUME Campaign!Live', ~sRaised'
             PROVE  sAbstract'.live.authorizedBy.guardians >= sKernel'.threshold
  BY DEF Approved
<1>1. CASE c.kind = "INITIATE_RECOVERY"
  <2>1. Campaign!QuorumMet(c)
    BY <1>0, <1>1 DEF Campaign!Accepts
  <2>2. roots.guardians >= sKernel.threshold
    BY <1>1, <2>1, QuorumCharged DEF SignedByQuorum
  <2>3. UNCHANGED sKernel.threshold
    BY <1>1, RequestsMoved
  <2>4. sAbstract'.live.authorizedBy = roots
    BY <1>0, <1>1 DEF Opened
  <2> QED
    BY <2>2, <2>3, <2>4
<1>2. CASE c.kind \in RecoveryCalls \ {"INITIATE_RECOVERY"}
  <2>1. sAbstract'.live.state = "NONE"
    BY <1>0, <1>2 DEF NoEpisode
  <2>2. sKernel'.recovery.active
    BY DEF Campaign!Live
  <2> QED
    BY <2>1, <2>2 DEF Mirror
<1>3. CASE c.kind \notin RecoveryCalls
  <2>1. UNCHANGED sKernel.recovery /\ UNCHANGED sAbstract.live
    BY <1>0, <1>3, RequestsMoved DEF RecoveryCalls
  <2>2. Campaign!Live /\ ~sRaised
    BY <1>0, <2>1 DEF Campaign!Live
  <2>3. sAbstract.live.authorizedBy.guardians >= sKernel.threshold
    BY <2>2 DEF Approved
  <2>4. sKernel'.threshold <= sKernel.threshold
    <3>1. CASE c.kind = "SET_GUARDIANS"
      <4>1. ~Campaign!Raises(c)
        OBVIOUS
      <4>2. ~(c.body.threshold > sKernel.threshold)
        BY <2>2, <3>1, <4>1 DEF Campaign!Raises
      <4>3. sKernel'.threshold = c.body.threshold
        BY <3>1, RequestsMoved
      <4> QED
        BY <1>0, <4>2, <4>3
    <3>2. CASE c.kind # "SET_GUARDIANS"
      <4>1. sKernel'.threshold = sKernel.threshold
        BY <3>2, RequestsMoved
      <4> QED
        BY <1>0, <4>1
    <3> QED
      BY <3>1, <3>2
  <2> QED
    BY <1>0, <2>1, <2>3, <2>4
<1> QED
  BY <1>1, <1>2, <1>3

-----------------------------------------------------------------------------
(* What the harness believes is installed *)

Installed(believed) ==
    /\ believed.cred = sKernel'.signer /\ believed.verifier = sKernel'.verifier
    /\ believed.requirePq = sKernel'.requirePq /\ believed.policy = sKernel'.policy
    /\ believed.roster = sKernel'.roster
    /\ sKernel'.pq # NoKey => believed.pq = sKernel'.pq

\* A direct call that lands: what it installed is what the harness takes it for.
LEMMA SuccessBelieved ==
    ASSUME Typed, Safe, NEW c, Lands(c)
    PROVE  /\ Campaign!OnSuccess(c) \in Beliefs
           /\ Match => Installed(Campaign!OnSuccess(c))
<1>0. /\ Shaped(c) /\ Campaign!Accepts(c) /\ sKernel' = Campaign!Landed(c)
      /\ Campaign!SafeStateAfter(c) /\ c.kind \in Kinds /\ sCtx \in Beliefs
      /\ sKernel.recovery \in Requests
  BY DEF Lands, Shaped, Typed, Kernels
<1> DEFINE after == Campaign!OnSuccess(c)
<1>1. CASE c.kind = "ROTATE_CREDENTIAL"
  <2>1. c.body.hash = c.body.spare /\ c.body.spare \in RealKeys /\ c.body.spare # Decoy
    <3>1. Campaign!Possesses(c, c.body.spare, sKernel.verifier)
      BY <1>0, <1>1 DEF Campaign!Accepts
    <3>2. c.body.exhibit = c.body.hash
      BY <3>1 DEF Campaign!Possesses
    <3> QED
      BY <1>0, <1>1, <3>2, Constants DEF Shaped, RealKeys
  <2>2. after = [sCtx EXCEPT !.cred = c.body.spare, !.pq = c.body.spare]
    <3>1. after = [sCtx EXCEPT !.cred = c.body.spare,
                               !.pq = IF c.body.hash = Campaign!Decoy THEN sCtx.pq ELSE c.body.spare]
      BY <1>1 DEF Campaign!OnSuccess
    <3> QED
      BY <2>1, <3>1 DEF Decoy
  <2>3. /\ sKernel'.signer = c.body.spare /\ sKernel'.pq = c.body.spare /\ RosterKept
        /\ UNCHANGED <<sKernel.verifier, sKernel.requirePq, sKernel.policy>>
    BY <1>0, <1>1, <2>1, RotateLeaves
  <2> HIDE DEF after
  <2>4. after \in Beliefs
    BY <1>0, <2>1, <2>2 DEF Beliefs
  <2>5. /\ after.cred = c.body.spare /\ after.pq = c.body.spare
        /\ after.verifier = sCtx.verifier /\ after.requirePq = sCtx.requirePq
        /\ after.policy = sCtx.policy /\ after.roster = sCtx.roster
    BY <1>0, <2>2 DEF Beliefs
  <2>6. Match => Installed(after)
    BY <2>3, <2>5 DEF Match, Installed, RosterKept
  <2> QED
    BY <2>4, <2>6 DEF after
<1>2. CASE c.kind = "SET_VERIFIER"
  <2>1. after = [sCtx EXCEPT !.verifier = c.body.verifier, !.requirePq = c.body.requirePq]
    BY <1>2 DEF Campaign!OnSuccess
  <2>2. c.body.verifier \in Verifiers /\ c.body.requirePq \in BOOLEAN
    BY <1>0, <1>2 DEF Shaped, Verifiers
  <2>3. /\ sKernel'.verifier = c.body.verifier /\ sKernel'.requirePq = c.body.requirePq
        /\ RosterKept /\ UNCHANGED <<sKernel.signer, sKernel.pq, sKernel.policy>>
    BY <1>0, <1>2, SetVerifierLeaves
  <2> HIDE DEF after
  <2>4. after \in Beliefs
    BY <1>0, <2>1, <2>2 DEF Beliefs
  <2>5. /\ after.cred = sCtx.cred /\ after.pq = sCtx.pq
        /\ after.verifier = c.body.verifier /\ after.requirePq = c.body.requirePq
        /\ after.policy = sCtx.policy /\ after.roster = sCtx.roster
    BY <1>0, <2>1 DEF Beliefs
  <2>6. Match => Installed(after)
    BY <2>3, <2>5 DEF Match, Installed, RosterKept
  <2> QED
    BY <2>4, <2>6 DEF after
<1>3. CASE c.kind = "SET_POLICY"
  <2>1. after = [sCtx EXCEPT !.policy = c.body.policy]
    BY <1>3 DEF Campaign!OnSuccess
  <2>2. c.body.policy \in Policies
    BY <1>0, <1>3 DEF Shaped, Policies
  <2>3. sKernel'.policy = c.body.policy /\ CredentialKept /\ RosterKept
    BY <1>0, <1>3, SetPolicyLeaves
  <2> HIDE DEF after
  <2>4. after \in Beliefs
    BY <1>0, <2>1, <2>2 DEF Beliefs
  <2>5. /\ after.cred = sCtx.cred /\ after.pq = sCtx.pq
        /\ after.verifier = sCtx.verifier /\ after.requirePq = sCtx.requirePq
        /\ after.policy = c.body.policy /\ after.roster = sCtx.roster
    BY <1>0, <2>1 DEF Beliefs
  <2>6. Match => Installed(after)
    BY <2>3, <2>5 DEF Match, Installed, RosterKept, CredentialKept
  <2> QED
    BY <2>4, <2>6 DEF after
<1>4. CASE c.kind = "SET_GUARDIANS"
  <2>1. after = [sCtx EXCEPT !.roster = c.body.roster]
    BY <1>4 DEF Campaign!OnSuccess
  <2>2. c.body.roster = Successors /\ c.body.roster \in Rosters
    BY <1>0, <1>4 DEF Campaign!Accepts, Shaped, Rosters
  <2>3. sKernel'.roster = Successors /\ CredentialKept /\ UNCHANGED sKernel.policy
    BY <1>0, <1>4, <2>2, SetGuardiansLeaves
  <2> HIDE DEF after
  <2>4. after \in Beliefs
    BY <1>0, <2>1, <2>2 DEF Beliefs
  <2>5. /\ after.cred = sCtx.cred /\ after.pq = sCtx.pq
        /\ after.verifier = sCtx.verifier /\ after.requirePq = sCtx.requirePq
        /\ after.policy = sCtx.policy /\ after.roster = c.body.roster
    BY <1>0, <2>1 DEF Beliefs
  <2>6. Match => Installed(after)
    BY <2>2, <2>3, <2>5 DEF Match, Installed, CredentialKept
  <2> QED
    BY <2>4, <2>6 DEF after
<1>5. CASE c.kind = "EXECUTE_RECOVERY"
  <2>1. /\ c.body.spare = sKernel.recovery.spare /\ sKernel.recovery.spare \in Spares
        /\ sKernel.recovery.verifier \in Verifiers
    <3>1. Campaign!Live /\ c.body.spare = sKernel.recovery.spare
      BY <1>0, <1>5 DEF Campaign!Accepts
    <3> QED
      BY <1>0, <3>1 DEF Campaign!Live, Safe, Requests
  <2>2. after = [sCtx EXCEPT !.cred = c.body.spare, !.pq = c.body.spare,
                             !.verifier = sKernel.recovery.verifier]
    BY <1>5 DEF Campaign!OnSuccess
  <2>3. /\ sKernel'.signer = sKernel.recovery.spare /\ sKernel'.pq = sKernel.recovery.spare
        /\ sKernel'.verifier = sKernel.recovery.verifier
        /\ RosterKept /\ UNCHANGED <<sKernel.requirePq, sKernel.policy>>
    BY <1>0, <1>5, <2>1, ExecuteLeaves
  <2> HIDE DEF after
  <2>4. after \in Beliefs
    BY <1>0, <2>1, <2>2 DEF Beliefs, RealKeys
  <2>5. /\ after.cred = c.body.spare /\ after.pq = c.body.spare
        /\ after.verifier = sKernel.recovery.verifier /\ after.requirePq = sCtx.requirePq
        /\ after.policy = sCtx.policy /\ after.roster = sCtx.roster
    BY <1>0, <2>2 DEF Beliefs
  <2>6. Match => Installed(after)
    BY <2>1, <2>3, <2>5 DEF Match, Installed, RosterKept
  <2> QED
    BY <2>4, <2>6 DEF after
<1>6. CASE c.kind \notin {"ROTATE_CREDENTIAL", "SET_VERIFIER", "SET_POLICY", "SET_GUARDIANS",
                          "EXECUTE_RECOVERY"}
  <2>1. after = sCtx
    BY <1>6 DEF Campaign!OnSuccess
  <2>2. CredentialKept /\ UNCHANGED <<sKernel.roster, sKernel.policy>>
    <3>1. CASE c.kind = "SPEND"
      BY <1>0, <3>1, SpendLeaves DEF RosterKept
    <3>2. CASE c.kind = "INITIATE_RECOVERY"
      BY <1>0, <3>2, InitiateLeaves DEF RosterKept
    <3>3. CASE c.kind = "CANCEL_RECOVERY"
      BY <1>0, <3>3, CancelLeaves DEF RosterKept
    <3>4. CASE c.kind = "CANCEL_RECOVERY_BY_QUORUM"
      BY <1>0, <3>4, QuorumCancelLeaves DEF RosterKept
    <3>5. CASE c.kind = "ENTER_CONTAINMENT"
      BY <1>0, <3>5, ContainLeaves DEF RosterKept
    <3>6. CASE c.kind = "BIND_MIGRATION"
      BY <1>0, <3>6, BindLeaves DEF RosterKept
    <3>7. CASE c.kind = "RETIRE"
      BY <1>0, <3>7, RetireLeaves DEF CredentialKept
    <3>8. CASE c.kind = "EGRESS"
      BY <1>0, <3>8, EgressLeaves DEF RosterKept
    <3> QED
      BY <1>0, <1>6, <3>1, <3>2, <3>3, <3>4, <3>5, <3>6, <3>7, <3>8
         DEF Kinds, SignedByBoth, SignedByOne, SignedByQuorum, Unsigned
  <2>3. Match => Installed(sCtx)
    BY <2>2 DEF Match, Installed, CredentialKept
  <2> QED
    BY <1>0, <2>1, <2>3
<1> QED
  BY <1>1, <1>2, <1>3, <1>4, <1>5, <1>6

\* What generation 2 reads back is what is installed, the roster being known.
LEMMA ReadBack ==
    ASSUME NEW believed \in Beliefs, sKernel' \in Kernels, believed.roster = sKernel'.roster
    PROVE  /\ Campaign!syncModelFromChain(believed) \in Beliefs
           /\ Installed(Campaign!syncModelFromChain(believed))
<1> DEFINE key == IF sKernel'.pq \in {NoKey, Decoy} THEN believed.pq ELSE sKernel'.pq
           after == Campaign!syncModelFromChain(believed)
<1>1. after = [believed EXCEPT !.cred = sKernel'.signer, !.pq = key,
                               !.verifier = sKernel'.verifier, !.policy = sKernel'.policy,
                               !.requirePq = sKernel'.requirePq]
  BY DEF Campaign!syncModelFromChain, NoKey, Decoy
<1>2. key \in RealKeys /\ (sKernel'.pq # NoKey => key = sKernel'.pq)
  BY Constants DEF Kernels, Beliefs
<1> HIDE DEF key, after
<1>3. after \in Beliefs
  BY <1>1, <1>2 DEF Kernels, Beliefs
<1>4. /\ after.cred = sKernel'.signer /\ after.pq = key /\ after.verifier = sKernel'.verifier
      /\ after.policy = sKernel'.policy /\ after.requirePq = sKernel'.requirePq
      /\ after.roster = believed.roster
  BY <1>1 DEF Beliefs
<1>5. Installed(after)
  BY <1>2, <1>4 DEF Installed
<1> QED
  BY <1>3, <1>5 DEF after

\* After a direct call.
LEMMA BeliefsKept ==
    ASSUME Typed, Safe, NEW c, Lands(c), sKernel' \in Kernels,
           Campaign!Believe(Campaign!OnSuccess(c)), sGeneration = 2 => Match
    PROVE  sCtx' \in Beliefs /\ (Match => Match')
<1>1. /\ Campaign!OnSuccess(c) \in Beliefs
      /\ Match => Installed(Campaign!OnSuccess(c))
  BY SuccessBelieved
<1>2. PICK believed : believed = Campaign!OnSuccess(c)
  OBVIOUS
<1>3. sCtx' = IF sGeneration = 2 THEN Campaign!syncModelFromChain(believed) ELSE believed
  BY <1>2 DEF Campaign!Believe
<1>4. believed \in Beliefs /\ (Match => Installed(believed))
  BY <1>1, <1>2
<1>5. sCtx' \in Beliefs /\ (Match => Installed(sCtx'))
  <2>1. CASE sGeneration = 2
    <3>1. believed.roster = sKernel'.roster
      BY <1>4, <2>1 DEF Installed
    <3> QED
      BY <1>3, <1>4, <2>1, <3>1, ReadBack
  <2>2. CASE sGeneration # 2
    BY <1>3, <1>4, <2>2
  <2> QED
    BY <2>1, <2>2
<1> QED
  BY <1>5 DEF Match, Installed

\* After a replay: generation 1 does not follow it.
LEMMA BeliefsAfterReplay ==
    ASSUME Typed, Safe, NEW old, Lands(old.call), sKernel' \in Kernels,
           Campaign!Believe(Campaign!BelievedAfterReplay(old)), sGeneration = 2 => Match
    PROVE  sCtx' \in Beliefs /\ (sGeneration = 2 => Match')
<1> DEFINE believed == Campaign!BelievedAfterReplay(old)
<1>1. sCtx' = IF sGeneration = 2 THEN Campaign!syncModelFromChain(believed) ELSE believed
  BY DEF Campaign!Believe
<1>2. sCtx \in Beliefs
  BY DEF Typed
<1>3. CASE sGeneration # 2
  BY <1>1, <1>2, <1>3 DEF Campaign!BelievedAfterReplay
<1>4. CASE sGeneration = 2
  <2>1. believed \in Beliefs /\ believed.roster = sKernel'.roster
    <3>1. CASE old.call.kind = "SET_GUARDIANS"
      <4>1. believed = [sCtx EXCEPT !.roster = old.call.body.roster]
        BY <1>4, <3>1 DEF Campaign!BelievedAfterReplay
      <4>2. sKernel'.roster = Successors /\ old.call.body.roster = Successors
        BY <3>1, RequestsMoved DEF Lands, Shaped, Campaign!Accepts
      <4> HIDE DEF believed
      <4> QED
        BY <1>2, <4>1, <4>2 DEF Beliefs, Rosters
    <3>2. CASE old.call.kind # "SET_GUARDIANS"
      <4>1. believed = sCtx
        BY <3>2 DEF Campaign!BelievedAfterReplay
      <4>2. UNCHANGED sKernel.roster
        BY <3>2, RequestsMoved
      <4> QED
        BY <1>2, <1>4, <4>1, <4>2 DEF Match
    <3> QED
      BY <3>1, <3>2
  <2> HIDE DEF believed
  <2>2. sCtx' \in Beliefs /\ Installed(sCtx')
    BY <1>1, <1>4, <2>1, ReadBack
  <2> QED
    BY <2>2 DEF Installed, Match
<1> QED
  BY <1>3, <1>4

-----------------------------------------------------------------------------
(* The calls that are kept, to be sent again *)

\* What the kernel took is spent; what it refused is charged to its author.
Kept(e) ==
    /\ Shaped(e.call) /\ BackedBy(e.call, e.roots)
    /\ Following => FullyBackedBy(e.call, e.roots)
    /\ e.ok /\ e.call.kind \notin Unsigned => e.call.nonce < sKernel.nonces[e.call.domain]

Entries(s) == {s[i] : i \in DOMAIN s}

AllKept ==
    /\ sHistory \in Seq(Entries(sHistory))
    /\ \A i \in DOMAIN sHistory : Kept(sHistory[i])

\* t is s, n long, with e at its end.
Longer(t, s, e, n) ==
    /\ DOMAIN s = 1..n /\ DOMAIN t = 1..(n + 1)
    /\ \A i \in 1..n : t[i] = s[i]
    /\ t[n + 1] = e

LEMMA Appended ==
    ASSUME NEW S, NEW s \in Seq(S), NEW e \in S
    PROVE  Append(s, e) \in Seq(S) /\ \E n \in Nat : Longer(Append(s, e), s, e, n)
<1> DEFINE t == Append(s, e)
<1>1. Len(s) \in Nat /\ DOMAIN s = 1..Len(s)
  BY LenProperties
<1>2. /\ t \in Seq(S) /\ Len(t) = Len(s) + 1
      /\ \A i \in 1..Len(s) : t[i] = s[i]
      /\ t[Len(s) + 1] = e
  BY AppendProperties
<1> HIDE DEF t
<1>3. DOMAIN t = 1..Len(t)
  BY <1>2, LenProperties
<1>4. DOMAIN t = 1..(Len(s) + 1)
  BY <1>2, <1>3
<1>5. Longer(t, s, e, Len(s))
  BY <1>1, <1>2, <1>4 DEF Longer
<1> QED
  BY <1>1, <1>2, <1>5, Zenon DEF t

Added(t, s, e) ==
    /\ t \in Seq(Entries(t))
    /\ \A i \in DOMAIN t : t[i] = e \/ (i \in DOMAIN s /\ t[i] = s[i])

LEMMA AppendedEntry ==
    ASSUME NEW s, s \in Seq(Entries(s)), NEW e
    PROVE  Added(Append(s, e), s, e)
<1>0. PICK t : t = Append(s, e)
  OBVIOUS
<1>1. PICK R : R = Entries(s)
  OBVIOUS
<1>2. PICK S : S = R \cup {e}
  OBVIOUS
<1>3. s \in Seq(R)
  BY <1>1
<1>4. s \in Seq(S) /\ e \in S
  BY ONLY <1>2, <1>3
<1>5. t \in Seq(S) /\ \E n \in Nat : Longer(t, s, e, n)
  BY ONLY <1>4, Appended, <1>0, Zenon
<1>6. PICK n \in Nat : Longer(t, s, e, n)
  BY <1>5
<1>7. \A i \in DOMAIN t : t[i] = e \/ (i \in DOMAIN s /\ t[i] = s[i])
  BY ONLY n \in Nat, <1>6 DEF Longer
<1>8. t \in Seq(Entries(t))
  <2>1. PICK T : T = Entries(t)
    OBVIOUS
  <2>2. PICK m \in Nat : t \in [1..m -> S] /\ DOMAIN t = 1..m
    BY ONLY <1>5
  <2>3. t \in [1..m -> T]
    BY ONLY <2>1, <2>2 DEF Entries
  <2>4. t \in Seq(T)
    BY ONLY m \in Nat, <2>3
  <2> QED
    BY <2>1, <2>4
<1>9. Added(t, s, e)
  BY <1>7, <1>8 DEF Added
<1> QED
  BY <1>0, <1>9, Zenon

\* A signed call that lands uses up the nonce it was signed at.
LEMMA SignedCallsSpend ==
    ASSUME Typed, Safe, NEW c, Lands(c), c.kind \notin Unsigned
    PROVE  /\ c.domain \in Domains /\ c.nonce = sKernel.nonces[c.domain]
           /\ c.nonce < sKernel'.nonces[c.domain]
<1>0. /\ Shaped(c) /\ Campaign!Accepts(c) /\ sKernel' = Campaign!Landed(c)
      /\ Campaign!SafeStateAfter(c) /\ c.kind \in Kinds /\ c.domain = DomainOf(c.kind)
  BY DEF Lands, Shaped
<1>1. Campaign!Current(c)
  BY <1>0 DEF Campaign!Accepts, Kinds, SignedByBoth, SignedByOne, SignedByQuorum, Unsigned
<1>2. NonceSpent(c.domain)
  <2>1. CASE c.kind = "SPEND"
    BY <1>0, <2>1, SpendLeaves DEF DomainOf
  <2>2. CASE c.kind = "ROTATE_CREDENTIAL"
    <3>1. c.body.hash = c.body.spare
      <4>1. Campaign!Possesses(c, c.body.spare, sKernel.verifier)
        BY <1>0, <2>2 DEF Campaign!Accepts
      <4>2. c.body.exhibit = c.body.hash
        BY <4>1 DEF Campaign!Possesses
      <4> QED
        BY <1>0, <2>2, <4>2 DEF Shaped
    <3> QED
      BY <1>0, <2>2, <3>1, RotateLeaves DEF DomainOf, SignedByBoth
  <2>3. CASE c.kind = "SET_VERIFIER"
    BY <1>0, <2>3, SetVerifierLeaves DEF DomainOf, SignedByBoth
  <2>4. CASE c.kind = "SET_POLICY"
    BY <1>0, <2>4, SetPolicyLeaves DEF DomainOf, SignedByBoth
  <2>5. CASE c.kind = "SET_GUARDIANS"
    <3>1. c.body.roster = Successors
      BY <1>0, <2>5 DEF Campaign!Accepts, Shaped
    <3> QED
      BY <1>0, <2>5, <3>1, SetGuardiansLeaves DEF DomainOf, SignedByBoth
  <2>6. CASE c.kind = "INITIATE_RECOVERY"
    BY <1>0, <2>6, InitiateLeaves DEF DomainOf, SignedByBoth
  <2>7. CASE c.kind = "CANCEL_RECOVERY"
    BY <1>0, <2>7, CancelLeaves DEF DomainOf, SignedByBoth
  <2>8. CASE c.kind = "CANCEL_RECOVERY_BY_QUORUM"
    BY <1>0, <2>8, QuorumCancelLeaves DEF DomainOf, SignedByBoth
  <2>9. CASE c.kind = "ENTER_CONTAINMENT"
    BY <1>0, <2>9, ContainLeaves DEF DomainOf, SignedByBoth
  <2>10. CASE c.kind = "BIND_MIGRATION"
    BY <1>0, <2>10, BindLeaves DEF DomainOf, SignedByBoth
  <2> QED
    BY <1>0, <2>1, <2>2, <2>3, <2>4, <2>5, <2>6, <2>7, <2>8, <2>9, <2>10
       DEF Kinds, SignedByBoth, SignedByOne, SignedByQuorum, Unsigned
<1>3. /\ c.domain \in Domains /\ c.nonce = sKernel.nonces[c.domain]
      /\ sKernel'.nonces[c.domain] = sKernel.nonces[c.domain] + 1
      /\ sKernel.nonces[c.domain] \in Nat
  BY <1>1, <1>2 DEF NonceSpent, Campaign!Current, Typed, Kernels
<1> QED
  BY <1>3

\* What was kept stays so, as nonces only grow.
LEMMA EntriesKept ==
    ASSUME Typed, NEW e, Kept(e), Following' => Following,
           sKernel' \in Kernels, \A d \in Domains : sKernel'.nonces[d] >= sKernel.nonces[d]
    PROVE  Kept(e)'
<1>1. \A d \in Domains : sKernel.nonces[d] \in Nat /\ sKernel'.nonces[d] \in Nat
  BY DEF Typed, Kernels
<1>2. e.call.kind \notin Unsigned => e.call.domain \in Domains /\ e.call.nonce \in Nat
  BY DEF Kept, Shaped, DomainOf, Domains
<1>3. e.ok /\ e.call.kind \notin Unsigned => e.call.nonce < sKernel'.nonces[e.call.domain]
  BY <1>1, <1>2 DEF Kept
<1> QED
  BY <1>3 DEF Kept, Shaped, BackedBy, FullyBackedBy, QuorumBacked

\* A call that lands again was refused before, and its author is charged.
LEMMA ReplaysCharged ==
    ASSUME Typed, Safe, NEW actor, NEW e, Kept(e), Lands(e.call)
    PROVE  Campaign!ReplayAttribution(actor, e) = Campaign!AttributedTo(e.call, e.roots)
<1>1. CASE e.call.kind \in Unsigned
  BY <1>1 DEF Campaign!ReplayAttribution, Unsigned
<1>2. CASE e.call.kind \notin Unsigned
  <2>1. ~e.ok
    <3> SUFFICES ASSUME e.ok
                 PROVE  FALSE
      OBVIOUS
    <3>1. e.call.nonce < sKernel.nonces[e.call.domain]
      BY <1>2 DEF Kept
    <3>2. e.call.domain \in Domains /\ e.call.nonce = sKernel.nonces[e.call.domain]
      BY <1>2, SignedCallsSpend
    <3>3. e.call.nonce \in Nat
      BY <1>2 DEF Kept, Shaped
    <3> QED
      BY <3>1, <3>2, <3>3
  <2>2. Campaign!ReplayAttribution(actor, e) = e.roots
    BY <1>2, <2>1 DEF Campaign!ReplayAttribution, Unsigned
  <2>3. Campaign!AttributedTo(e.call, e.roots) = e.roots
    BY <1>2 DEF Campaign!AttributedTo, Unsigned
  <2> QED
    BY <2>2, <2>3
<1> QED
  BY <1>1, <1>2

-----------------------------------------------------------------------------
(* What the harness reports *)

\* The one thing that it reports of a kernel that it follows.
Quiet == Following => sAlarms \subseteq {"P-CUT"} /\ (sAlarms # {} => sRaised)

LEMMA TimeContained ==
    sNow \in Nat /\ Episodes => Campaign!containmentUsedInWindow <= ContainmentBudget
  BY UsedWithinBudget

LEMMA TimeContainedNext ==
    sNow' \in Nat /\ Episodes' => Campaign!containmentUsedInWindow' <= ContainmentBudget
<1>1. (sNow \in Nat /\ Episodes => Campaign!containmentUsedInWindow <= ContainmentBudget)'
  BY TimeContained, PTL
<1> QED
  BY <1>1

LEMMA GlobalsHold ==
    ASSUME Typed, Safe, Episodes, NEW c, Lands(c)
    PROVE  Campaign!checkGlobals
<1>1. Acceptable
  BY CallsChecked
<1>2. Episodes' /\ sNow' \in Nat
  BY EpisodesKept DEF Lands, Typed
<1>3. Campaign!containmentUsedInWindow' <= ContainmentBudget
  BY <1>2, TimeContainedNext
<1>4. Campaign!StateGlobals
  BY <1>1, <1>3 DEF Acceptable, Grown, Campaign!StateGlobals
<1> QED
  BY <1>1, <1>4 DEF Acceptable, Campaign!checkGlobals

\* Judged where it lands, a call raises no alarm but for what a raised threshold left.
LEMMA JudgedQuiet ==
    ASSUME Typed, Safe, Bound, Approved, Episodes, Match, Following, Quiet,
           NEW c, NEW roots, Lands(c), BackedBy(c, roots), FullyBackedBy(c, roots),
           NEW kind, kind = "SPEND" => c.kind = "SPEND", NEW charged,
           charged = Campaign!AttributedTo(c, roots), NEW violation, ~violation, NEW stale, ~stale,
           Campaign!Judge(kind, charged, violation, stale),
           sRaised' = (sRaised \/ Campaign!Raises(c))
    PROVE  Quiet'
<1>1. ~Campaign!UnentitledOutcome(charged) \/ sRaised
  BY CallsEntitled
<1>2. Campaign!checkGlobals
  BY GlobalsHold
<1>3. ~(kind = "SPEND" /\ sCtx.policy = "deny" /\ sKernel'.balance < sKernel.balance)
  <2> SUFFICES ASSUME kind = "SPEND"
               PROVE  sCtx.policy # "deny"
    OBVIOUS
  <2>1. sKernel.policy # "deny"
    BY DEF Lands, Campaign!Accepts
  <2> QED
    BY <2>1 DEF Match
<1>4. sAlarms' = sAlarms
        \cup (IF Campaign!UnentitledOutcome(charged) THEN {"P-CUT"} ELSE {})
        \cup (IF stale THEN {"P-INCOMING-POSSESSION"} ELSE {})
        \cup (IF kind = "SPEND" /\ sCtx.policy = "deny" /\ sKernel'.balance < sKernel.balance
              THEN {"P-PLANE-SUBTRACTIVE"} ELSE {})
        \cup (IF violation THEN {"P-MODEL"} ELSE {})
        \cup (IF Campaign!checkGlobals THEN {} ELSE {"G"})
  BY DEF Campaign!Judge
<1>5. sAlarms' = sAlarms \cup (IF Campaign!UnentitledOutcome(charged) THEN {"P-CUT"} ELSE {})
  BY ONLY <1>2, <1>3, <1>4, ~violation, ~stale
<1>6. sAlarms \subseteq {"P-CUT"} /\ (sAlarms # {} => sRaised)
  BY DEF Quiet
<1>7. sAlarms' \subseteq {"P-CUT"} /\ (sAlarms' # {} => sRaised)
  BY <1>1, <1>5, <1>6
<1> QED
  BY <1>7 DEF Quiet

-----------------------------------------------------------------------------
(* The invariant *)

\* The inductive invariant.  What a step gains is judged by what its sender is known to
\* own, so CampaignIsHonest leans on all of it: what the harness believes is what the
\* chain holds (Match), each kept call was sent by whoever owned what it took (AllKept),
\* the episodes lie far enough apart for the budget of containment (Episodes), and a
\* live request was approved by as many guardians as now execute it (Approved).
CampaignInv ==
    /\ Typed /\ Safe /\ Episodes
    /\ Mirror /\ Bound /\ Approved
    /\ Following => Match
    /\ AllKept /\ Quiet

\* All of it but what is kept to be sent again, after a call that lands.
LEMMA LandingKeeps ==
    ASSUME CampaignInv, NEW c, NEW roots, Lands(c), BackedBy(c, roots),
           Following' => Following /\ FullyBackedBy(c, roots),
           UNCHANGED <<sGeneration, sProfile>>,
           sAbstract' \in Records,
           sAbstract'.live = Campaign!Recorded(c, roots).state.live,
           Following' => sAbstract'.migrationAuthorizedBy =
                            Campaign!Recorded(c, roots).state.migrationAuthorizedBy,
           sCtx' \in Beliefs, Following' => Match',
           sRaised' = (sRaised \/ Campaign!Raises(c)),
           NEW kind, kind = "SPEND" => c.kind = "SPEND",
           NEW violation, ~violation, NEW stale, ~stale, NEW charged,
           charged = Campaign!AttributedTo(c, roots),
           Campaign!Judge(kind, charged, violation, stale),
           AllKept'
    PROVE  CampaignInv'
<1>0. /\ Typed /\ Safe /\ Episodes /\ Mirror /\ Bound /\ Approved /\ Quiet
      /\ Following => Match
  BY DEF CampaignInv
<1>1. Acceptable /\ UNCHANGED sNow
  BY <1>0, CallsChecked DEF Lands
<1>2. Typed'
  BY <1>0, <1>1 DEF Typed, Acceptable
<1>3. Safe'
  BY <1>1 DEF Acceptable, Campaign!RecoveryGlobals, Safe, NoKey
<1>4. Episodes'
  BY <1>0, EpisodesKept
<1>5. Mirror'
  BY <1>0, MirrorKept
<1>6. Bound'
  <2>1. Campaign!Recorded(c, roots).state.migrationAuthorizedBy =
            IF c.kind = "BIND_MIGRATION" THEN roots ELSE sAbstract.migrationAuthorizedBy
    BY <1>0, CallsRecorded
  <2> QED
    BY <1>0, <1>1, <2>1, BoundKept DEF Acceptable
<1>7. Approved'
  BY <1>0, <1>1, <1>5, ApprovedKept DEF Acceptable
<1>8. Quiet'
  <2>1. CASE Following'
    <3>1. Match /\ Following /\ FullyBackedBy(c, roots)
      BY <1>0, <2>1
    <3> QED
      BY <1>0, <3>1, JudgedQuiet
  <2>2. CASE ~Following'
    BY <2>2 DEF Quiet
  <2> QED
    BY <2>1, <2>2
<1> QED
  BY <1>2, <1>3, <1>4, <1>5, <1>6, <1>7, <1>8 DEF CampaignInv

\* One more entry, if it is kept, and none that was kept is lost.
LEMMA EntryAdded ==
    ASSUME Typed, AllKept, Following' => Following, sKernel' \in Kernels,
           \A d \in Domains : sKernel'.nonces[d] >= sKernel.nonces[d],
           NEW e, sHistory' = Append(sHistory, e), Kept(e)'
    PROVE  AllKept'
<1>1. sHistory \in Seq(Entries(sHistory))
  BY DEF AllKept
<1>2. PICK t : t = sHistory'
  OBVIOUS
<1>3. Added(t, sHistory, e)
  BY <1>1, <1>2, AppendedEntry, Zenon
<1>4. \A i \in DOMAIN sHistory : Kept(sHistory[i])
  BY DEF AllKept
<1>5. ASSUME NEW i \in DOMAIN t
      PROVE  Kept(t[i])'
  <2>1. CASE t[i] = e
    BY <2>1, Zenon
  <2>2. CASE i \in DOMAIN sHistory /\ t[i] = sHistory[i]
    <3>1. PICK u : u = t[i]
      OBVIOUS
    <3>2. Kept(u)
      BY <1>4, <2>2, <3>1
    <3>3. Kept(u)'
      BY <3>2, EntriesKept
    <3> QED
      BY <3>1, <3>3, Zenon
  <2> QED
    BY <1>3, <2>1, <2>2 DEF Added
<1> QED
  BY <1>2, <1>3, <1>5, Zenon DEF AllKept, Added

LEMMA AttemptKeeps ==
    ASSUME CampaignInv, NEW actor, NEW c, NEW stale, Sends(actor, c, stale)
    PROVE  CampaignInv'
<1> DEFINE roots == Campaign!rootsNow(actor)
<1>0. /\ Typed /\ Safe /\ Episodes /\ Mirror /\ Bound /\ Approved /\ Quiet /\ AllKept
      /\ Following => Match
  BY DEF CampaignInv
<1>1. /\ Campaign!Attempt(actor, c, stale) /\ Shaped(c) /\ BackedBy(c, roots)
      /\ Match => FullyBackedBy(c, roots)
      /\ Campaign!Accepts(c) => ~stale
  BY DEF Sends
<1>2. UNCHANGED <<sNow, sGeneration, sProfile, sRelayed>>
  BY <1>1 DEF Campaign!Attempt, Campaign!beliefs
<1>3. Following' <=> Following
  BY <1>2 DEF Following
<1>4. CASE Campaign!Accepts(c)
  <2>1. /\ sKernel' = Campaign!Landed(c) /\ Campaign!SafeStateAfter(c)
        /\ Campaign!Believe(Campaign!OnSuccess(c))
        /\ sAbstract' = Campaign!Recorded(c, roots).state
        /\ sHistory' = Append(sHistory, Campaign!Kept(c, roots, TRUE))
        /\ Campaign!Judge(c.kind, Campaign!AttributedTo(c, roots),
                          Campaign!Recorded(c, roots).violation, stale)
        /\ sRaised' = (sRaised \/ Campaign!Raises(c))
    BY <1>1, <1>4 DEF Campaign!Attempt
  <2>2. Lands(c)
    BY <1>1, <1>2, <1>4, <2>1 DEF Lands
  <2>3. Acceptable /\ sKernel' \in Kernels /\ \A d \in Domains : sKernel'.nonces[d] >= sKernel.nonces[d]
    <3>1. Acceptable
      BY <1>0, <2>2, CallsChecked
    <3> QED
      BY <1>0, <3>1 DEF Acceptable, Grown, Typed, Kernels
  <2>4. sCtx' \in Beliefs /\ (Match => Match')
    BY <1>0, <2>1, <2>2, <2>3, BeliefsKept DEF Following
  <2>5. AllKept'
    <3>1. PICK e : e = Campaign!Kept(c, roots, TRUE)
      OBVIOUS
    <3>2. e.call = c /\ e.roots = roots
      BY <3>1 DEF Campaign!Kept
    <3>3. c.kind \notin Unsigned => c.nonce < sKernel'.nonces[c.domain]
      BY <1>0, <2>2, SignedCallsSpend
    <3>4. Kept(e)'
      BY <1>0, <1>1, <1>3, <3>2, <3>3 DEF Kept
    <3> QED
      BY <1>0, <1>3, <2>1, <2>3, <3>1, <3>4, EntryAdded
  <2>6. PICK violation : violation = Campaign!Recorded(c, roots).violation
    OBVIOUS
  <2>7. PICK charged : charged = Campaign!AttributedTo(c, roots)
    OBVIOUS
  <2>8. ~violation /\ sAbstract' \in Records
    BY <1>0, <1>1, <2>1, <2>2, <2>6, CallsRecorded
  <2>9. PICK kind : kind = c.kind
    OBVIOUS
  <2>10. Campaign!Judge(kind, charged, violation, stale)
    BY <2>1, <2>6, <2>7, <2>9
  <2>11. /\ sAbstract'.live = Campaign!Recorded(c, roots).state.live
         /\ sAbstract'.migrationAuthorizedBy = Campaign!Recorded(c, roots).state.migrationAuthorizedBy
    BY <2>1
  <2>12. PICK held : held = roots
    OBVIOUS
  <2> HIDE DEF roots
  <2> QED
    BY <1>0, <1>1, <1>2, <1>3, <1>4, <2>1, <2>2, <2>4, <2>5, <2>7, <2>8, <2>9, <2>10, <2>11,
       LandingKeeps
<1>5. CASE ~Campaign!Accepts(c)
  <2>1. /\ sHistory' = Append(sHistory, Campaign!Kept(c, roots, FALSE))
        /\ UNCHANGED <<sKernel, sState, sUntil, sPrevious, sEarlier, sCtx, sAbstract, sAlarms,
                       sRaised>>
    BY <1>1, <1>5 DEF Campaign!Attempt, Campaign!containment
  <2>2. AllKept'
    <3>1. PICK e : e = Campaign!Kept(c, roots, FALSE)
      OBVIOUS
    <3>2. e.call = c /\ e.roots = roots /\ ~e.ok
      BY <3>1 DEF Campaign!Kept
    <3>3. Kept(e)'
      BY <1>0, <1>1, <1>3, <3>2 DEF Kept
    <3>4. sKernel' \in Kernels /\ \A d \in Domains : sKernel'.nonces[d] >= sKernel.nonces[d]
      BY <1>0, <2>1 DEF Typed, Kernels
    <3> QED
      BY <1>0, <1>3, <2>1, <3>1, <3>3, <3>4, EntryAdded
  <2>3. Typed' /\ Safe' /\ Episodes'
    BY <1>0, <1>2, <2>1 DEF Typed, Safe, Episodes
  <2>4. Mirror' /\ Bound' /\ Approved'
    BY <1>0, <1>2, <1>3, <2>1 DEF Mirror, Bound, Approved, Campaign!Live
  <2>5. (Following => Match)' /\ Quiet'
    BY <1>0, <1>3, <2>1 DEF Match, Quiet
  <2> QED
    BY <2>2, <2>3, <2>4, <2>5 DEF CampaignInv
<1> QED
  BY <1>4, <1>5

LEMMA NothingForgotten ==
    ASSUME Typed, AllKept, Following' => Following, sKernel' \in Kernels, UNCHANGED sHistory,
           \A d \in Domains : sKernel'.nonces[d] >= sKernel.nonces[d]
    PROVE  AllKept'
<1>1. sHistory \in Seq(Entries(sHistory)) /\ \A i \in DOMAIN sHistory : Kept(sHistory[i])
  BY DEF AllKept
<1>2. ASSUME NEW i \in DOMAIN sHistory
      PROVE  Kept(sHistory[i])'
  <2>1. PICK u : u = sHistory[i]
    OBVIOUS
  <2>2. Kept(u)'
    BY <1>1, <2>1, EntriesKept
  <2>3. u = sHistory'[i]
    BY <2>1
  <2> QED
    BY <2>2, <2>3, Zenon
<1> QED
  BY <1>1, <1>2, Zenon DEF AllKept

\* Any earlier call, from anybody.
LEMMA ReplayKeeps ==
    ASSUME CampaignInv, NEW actor, Campaign!REPLAY_PAST_CALL(actor)
    PROVE  CampaignInv'
<1>0. /\ Typed /\ Safe /\ Episodes /\ Mirror /\ Bound /\ Approved /\ Quiet /\ AllKept
      /\ Following => Match
  BY DEF CampaignInv
<1>1. PICK i \in DOMAIN sHistory :
          /\ Campaign!Accepts(sHistory[i].call)
          /\ sKernel' = Campaign!Landed(sHistory[i].call)
          /\ Campaign!SafeStateAfter(sHistory[i].call)
          /\ Campaign!Believe(Campaign!BelievedAfterReplay(sHistory[i]))
          /\ sAbstract' = Campaign!RecordedByReplay(sHistory[i]).state
          /\ Campaign!Judge("REPLAY_PAST_CALL", Campaign!ReplayAttribution(actor, sHistory[i]),
                            Campaign!RecordedByReplay(sHistory[i]).violation, FALSE)
          /\ sRelayed' = TRUE
          /\ sRaised' = (sRaised \/ Campaign!Raises(sHistory[i].call))
  BY DEF Campaign!REPLAY_PAST_CALL
<1>2. PICK old : old = sHistory[i]
  OBVIOUS
<1>3. /\ Campaign!Accepts(old.call) /\ sKernel' = Campaign!Landed(old.call)
      /\ Campaign!SafeStateAfter(old.call)
      /\ Campaign!Believe(Campaign!BelievedAfterReplay(old))
      /\ sAbstract' = Campaign!RecordedByReplay(old).state
      /\ Campaign!Judge("REPLAY_PAST_CALL", Campaign!ReplayAttribution(actor, old),
                        Campaign!RecordedByReplay(old).violation, FALSE)
      /\ sRelayed' = TRUE
      /\ sRaised' = (sRaised \/ Campaign!Raises(old.call))
  BY <1>1, <1>2, Zenon
<1>4. UNCHANGED <<sNow, sGeneration, sProfile, sHistory>>
  BY DEF Campaign!REPLAY_PAST_CALL, Campaign!beliefs
<1>5. Kept(old)
  BY <1>0, <1>2 DEF AllKept
<1>6. PICK c, roots : c = old.call /\ roots = old.roots
  OBVIOUS
<1>7. Lands(c) /\ BackedBy(c, roots) /\ (Following => FullyBackedBy(c, roots))
  BY <1>3, <1>4, <1>5, <1>6 DEF Lands, Kept
<1>8. (Following' <=> sGeneration = 2) /\ (Following' => Following)
  BY <1>3, <1>4 DEF Following
<1>9. Acceptable /\ sKernel' \in Kernels /\ \A d \in Domains : sKernel'.nonces[d] >= sKernel.nonces[d]
  <2>1. Acceptable
    BY <1>0, <1>7, CallsChecked
  <2> QED
    BY <1>0, <2>1 DEF Acceptable, Grown, Typed, Kernels
<1>10. AllKept'
  BY <1>0, <1>4, <1>8, <1>9, NothingForgotten
<1>11. sCtx' \in Beliefs /\ (sGeneration = 2 => Match')
  BY <1>0, <1>3, <1>6, <1>7, <1>9, BeliefsAfterReplay DEF Following
<1>12. PICK violation : violation = Campaign!RecordedByReplay(old).violation
  OBVIOUS
<1>13. /\ ~violation /\ sAbstract' \in Records
       /\ sAbstract'.live = Campaign!Recorded(c, roots).state.live
       /\ sGeneration = 2 => sAbstract'.migrationAuthorizedBy =
                                 Campaign!Recorded(c, roots).state.migrationAuthorizedBy
  <2>1. /\ ~Campaign!Recorded(c, roots).violation
        /\ Campaign!Recorded(c, roots).state \in Records
        /\ c.kind = "BIND_MIGRATION" => Campaign!Recorded(c, roots).state.live = sAbstract.live
    BY <1>0, <1>7, CallsRecorded DEF RecoveryCalls
  <2>2. CASE c.kind = "BIND_MIGRATION" /\ sGeneration = 1
    <3>1. Campaign!RecordedByReplay(old) = [violation |-> FALSE, state |-> sAbstract]
      BY <1>6, <2>2 DEF Campaign!RecordedByReplay
    <3>2. ~violation /\ sAbstract' = sAbstract
      BY <1>3, <1>12, <3>1
    <3> QED
      BY <1>0, <2>1, <2>2, <3>2 DEF Typed
  <2>3. CASE ~(c.kind = "BIND_MIGRATION" /\ sGeneration = 1)
    <3>1. Campaign!RecordedByReplay(old) = Campaign!Recorded(c, roots)
      BY <1>6, <2>3 DEF Campaign!RecordedByReplay
    <3> QED
      BY <1>3, <1>12, <2>1, <3>1
  <2> QED
    BY <2>2, <2>3
<1>14. PICK charged : charged = Campaign!AttributedTo(c, roots)
  OBVIOUS
<1>15. Campaign!ReplayAttribution(actor, old) = charged
  BY <1>0, <1>5, <1>6, <1>7, <1>14, ReplaysCharged
<1>16. PICK kind, stale : kind = "REPLAY_PAST_CALL" /\ stale = FALSE
  OBVIOUS
<1>17. Campaign!Judge(kind, charged, violation, stale)
  BY <1>3, <1>12, <1>15, <1>16
<1>18. ~stale /\ (kind = "SPEND" => c.kind = "SPEND") /\ sRaised' = (sRaised \/ Campaign!Raises(c))
  BY <1>3, <1>6, <1>16
<1> QED
  BY <1>4, <1>7, <1>8, <1>10, <1>11, <1>13, <1>14, <1>17, <1>18, LandingKeeps

LEMMA FundingKeeps ==
    ASSUME CampaignInv, Campaign!FUND
    PROVE  CampaignInv'
<1>0. /\ Typed /\ Safe /\ Episodes /\ Mirror /\ Bound /\ Approved /\ Quiet /\ AllKept
      /\ Following => Match
  BY DEF CampaignInv
<1>1. /\ sKernel' = [sKernel EXCEPT !.balance = sKernel.balance + 1]
      /\ UNCHANGED <<sNow, sState, sUntil, sPrevious, sEarlier, sGeneration, sProfile, sCtx,
                     sAbstract, sHistory, sAlarms, sRelayed, sRaised>>
  BY DEF Campaign!FUND, Campaign!containment, Campaign!beliefs
<1>2. /\ sKernel' \in Kernels /\ CredentialKept /\ RosterKept
      /\ UNCHANGED <<sKernel.policy, sKernel.nonces, sKernel.recovery, sKernel.boundAt>>
  BY <1>0, <1>1 DEF Typed, Kernels, CredentialKept, RosterKept
<1>3. Following' <=> Following
  BY <1>1 DEF Following
<1>4. AllKept'
  <2>1. \A d \in Domains : sKernel'.nonces[d] >= sKernel.nonces[d]
    BY <1>0, <1>2 DEF Typed, Kernels
  <2> QED
    BY <1>0, <1>1, <1>2, <1>3, <2>1, NothingForgotten
<1>5. Typed' /\ Episodes'
  BY <1>0, <1>1, <1>2 DEF Typed, Episodes
<1>6. Safe' /\ Mirror' /\ Bound' /\ Approved'
  BY <1>0, <1>1, <1>2, <1>3 DEF Safe, Mirror, Bound, Approved, Campaign!Live, CredentialKept,
     RosterKept
<1>7. (Following => Match)' /\ Quiet'
  BY <1>0, <1>1, <1>2, <1>3 DEF Match, Quiet, CredentialKept, RosterKept
<1> QED
  BY <1>4, <1>5, <1>6, <1>7 DEF CampaignInv

\* Time ends what was live and what was contained, and begins nothing.
LEMMA TimeKeeps ==
    ASSUME CampaignInv, Campaign!ADVANCE_TIME
    PROVE  CampaignInv'
<1>0. /\ Typed /\ Safe /\ Episodes /\ Mirror /\ Bound /\ Approved /\ Quiet /\ AllKept
      /\ Following => Match
  BY DEF CampaignInv
<1>1. /\ sNow' = sNow + 1
      /\ UNCHANGED <<sKernel, sState, sUntil, sPrevious, sEarlier, sGeneration, sProfile, sCtx,
                     sAbstract, sHistory, sAlarms, sRelayed, sRaised>>
  BY DEF Campaign!ADVANCE_TIME, Campaign!containment, Campaign!beliefs
<1>2. Following' <=> Following
  BY <1>1 DEF Following
<1>3. AllKept'
  <2>1. sKernel' \in Kernels /\ \A d \in Domains : sKernel'.nonces[d] >= sKernel.nonces[d]
    BY <1>0, <1>1 DEF Typed, Kernels
  <2> QED
    BY <1>0, <1>1, <1>2, <2>1, NothingForgotten
<1>4. Typed' /\ Safe'
  BY <1>0, <1>1 DEF Typed, Safe
<1>5. Episodes'
  BY <1>0, <1>1, Constants DEF Typed, Episodes
<1>6. Campaign!Live' => Campaign!Live
  BY <1>0, <1>1 DEF Campaign!Live, Typed, Kernels, Requests
<1>7. Mirror' /\ Bound' /\ Approved'
  BY <1>0, <1>1, <1>2, <1>6 DEF Mirror, Bound, Approved
<1>8. (Following => Match)' /\ Quiet'
  BY <1>0, <1>1, <1>2 DEF Match, Quiet
<1> QED
  BY <1>3, <1>4, <1>5, <1>7, <1>8 DEF CampaignInv

LEMMA CampaignStarts ==
    ASSUME Campaign!Init
    PROVE  CampaignInv
<1>1. /\ sNow = 1 /\ sState = "NORMAL" /\ sUntil = 0 /\ sPrevious = 0 /\ sEarlier = 0
      /\ sGeneration \in Generations /\ sProfile \in StatefulProfiles
      /\ sKernel = Campaign!deployWorld(sProfile)
      /\ sCtx = Campaign!freshCtx(sProfile, sKernel)
      /\ sAbstract = Campaign!freshAbstractState
      /\ sHistory = <<>> /\ sAlarms = {} /\ ~sRelayed /\ ~sRaised
  BY DEF Campaign!Init, Campaign!ContainmentInit
<1>2. /\ sKernel.signer = Genesis /\ sKernel.verifier = sProfile.verifier
      /\ sKernel.requirePq = ~sProfile.ecdsaOnlyFloor /\ sKernel.policy = "none"
      /\ sKernel.roster = Founders /\ sKernel.boundAt = 0 /\ sKernel.recovery = Campaign!NoRequest
      /\ sKernel.pq = IF sProfile.ecdsaOnlyFloor /\ ~sProfile.commitPqKey THEN NoKey ELSE Genesis
  BY <1>1 DEF Campaign!deployWorld, Genesis, Founders, NoKey
<1>3. /\ sCtx.cred = Genesis /\ sCtx.pq = Genesis /\ sCtx.verifier = sProfile.verifier
      /\ sCtx.requirePq = ~sProfile.ecdsaOnlyFloor /\ sCtx.policy = "none"
      /\ sCtx.roster = sKernel.roster
  BY <1>1 DEF Campaign!freshCtx, Genesis
<1>4. sKernel \in Kernels
  <2>1. /\ Campaign!NoRequest \in Requests /\ sProfile.verifier \in Verifiers
        /\ Genesis \in RealKeys /\ Founders \in Rosters /\ "none" \in Policies
        /\ MaxBalance \in Int /\ sProfile.ecdsaOnlyFloor \in BOOLEAN
    BY <1>1, Constants DEF Requests, Verifiers, RealKeys, Rosters, Policies, Campaign!NoRequest,
       NoKey
  <2>2. PICK pq : pq = IF sProfile.ecdsaOnlyFloor /\ ~sProfile.commitPqKey THEN NoKey ELSE Genesis
    OBVIOUS
  <2>3. PICK nonces : nonces = [spend |-> 0, credential |-> 0, guardian |-> 0, migration |-> 0]
    OBVIOUS
  <2>4. nonces \in [Domains -> Nat]
    BY <2>3 DEF Domains
  <2>5. sKernel =
            [signer |-> Genesis, pq |-> pq, verifier |-> sProfile.verifier,
             requirePq |-> ~sProfile.ecdsaOnlyFloor, credentialGeneration |-> 1,
             policy |-> "none", roster |-> Founders, threshold |-> 2, guardianGeneration |-> 1,
             nonces |-> nonces, recovery |-> Campaign!NoRequest, boundAt |-> 0,
             balance |-> MaxBalance]
    BY <1>1, <2>2, <2>3 DEF Campaign!deployWorld, Genesis, Founders, NoKey
  <2> QED
    BY <2>1, <2>2, <2>4, <2>5 DEF Kernels
<1>5. sCtx \in Beliefs
  <2>1. /\ sCtx = [cred |-> Genesis, pq |-> Genesis, roster |-> Founders,
                   verifier |-> sProfile.verifier, requirePq |-> ~sProfile.ecdsaOnlyFloor,
                   policy |-> "none"]
    BY <1>1, <1>2 DEF Campaign!freshCtx, Genesis
  <2>2. /\ sProfile.verifier \in Verifiers /\ sProfile.ecdsaOnlyFloor \in BOOLEAN
        /\ Genesis \in RealKeys /\ Founders \in Rosters /\ "none" \in Policies
    BY <1>1, Constants DEF Verifiers, RealKeys, Rosters, Policies
  <2> QED
    BY <2>1, <2>2 DEF Beliefs
<1>6. sAbstract \in Records /\ sAbstract.live.state = "NONE"
  BY <1>1 DEF Records, RootCounts, Campaign!freshAbstractState, Campaign!NoEpisode, Campaign!NoRoots
<1>7. Typed
  BY <1>1, <1>4, <1>5, <1>6, Constants DEF Typed
<1>8. ~sKernel.recovery.active /\ sKernel.recovery.challengesUsed = 0 /\ ChallengeLimit \in Nat
  BY <1>2, Constants DEF Campaign!NoRequest
<1>9. Safe /\ Episodes
  BY <1>1, <1>2, <1>8, Constants DEF Safe, Episodes, RealKeys
<1>10. Mirror /\ Bound /\ Approved
  BY <1>2, <1>6, <1>8 DEF Mirror, Bound, Approved, Campaign!Live
<1>11. Match
  BY <1>2, <1>3 DEF Match
<1>12. AllKept /\ Quiet
  BY <1>1 DEF AllKept, Quiet
<1> QED
  BY <1>7, <1>9, <1>10, <1>11, <1>12 DEF CampaignInv

LEMMA CampaignStays ==
    ASSUME CampaignInv, UNCHANGED campaign
    PROVE  CampaignInv'
<1>1. UNCHANGED <<sNow, sState, sUntil, sPrevious, sEarlier, sGeneration, sProfile, sKernel, sCtx,
                  sAbstract, sHistory, sAlarms, sRelayed, sRaised>>
  BY DEF campaign
<1>2. (Typed /\ Safe /\ Episodes /\ Mirror /\ Bound /\ Approved)'
  BY <1>1 DEF CampaignInv, Typed, Safe, Episodes, Mirror, Bound, Approved, Following, Campaign!Live
<1>3. ((Following => Match) /\ Quiet)'
  BY <1>1 DEF CampaignInv, Following, Match, Quiet
<1>4. AllKept'
  BY <1>1 DEF CampaignInv, AllKept, Entries, Kept, Following
<1> QED
  BY <1>2, <1>3, <1>4 DEF CampaignInv

LEMMA CampaignSteps ==
    ASSUME CampaignInv, Campaign!Next
    PROVE  CampaignInv'
<1>1. Typed
  BY DEF CampaignInv
<1>2. ASSUME NEW actor, Direct(actor)
      PROVE  CampaignInv'
  BY <1>1, <1>2, CallsSent, AttemptKeeps
<1>3. \/ \E actor \in sProfile.actors : Direct(actor) \/ Campaign!REPLAY_PAST_CALL(actor)
      \/ Campaign!FUND \/ Campaign!ADVANCE_TIME
  BY DEF Campaign!Next, Direct
<1> QED
  BY <1>2, <1>3, ReplayKeeps, FundingKeeps, TimeKeeps

\* Every step of a campaign, replays of what was kept included, preserves the invariant
\* (stateful/actions.ts:350-1182, stateful/campaign.ts:440-523).
THEOREM CampaignFollowsKernel == Spec => []CampaignInv
<1>1. Init => CampaignInv
  BY CampaignStarts DEF Init
<1>2. CampaignInv /\ [Next]_<<part, campaign, assets>> => CampaignInv'
  BY CampaignSteps, CampaignStays DEF Next
<1> QED
  BY <1>1, <1>2, PTL DEF Spec

\* Whatever is sent, refused and sent again, the campaign records what the vault holds,
\* signs for it, and reports only what the code explains (stateful/campaign.ts:455,
\* stateful/model.ts:367, generation-2/stateful/actions.ts:292-299).
THEOREM CampaignStaysHonest == Spec => []CampaignIsHonest
<1>1. CampaignInv => CampaignIsHonest
  <2> SUFFICES ASSUME CampaignInv
               PROVE  CampaignIsHonest
    OBVIOUS
  <2>0. Typed /\ Mirror /\ Quiet /\ (Following => Match)
    BY DEF CampaignInv
  <2>1. Campaign!AlarmsExplained
    BY <2>0 DEF Campaign!AlarmsExplained, Quiet, Following, Typed
  <2>2. Campaign!EpisodeMirrorsRequest
    BY <2>0 DEF Campaign!EpisodeMirrorsRequest, Campaign!episodeIsLiveAt, Campaign!currentEpisode,
       Campaign!Live, Mirror
  <2>3. Campaign!BeliefsFollowChain
    BY <2>0 DEF Campaign!BeliefsFollowChain, Following, Match, NoKey
  <2> QED
    BY <2>1, <2>2, <2>3 DEF CampaignIsHonest, AlarmsExplained, EpisodeMirrorsRequest,
       BeliefsFollowChain
<1> QED
  BY <1>1, CampaignFollowsKernel, PTL

-----------------------------------------------------------------------------
(* The token world: what holds of a chain in every state                    *)

WorldFields ==
    {"now", "safeState", "containedUntil", "policy", "boundAt", "nonces", "asset", "supply",
     "native", "other", "hostility", "sibling", "mode", "poison", "frozen", "hook",
     "destinationMode", "log"}
Holders == {"vault", "recipient", "destination", "sink"}
Payees == {"vault", "recipient", "destination"}
Authorities == {"spend", "credential", "guardian", "migration"}
LogFields == {"fired", "succeeded", "seen", "transfers", "published"}
Lying == "QUERY_LIES_EXACT_DEBIT"

\* The modes that move what they are asked for, whatever they answer.
Exact == {"VANILLA", "NO_RETURN", "RETURN_FALSE_BUT_MOVES"}

\* v is w but for the fields in F.
Frame(w, v, F) ==
    /\ v = [x \in WorldFields |-> v[x]]
    /\ \A x \in WorldFields \ F : v[x] = w[x]

\* A call that the harness makes: a spend is of some amount to somebody.
Sendable(c) ==
    c.kind = "SPEND" => c.amount \in Nat /\ c.to \in {"recipient", "vault"} /\ c.nonce \in Nat

Balanced(asset, supply) ==
    asset["vault"] + asset["recipient"] + asset["destination"] + asset["sink"] = supply

Logs(log) ==
    log = [x \in LogFields |-> log[x]] /\ log.transfers \in Nat /\ log.published \in Nat

World(w) ==
    /\ w = [x \in WorldFields |-> w[x]]
    /\ w.now \in Nat /\ w.now > 0 /\ w.boundAt \in Nat
    /\ w.boundAt # 0 <=> w.safeState \in {"MIGRATION_ONLY", "RETIRED"}
    /\ w.nonces \in [Authorities -> Nat]
    /\ w.asset \in [Holders -> Nat] /\ Balanced(w.asset, w.supply)
    /\ w.native \in [{"vault", "destination"} -> Nat]
    /\ w.other \in [{"vault", "destination"} -> Nat]
    /\ w.poison.balance \in Nat /\ (w.poison.kind = "lies" => w.mode = Lying)
    /\ w.hook.kind # "none" => Sendable(w.hook.call)
    /\ Logs(w.log)

\* A transfer takes d from the vault, of which c arrive.
Paid(a, b, to, d, c) ==
    /\ b \in [Holders -> Nat] /\ d \in Nat /\ c \in Nat /\ c <= d /\ d <= a["vault"]
    /\ \A h \in Holders :
          b[h] = a[h] - (IF h = "vault" THEN d ELSE 0) + (IF h = to THEN c ELSE 0)
                      + (IF h = "sink" THEN d - c ELSE 0)

LEMMA PaidKeepsTotal ==
    ASSUME NEW a \in [Holders -> Nat], NEW b, NEW to \in Payees, NEW d, NEW c, NEW supply,
           Paid(a, b, to, d, c), Balanced(a, supply)
    PROVE  Balanced(b, supply)
BY DEF Paid, Balanced, Holders, Payees

\* What the modes of the token take and hand on.
FairlyPaid(mode, amount, d, c) ==
    /\ mode \in Exact => d = amount /\ c = amount
    /\ mode # "RECIPIENT_FEE" =>
          c = d \/ (mode = "SENDER_FEE" /\ amount > 0 /\ d = amount + 1 /\ c = amount)

LEMMA Shares ==
    ASSUME NEW mode, NEW amount \in Nat
    PROVE  /\ Assets!Debit(mode, amount) \in Nat /\ Assets!Credit(mode, amount) \in Nat
           /\ Assets!Credit(mode, amount) <= Assets!Debit(mode, amount)
           /\ FairlyPaid(mode, amount, Assets!Debit(mode, amount), Assets!Credit(mode, amount))
<1>1. /\ Assets!Debit(mode, amount) \in Nat
      /\ (amount > 0 /\ mode = "SENDER_FEE" => Assets!Debit(mode, amount) = amount + 1)
      /\ (mode # "SHORT_PAY" /\ mode # "SENDER_FEE" /\ mode # "DUST_SHORT"
            => Assets!Debit(mode, amount) = amount)
      /\ (amount = 0 /\ mode # "SHORT_PAY" => Assets!Debit(mode, amount) = 0)
  BY DEF Assets!Debit
<1> QED
  BY <1>1 DEF Assets!Credit, FairlyPaid, Exact

\* A transfer by the vault: it is refused and leaves the world as it is, or moves
\* what its mode makes of the amount.
Moves(w, r, to, amount) ==
    /\ World(r.w) /\ Frame(w, r.w, {"asset", "poison"})
    /\ r.ok \in BOOLEAN /\ (~r.ok => r.w = w)
    /\ \E d, c \in Nat : Paid(w.asset, r.w.asset, to, d, c)
                         /\ (r.ok => FairlyPaid(w.mode, amount, d, c))
    /\ w.mode \in Exact => r.w.poison = w.poison

LEMMA NothingPaid ==
    ASSUME NEW a \in [Holders -> Nat], NEW to \in Payees, NEW mode, NEW amount, mode \notin Exact
    PROVE  \E d, c \in Nat : Paid(a, a, to, d, c) /\ FairlyPaid(mode, amount, d, c)
<1>1. Paid(a, a, to, 0, 0)
  BY DEF Paid, Holders, Payees
<1>2. FairlyPaid(mode, amount, 0, 0)
  BY DEF FairlyPaid
<1> QED
  BY <1>1, <1>2

LEMMA Outcomes ==
    ASSUME NEW v
    PROVE  /\ Assets!Done(v).w = v /\ Assets!Done(v).ok = TRUE
           /\ Assets!Refused(v).w = v /\ Assets!Refused(v).ok = FALSE
BY DEF Assets!Done, Assets!Refused

LEMMA MovesBy ==
    ASSUME NEW w, World(w), NEW to, NEW amount, NEW v, World(v),
           Frame(w, v, {"asset", "poison"}), w.mode \in Exact => v.poison = w.poison,
           NEW d \in Nat, NEW c \in Nat, Paid(w.asset, v.asset, to, d, c),
           FairlyPaid(w.mode, amount, d, c)
    PROVE  Moves(w, Assets!Done(v), to, amount)
<1> DEFINE r == Assets!Done(v)
<1>1. r.w = v /\ r.ok = TRUE
  BY Outcomes
<1> HIDE DEF r
<1>2. r.ok \in BOOLEAN /\ (~r.ok => r.w = w)
  BY <1>1
<1>3. /\ World(r.w) /\ Frame(w, r.w, {"asset", "poison"})
      /\ (w.mode \in Exact => r.w.poison = w.poison)
  BY <1>1
<1>4. Paid(w.asset, r.w.asset, to, d, c) /\ (r.ok => FairlyPaid(w.mode, amount, d, c))
  BY <1>1
<1>5. Moves(w, r, to, amount)
  BY <1>2, <1>3, <1>4 DEF Moves
<1> QED
  BY <1>5 DEF r

LEMMA RefusedMoves ==
    ASSUME NEW w, World(w), NEW to \in Payees, NEW amount
    PROVE  Moves(w, Assets!Refused(w), to, amount)
<1> DEFINE r == Assets!Refused(w)
<1>1. r.w = w /\ r.ok = FALSE
  BY Outcomes
<1>2. Paid(w.asset, w.asset, to, 0, 0) /\ 0 \in Nat
  BY DEF World, Paid, Holders, Payees
<1>3. Frame(w, w, {"asset", "poison"})
  BY DEF World, Frame
<1> HIDE DEF r
<1>4. r.ok \in BOOLEAN /\ ~r.ok
  BY <1>1
<1>5. /\ World(r.w) /\ Frame(w, r.w, {"asset", "poison"}) /\ r.w = w
      /\ (w.mode \in Exact => r.w.poison = w.poison)
  BY <1>1, <1>3
<1>6. Paid(w.asset, r.w.asset, to, 0, 0)
  BY <1>1, <1>2
<1>7. Moves(w, r, to, amount)
  BY <1>2, <1>4, <1>5, <1>6 DEF Moves
<1> QED
  BY <1>7 DEF r

LEMMA SettledPays ==
    ASSUME NEW a \in [Holders -> Nat], NEW to \in Payees, NEW d \in Nat, NEW c \in Nat,
           c <= d, d <= a["vault"]
    PROVE  Paid(a, Assets!Settled(a, to, d, c), to, d, c)
BY DEF Paid, Assets!Settled, Holders, Payees

LEMMA TransferMoves ==
    ASSUME NEW w, World(w), NEW to \in Payees, NEW amount \in Nat
    PROVE  Moves(w, Assets!Moved(w, to, amount), to, amount)
<1> DEFINE r == Assets!Moved(w, to, amount)
           d == Assets!Debit(w.mode, amount)
           c == Assets!Credit(w.mode, amount)
<1>1. /\ d \in Nat /\ c \in Nat /\ c <= d /\ FairlyPaid(w.mode, amount, d, c)
  BY Shares
<1>2. /\ w = [x \in WorldFields |-> w[x]] /\ w.asset \in [Holders -> Nat]
      /\ w.asset["vault"] \in Nat
  BY DEF World, Holders
<1>0. ASSUME w.mode \notin Exact, NEW v, World(v), Frame(w, v, {"asset", "poison"}),
             v.asset = w.asset
      PROVE  Moves(w, Assets!Done(v), to, amount)
  <2>1. PICK e \in Nat, f \in Nat :
            Paid(w.asset, w.asset, to, e, f) /\ FairlyPaid(w.mode, amount, e, f)
    BY <1>0, <1>2, NothingPaid
  <2> QED
    BY <1>0, <2>1, MovesBy
<1>3. CASE w.mode \in Assets!NoMove
  <2>1. r = Assets!Done(w)
    BY <1>3 DEF Assets!Moved, Assets!NoMove, Assets!QueryFails
  <2>2. w.mode \notin Exact /\ Frame(w, w, {"asset", "poison"})
    BY <1>2, <1>3 DEF Assets!NoMove, Frame, Exact
  <2> QED
    BY <1>0, <2>1, <2>2
<1>4. CASE w.mode \in Assets!QueryFails
  <2> DEFINE v == [w EXCEPT !.poison = [kind |-> "fails", balance |-> 0]]
  <2>1. r = Assets!Done(v)
    BY <1>4 DEF Assets!Moved, Assets!NoMove, Assets!QueryFails
  <2>2. w.mode \notin Exact
    BY <1>4 DEF Assets!QueryFails, Exact
  <2>3. /\ Frame(w, v, {"asset", "poison"}) /\ v.asset = w.asset
        /\ v.poison = [kind |-> "fails", balance |-> 0]
    BY <1>2 DEF Frame, WorldFields
  <2> HIDE DEF v
  <2>4. World(v)
    BY <2>3 DEF World, Frame, WorldFields
  <2> QED
    BY <1>0, <2>1, <2>2, <2>3, <2>4
<1>5. CASE w.mode = Lying
  <2>0. w.mode \notin Exact
    BY <1>5 DEF Lying, Exact
  <2>1. CASE w.asset.vault < amount
    <3>1. r = Assets!Refused(w)
      BY <1>5, <2>1 DEF Assets!Moved, Assets!NoMove, Assets!QueryFails, Lying
    <3> QED
      BY <3>1, RefusedMoves
  <2>2. CASE ~(w.asset.vault < amount)
    <3> DEFINE v == [w EXCEPT !.poison = [kind |-> "lies", balance |-> w.asset.vault - amount]]
    <3>1. r = Assets!Done(v)
      BY <1>5, <2>2 DEF Assets!Moved, Assets!NoMove, Assets!QueryFails, Lying
    <3>2. w.asset.vault - amount \in Nat
      BY <1>2, <2>2
    <3>3. /\ Frame(w, v, {"asset", "poison"}) /\ v.asset = w.asset
          /\ v.poison = [kind |-> "lies", balance |-> w.asset.vault - amount]
      BY <1>2 DEF Frame, WorldFields
    <3> HIDE DEF v
    <3>4. World(v)
      BY <1>5, <3>2, <3>3 DEF World, Frame, WorldFields
    <3> QED
      BY <1>0, <2>0, <3>1, <3>3, <3>4
  <2> QED
    BY <2>1, <2>2
<1>6. CASE w.mode \notin Assets!NoMove \cup Assets!QueryFails \cup {Lying}
  <2>1. CASE w.asset.vault < d
    <3>1. r = Assets!Refused(w)
      BY <1>6, <2>1 DEF Assets!Moved, Lying
    <3> QED
      BY <3>1, RefusedMoves
  <2>2. CASE ~(w.asset.vault < d)
    <3> DEFINE kept == Assets!Settled(w.asset, to, d, c)
               v == [w EXCEPT !.asset = kept]
    <3>1. r = Assets!Done(v)
      BY <1>6, <2>2 DEF Assets!Moved, Lying
    <3>2. Paid(w.asset, kept, to, d, c)
      BY <1>1, <1>2, <2>2, SettledPays
    <3> HIDE DEF kept
    <3>3. Frame(w, v, {"asset", "poison"}) /\ v.asset = kept /\ v.poison = w.poison
      BY <1>2 DEF Frame, WorldFields
    <3>4. kept \in [Holders -> Nat] /\ Balanced(kept, w.supply)
      <4>1. kept \in [Holders -> Nat]
        BY <3>2 DEF Paid
      <4>2. Balanced(w.asset, w.supply)
        BY DEF World
      <4> QED
        BY <1>2, <3>2, <4>1, <4>2, PaidKeepsTotal
    <3> HIDE DEF kept, v
    <3>5. World(v)
      BY <3>3, <3>4 DEF World, Frame, WorldFields
    <3> QED
      BY <1>1, <3>1, <3>2, <3>3, <3>5, MovesBy
  <2> QED
    BY <2>1, <2>2
<1> QED
  BY <1>3, <1>4, <1>5, <1>6

-----------------------------------------------------------------------------
(* Frames, nonces and logs: what the steps of a call change                 *)

LEMMA FrameGrows ==
    ASSUME NEW w, NEW v, NEW F, NEW G, Frame(w, v, F), F \subseteq G
    PROVE  Frame(w, v, G)
BY DEF Frame

LEMMA FramesJoin ==
    ASSUME NEW w, NEW u, NEW v, NEW F, NEW G, Frame(w, u, F), Frame(u, v, G)
    PROVE  Frame(w, v, F \cup G)
BY DEF Frame

\* The world with other nonces, another log, or no hook.
LEMMA OtherNonces ==
    ASSUME NEW w, World(w), NEW nonce \in Nat
    PROVE  /\ World(Assets!SpendNonce(w, nonce))
           /\ Frame(w, Assets!SpendNonce(w, nonce), {"nonces"})
<1> DEFINE v == Assets!SpendNonce(w, nonce)
           n == [w.nonces EXCEPT !["spend"] = nonce + 1]
<1>1. n \in [Authorities -> Nat]
  BY DEF World, Authorities
<1>2. Frame(w, v, {"nonces"}) /\ v.nonces = n
  BY DEF World, Frame, WorldFields, Assets!SpendNonce
<1> HIDE DEF v, n
<1>3. World(v)
  BY <1>1, <1>2 DEF World, Frame, WorldFields
<1> QED
  BY <1>2, <1>3 DEF v

\* The log but for the fields in F.
SameLog(w, v, F) == \A x \in LogFields \ F : v.log[x] = w.log[x]

LEMMA LogChanges ==
    ASSUME NEW log, Logs(log), NEW amount \in Nat, NEW key \in {"transfers", "published"}
    PROVE  LET n == [log EXCEPT ![key] = log[key] + amount] IN
           /\ Logs(n) /\ n[key] = log[key] + amount
           /\ \A x \in LogFields \ {key} : n[x] = log[x]
<1>1. log.transfers \in Nat /\ log.published \in Nat
  BY DEF Logs
<1> DEFINE n == [log EXCEPT ![key] = log[key] + amount]
<1>2. n = [x \in LogFields |-> n[x]] /\ n[key] = log[key] + amount
  BY DEF Logs, LogFields
<1>3. \A x \in LogFields \ {key} : n[x] = log[x]
  BY DEF Logs, LogFields
<1> HIDE DEF n
<1>4. n.transfers \in Nat /\ n.published \in Nat
  BY <1>1, <1>2, <1>3 DEF LogFields
<1>5. Logs(n)
  BY <1>2, <1>4 DEF Logs
<1> QED
  BY <1>2, <1>3, <1>5 DEF n

LEMMA OneMoreTransfer ==
    ASSUME NEW w, World(w)
    PROVE  LET v == [w EXCEPT !.log.transfers = w.log.transfers + 1] IN
           /\ World(v) /\ Frame(w, v, {"log"})
           /\ v.log.transfers = w.log.transfers + 1 /\ SameLog(w, v, {"transfers"})
<1> DEFINE n == [w.log EXCEPT !["transfers"] = w.log["transfers"] + 1]
           v == [w EXCEPT !.log = n]
<1>1. /\ Logs(n) /\ n["transfers"] = w.log["transfers"] + 1
      /\ \A x \in LogFields \ {"transfers"} : n[x] = w.log[x]
  <2>1. Logs(w.log) /\ 1 \in Nat
    BY DEF World
  <2> HIDE DEF v
  <2> QED
    BY <2>1, LogChanges
<1>2. Frame(w, v, {"log"}) /\ v.log = n
  BY DEF World, Frame, WorldFields
<1> HIDE DEF n
<1>3. World(v)
  <2> HIDE DEF v
  <2> QED
    BY <1>1, <1>2 DEF World, Frame, WorldFields
<1>4. v.log.transfers = w.log.transfers + 1 /\ SameLog(w, v, {"transfers"})
  BY <1>1, <1>2 DEF SameLog
<1> QED
  BY <1>2, <1>3, <1>4 DEF n

LEMMA Publishes ==
    ASSUME NEW w, World(w), NEW amount \in Nat
    PROVE  LET r == Assets!Published(w, amount) IN
           /\ World(r.w) /\ r.ok = TRUE /\ Frame(w, r.w, {"log"})
           /\ r.w.log.published = w.log.published + amount /\ SameLog(w, r.w, {"published"})
<1> DEFINE n == [w.log EXCEPT !["published"] = w.log["published"] + amount]
           v == [w EXCEPT !.log = n]
           r == Assets!Published(w, amount)
<1>1. /\ Logs(n) /\ n["published"] = w.log["published"] + amount
      /\ \A x \in LogFields \ {"published"} : n[x] = w.log[x]
  <2>1. Logs(w.log)
    BY DEF World
  <2> HIDE DEF v, r
  <2> QED
    BY <2>1, LogChanges
<1>2. Frame(w, v, {"log"}) /\ v.log = n
  BY DEF World, Frame, WorldFields
<1>3. r = Assets!Done(v)
  BY DEF Assets!Published
<1> HIDE DEF n, v, r
<1>4. World(v)
  BY <1>1, <1>2 DEF World, Frame, WorldFields
<1>5. v.log.published = w.log.published + amount /\ SameLog(w, v, {"published"})
  BY <1>1, <1>2 DEF SameLog
<1>6. r.w = v /\ r.ok = TRUE
  BY <1>3, Outcomes
<1>7. /\ World(r.w) /\ r.ok = TRUE /\ Frame(w, r.w, {"log"})
      /\ r.w.log.published = w.log.published + amount /\ SameLog(w, r.w, {"published"})
  BY <1>2, <1>4, <1>5, <1>6
<1> QED
  BY <1>7 DEF r

LEMMA PlainMoves ==
    ASSUME NEW w, World(w), NEW to \in Payees, NEW amount \in Nat
    PROVE  World(Assets!PlainTransfer(w, to, amount).w)
<1> DEFINE v == [w EXCEPT !.log.transfers = w.log.transfers + 1]
<1>1. World(v)
  BY OneMoreTransfer
<1>2. \/ Assets!PlainTransfer(w, to, amount) = Assets!Refused(w)
      \/ Assets!PlainTransfer(w, to, amount) = Assets!Moved(v, to, amount)
  BY DEF Assets!PlainTransfer
<1> HIDE DEF v
<1>3. World(Assets!Moved(v, to, amount).w)
  BY <1>1, TransferMoves DEF Moves
<1>4. Assets!PlainTransfer(w, to, amount).w \in {w, Assets!Moved(v, to, amount).w}
  BY <1>2, Outcomes
<1> QED
  BY <1>3, <1>4

LEMMA Balances ==
    ASSUME NEW w, World(w)
    PROVE  Assets!balanceOf(w) \in Nat
BY DEF World, Assets!balanceOf, Holders

LEMMA SpendsWell ==
    ASSUME NEW w, World(w), NEW c, NEW paid, World(paid.w)
    PROVE  World(Assets!Spend(w, c, paid).w)
<1>1. \/ Assets!Spend(w, c, paid) = Assets!Refused(w)
      \/ Assets!Spend(w, c, paid) = Assets!Done(paid.w)
  BY DEF Assets!Spend, Assets!Exactly
<1>2. Assets!Spend(w, c, paid).w \in {w, paid.w}
  BY <1>1, Outcomes
<1> QED
  BY <1>2

LEMMA EgressesNative ==
    ASSUME NEW w, World(w)
    PROVE  /\ World(Assets!EgressNative(w).w)
           /\ Frame(w, Assets!EgressNative(w).w, {"native", "log"})
<1> DEFINE kept == Assets!Kept(w)
           n == [w.native EXCEPT !["vault"] = w.native.vault - kept,
                                 !["destination"] = w.native.destination + kept]
           v == [w EXCEPT !.native = [vault |-> w.native.vault - kept,
                                      destination |-> w.native.destination + kept]]
<1>1. w.native.vault \in Nat /\ w.native.destination \in Nat
  BY DEF World
<1>2. kept \in Nat /\ kept <= w.native.vault
  BY <1>1 DEF Assets!Kept
<1> HIDE DEF kept
<1>3. /\ Frame(w, v, {"native"})
      /\ v.native = [vault |-> w.native.vault - kept, destination |-> w.native.destination + kept]
  BY DEF World, Frame, WorldFields
<1>4. v.native \in [{"vault", "destination"} -> Nat]
  <2> DEFINE a == w.native.vault - kept
             b == w.native.destination + kept
  <2>1. a \in Nat /\ b \in Nat
    BY <1>1, <1>2
  <2> HIDE DEF a, b
  <2>2. [vault |-> a, destination |-> b] \in [{"vault", "destination"} -> Nat]
    BY <2>1
  <2> QED
    BY <1>3, <2>2 DEF a, b
<1>5. \/ Assets!EgressNative(w) = Assets!Published(w, 0)
      \/ Assets!EgressNative(w) = Assets!Refused(w)
      \/ Assets!EgressNative(w) = Assets!Published(v, kept)
  BY DEF Assets!EgressNative, kept
<1> HIDE DEF v
<1>6. World(v)
  BY <1>3, <1>4 DEF World, Frame, WorldFields
<1>7. Frame(w, w, {"native", "log"})
  BY DEF World, Frame
<1>8. World(Assets!Published(v, kept).w) /\ Frame(v, Assets!Published(v, kept).w, {"log"})
  BY <1>2, <1>6, Publishes
<1>9. Frame(w, Assets!Published(v, kept).w, {"native", "log"})
  BY <1>3, <1>8 DEF Frame, WorldFields
<1>10. /\ World(Assets!Published(w, 0).w)
       /\ Frame(w, Assets!Published(w, 0).w, {"native", "log"})
  BY Publishes, FrameGrows
<1> QED
  BY <1>5, <1>7, <1>8, <1>9, <1>10, Outcomes

LEMMA EgressesOther ==
    ASSUME NEW w, World(w)
    PROVE  /\ World(Assets!EgressOther(w).w)
           /\ Frame(w, Assets!EgressOther(w).w, {"other", "log"})
<1> DEFINE lost == w.other.vault
           v == [w EXCEPT !.other = [vault |-> 0, destination |-> w.other.destination + lost]]
<1>1. lost \in Nat /\ w.other.destination \in Nat
  BY DEF World
<1>3. /\ Frame(w, v, {"other"})
      /\ v.other = [vault |-> 0, destination |-> w.other.destination + lost]
  BY DEF World, Frame, WorldFields
<1>4. v.other \in [{"vault", "destination"} -> Nat]
  <2> DEFINE b == w.other.destination + lost
  <2>1. b \in Nat
    BY <1>1
  <2> HIDE DEF b
  <2>2. [vault |-> 0, destination |-> b] \in [{"vault", "destination"} -> Nat]
    BY <2>1
  <2> QED
    BY <1>3, <2>2 DEF b
<1>5. \/ Assets!EgressOther(w) = Assets!Published(w, 0)
      \/ Assets!EgressOther(w) = Assets!Refused(w)
      \/ Assets!EgressOther(w) = Assets!Published(v, lost)
  BY DEF Assets!EgressOther
<1> HIDE DEF v, lost
<1>6. World(v)
  BY <1>3, <1>4 DEF World, Frame, WorldFields
<1>7. Frame(w, w, {"other", "log"})
  BY DEF World, Frame
<1>8. World(Assets!Published(v, lost).w) /\ Frame(v, Assets!Published(v, lost).w, {"log"})
  BY <1>1, <1>6, Publishes
<1>9. Frame(w, Assets!Published(v, lost).w, {"other", "log"})
  BY <1>3, <1>8 DEF Frame, WorldFields
<1>10. /\ World(Assets!Published(w, 0).w)
       /\ Frame(w, Assets!Published(w, 0).w, {"other", "log"})
  BY Publishes, FrameGrows
<1> QED
  BY <1>5, <1>7, <1>8, <1>9, <1>10, Outcomes

LEMMA EgressesWell ==
    ASSUME NEW w, World(w), NEW kind, NEW emptied, World(emptied.w)
    PROVE  World(Assets!Egress(w, kind, emptied).w)
<1> DEFINE r == Assets!Egress(w, kind, emptied)
           left == Assets!balanceOf(w) - Assets!balanceOf(emptied.w)
<1>1. \/ r = Assets!Refused(w) \/ r = Assets!EgressNative(w) \/ r = Assets!EgressOther(w)
      \/ r = Assets!Published(w, 0)
      \/ r = Assets!Published(emptied.w, left)
         /\ Assets!balanceOf(emptied.w) < Assets!balanceOf(w)
  BY DEF Assets!Egress, Assets!EgressToken, Assets!Emptied
<1>2. Assets!balanceOf(w) \in Nat /\ Assets!balanceOf(emptied.w) \in Nat
  BY Balances
<1>3. Assets!balanceOf(emptied.w) < Assets!balanceOf(w) => left \in Nat
  BY <1>2
<1> HIDE DEF r, left
<1>4. World(Assets!Published(w, 0).w) /\ World(Assets!Refused(w).w)
  BY Publishes, Outcomes
<1>5. World(Assets!EgressNative(w).w) /\ World(Assets!EgressOther(w).w)
  BY EgressesNative, EgressesOther
<1>6. left \in Nat => World(Assets!Published(emptied.w, left).w)
  BY Publishes
<1>7. World(r.w)
  BY <1>1, <1>3, <1>4, <1>5, <1>6
<1> QED
  BY <1>7 DEF r

\* A refusal leaves everything as it is.
Refusable(w, r) == r.ok \in BOOLEAN /\ (~r.ok => r.w = w)

\* No nonce comes back, and the one that a call is signed for is spent.
Rising(w, v) == \A key \in Authorities : v.nonces[key] >= w.nonces[key]
UsesNonce(w, r, key, nonce) == r.ok => nonce = w.nonces[key] /\ r.w.nonces[key] >= nonce + 1

LEMMA ContainsWell ==
    ASSUME NEW w, World(w), NEW c
    PROVE  LET r == Assets!EnterContainment(w, c) IN
           /\ World(r.w) /\ Frame(w, r.w, {"nonces", "safeState", "containedUntil"})
           /\ Refusable(w, r) /\ Rising(w, r.w) /\ UsesNonce(w, r, "guardian", c.nonce)
           /\ (r.ok => c.quorum)
<1> DEFINE n == [w.nonces EXCEPT !["guardian"] = w.nonces["guardian"] + 1]
           v == [w EXCEPT !.nonces = n, !.safeState = "CONTAINED",
                          !.containedUntil = w.now + AssetContainment]
           r == Assets!EnterContainment(w, c)
<1>1. \/ r = Assets!Refused(w)
      \/ Assets!IsNormal(w) /\ c.quorum /\ c.nonce = w.nonces["guardian"] /\ r = Assets!Done(v)
  BY DEF Assets!EnterContainment
<1>2. /\ n \in [Authorities -> Nat] /\ n["guardian"] = w.nonces["guardian"] + 1
      /\ w.nonces["guardian"] \in Nat /\ \A k \in Authorities : n[k] >= w.nonces[k]
  BY DEF World, Authorities
<1> HIDE DEF n
<1>3. /\ Frame(w, v, {"nonces", "safeState", "containedUntil"})
      /\ v.nonces = n /\ v.safeState = "CONTAINED"
  BY DEF World, Frame, WorldFields
<1> HIDE DEF v, r
<1>4. Assets!IsNormal(w) => World(v)
  <2>1. Assets!IsNormal(w) => w.boundAt = 0
    BY DEF Assets!IsNormal, Assets!EffectiveState, World
  <2>2. v.nonces \in [Authorities -> Nat]
    BY <1>2, <1>3
  <2> QED
    BY <1>3, <2>1, <2>2 DEF World, Frame, WorldFields
<1>5. Frame(w, w, {"nonces", "safeState", "containedUntil"}) /\ Rising(w, w)
  BY DEF World, Frame, Rising
<1>6. Rising(w, v)
  BY <1>2, <1>3 DEF Rising
<1>7. CASE r = Assets!Refused(w)
  <2>1. r.w = w /\ r.ok = FALSE
    BY <1>7, Outcomes
  <2>2. r.ok \in BOOLEAN /\ ~r.ok
    BY <2>1
  <2>3. /\ World(r.w) /\ Frame(w, r.w, {"nonces", "safeState", "containedUntil"})
        /\ Refusable(w, r) /\ Rising(w, r.w) /\ UsesNonce(w, r, "guardian", c.nonce)
    BY <1>5, <2>1, <2>2 DEF Refusable, UsesNonce
  <2> QED
    BY <2>2, <2>3 DEF r
<1>8. CASE Assets!IsNormal(w) /\ c.quorum /\ c.nonce = w.nonces["guardian"] /\ r = Assets!Done(v)
  <2>1. r.w = v /\ r.ok = TRUE
    BY <1>8, Outcomes
  <2>2. r.ok \in BOOLEAN /\ r.ok
    BY <2>1
  <2>3. UsesNonce(w, r, "guardian", c.nonce)
    <3>1. r.w.nonces["guardian"] = c.nonce + 1 /\ c.nonce \in Nat
      BY <1>2, <1>3, <1>8, <2>1
    <3>2. r.w.nonces["guardian"] >= c.nonce + 1
      BY <3>1
    <3> QED
      BY <1>8, <3>2 DEF UsesNonce
  <2>4. /\ World(r.w) /\ Frame(w, r.w, {"nonces", "safeState", "containedUntil"})
        /\ Refusable(w, r) /\ Rising(w, r.w)
    BY <1>3, <1>4, <1>6, <1>8, <2>1, <2>2 DEF Refusable
  <2>5. c.quorum
    BY <1>8
  <2> QED
    BY <2>3, <2>4, <2>5 DEF r
<1> QED
  BY <1>1, <1>7, <1>8

LEMMA BindsWell ==
    ASSUME NEW w, World(w), NEW c
    PROVE  LET r == Assets!BindMigration(w, c) IN
           /\ World(r.w) /\ Frame(w, r.w, {"nonces", "boundAt", "safeState"})
           /\ Refusable(w, r) /\ Rising(w, r.w) /\ UsesNonce(w, r, "migration", c.nonce)
           /\ (r.ok => w.boundAt = 0 /\ c.quorum /\ c.signed /\ r.w.boundAt = w.now
                        /\ r.w.safeState = "MIGRATION_ONLY")
<1> DEFINE n == [w.nonces EXCEPT !["migration"] = w.nonces["migration"] + 1]
           v == [w EXCEPT !.nonces = n, !.boundAt = w.now, !.safeState = "MIGRATION_ONLY"]
           r == Assets!BindMigration(w, c)
<1>1. \/ r = Assets!Refused(w)
      \/ w.boundAt = 0 /\ c.quorum /\ c.signed /\ c.nonce = w.nonces["migration"]
         /\ r = Assets!Done(v)
  BY DEF Assets!BindMigration
<1>2. /\ n \in [Authorities -> Nat] /\ n["migration"] = w.nonces["migration"] + 1
      /\ w.nonces["migration"] \in Nat /\ \A k \in Authorities : n[k] >= w.nonces[k]
  BY DEF World, Authorities
<1> HIDE DEF n
<1>3. Frame(w, v, {"nonces", "boundAt", "safeState"}) /\ v.nonces = n
      /\ v.safeState = "MIGRATION_ONLY" /\ v.boundAt = w.now
  BY DEF World, Frame, WorldFields
<1> HIDE DEF v, r
<1>4. World(v)
  <2>1. v.nonces \in [Authorities -> Nat]
    BY <1>2, <1>3
  <2> QED
    BY <1>3, <2>1 DEF World, Frame, WorldFields
<1>5. Frame(w, w, {"nonces", "boundAt", "safeState"}) /\ Rising(w, w)
  BY DEF World, Frame, Rising
<1>6. Rising(w, v)
  BY <1>2, <1>3 DEF Rising
<1>7. CASE r = Assets!Refused(w)
  <2>1. r.w = w /\ r.ok = FALSE
    BY <1>7, Outcomes
  <2>2. r.ok \in BOOLEAN /\ ~r.ok
    BY <2>1
  <2>3. /\ World(r.w) /\ Frame(w, r.w, {"nonces", "boundAt", "safeState"})
        /\ Refusable(w, r) /\ Rising(w, r.w) /\ UsesNonce(w, r, "migration", c.nonce)
    BY <1>5, <2>1, <2>2 DEF Refusable, UsesNonce
  <2> QED
    BY <2>2, <2>3 DEF r
<1>8. CASE /\ w.boundAt = 0 /\ c.quorum /\ c.signed /\ c.nonce = w.nonces["migration"]
           /\ r = Assets!Done(v)
  <2>1. r.w = v /\ r.ok = TRUE
    BY <1>8, Outcomes
  <2>2. r.ok \in BOOLEAN /\ r.ok
    BY <2>1
  <2>3. UsesNonce(w, r, "migration", c.nonce)
    <3>1. r.w.nonces["migration"] = c.nonce + 1 /\ c.nonce \in Nat
      BY <1>2, <1>3, <1>8, <2>1
    <3>2. r.w.nonces["migration"] >= c.nonce + 1
      BY <3>1
    <3> QED
      BY <1>8, <3>2 DEF UsesNonce
  <2>4. /\ World(r.w) /\ Frame(w, r.w, {"nonces", "boundAt", "safeState"})
        /\ Refusable(w, r) /\ Rising(w, r.w)
    BY <1>3, <1>4, <1>6, <1>8, <2>1, <2>2 DEF Refusable
  <2>5. /\ w.boundAt = 0 /\ c.quorum /\ c.signed
        /\ r.w.boundAt = w.now /\ r.w.safeState = "MIGRATION_ONLY"
    <3>1. w.boundAt = 0 /\ c.quorum /\ c.signed
      BY <1>8
    <3>2. r.w.boundAt = w.now /\ r.w.safeState = "MIGRATION_ONLY"
      BY <1>3, <2>1
    <3> QED
      BY <3>1, <3>2
  <2> QED
    BY <2>3, <2>4, <2>5 DEF r
<1> QED
  BY <1>1, <1>7, <1>8

LEMMA SetsWell ==
    ASSUME NEW w, World(w), NEW c
    PROVE  LET r == Assets!SetPolicy(w, c) IN
           /\ World(r.w) /\ Frame(w, r.w, {"nonces", "policy"})
           /\ Refusable(w, r) /\ Rising(w, r.w) /\ UsesNonce(w, r, "credential", c.nonce)
           /\ (r.ok => c.signed)
<1> DEFINE n == [w.nonces EXCEPT !["credential"] = w.nonces["credential"] + 1]
           v == [w EXCEPT !.nonces = n, !.policy = c.policy]
           r == Assets!SetPolicy(w, c)
<1>1. \/ r = Assets!Refused(w)
      \/ c.signed /\ c.nonce = w.nonces["credential"] /\ r = Assets!Done(v)
  BY DEF Assets!SetPolicy
<1>2. /\ n \in [Authorities -> Nat] /\ n["credential"] = w.nonces["credential"] + 1
      /\ w.nonces["credential"] \in Nat /\ \A k \in Authorities : n[k] >= w.nonces[k]
  BY DEF World, Authorities
<1> HIDE DEF n
<1>3. Frame(w, v, {"nonces", "policy"}) /\ v.nonces = n
  BY DEF World, Frame, WorldFields
<1> HIDE DEF v, r
<1>4. World(v)
  <2>1. v.nonces \in [Authorities -> Nat]
    BY <1>2, <1>3
  <2> QED
    BY <1>3, <2>1 DEF World, Frame, WorldFields
<1>5. Frame(w, w, {"nonces", "policy"}) /\ Rising(w, w)
  BY DEF World, Frame, Rising
<1>6. Rising(w, v)
  BY <1>2, <1>3 DEF Rising
<1>7. CASE r = Assets!Refused(w)
  <2>1. r.w = w /\ r.ok = FALSE
    BY <1>7, Outcomes
  <2>2. r.ok \in BOOLEAN /\ ~r.ok
    BY <2>1
  <2>3. /\ World(r.w) /\ Frame(w, r.w, {"nonces", "policy"})
        /\ Refusable(w, r) /\ Rising(w, r.w) /\ UsesNonce(w, r, "credential", c.nonce)
    BY <1>5, <2>1, <2>2 DEF Refusable, UsesNonce
  <2> QED
    BY <2>2, <2>3 DEF r
<1>8. CASE c.signed /\ c.nonce = w.nonces["credential"] /\ r = Assets!Done(v)
  <2>1. r.w = v /\ r.ok = TRUE
    BY <1>8, Outcomes
  <2>2. r.ok \in BOOLEAN /\ r.ok
    BY <2>1
  <2>3. UsesNonce(w, r, "credential", c.nonce)
    <3>1. r.w.nonces["credential"] = c.nonce + 1 /\ c.nonce \in Nat
      BY <1>2, <1>3, <1>8, <2>1
    <3>2. r.w.nonces["credential"] >= c.nonce + 1
      BY <3>1
    <3> QED
      BY <1>8, <3>2 DEF UsesNonce
  <2>4. /\ World(r.w) /\ Frame(w, r.w, {"nonces", "policy"})
        /\ Refusable(w, r) /\ Rising(w, r.w)
    BY <1>3, <1>4, <1>6, <1>8, <2>1, <2>2 DEF Refusable
  <2>5. c.signed
    BY <1>8
  <2> QED
    BY <2>3, <2>4, <2>5 DEF r
<1> QED
  BY <1>1, <1>7, <1>8

LEMMA RetiresWell ==
    ASSUME NEW w, World(w), Assets!Matured(w)
    PROVE  /\ World([w EXCEPT !.safeState = "RETIRED"])
           /\ Frame(w, [w EXCEPT !.safeState = "RETIRED"], {"safeState"})
<1> DEFINE v == [w EXCEPT !.safeState = "RETIRED"]
<1>1. Frame(w, v, {"safeState"}) /\ v.safeState = "RETIRED"
  BY DEF World, Frame, WorldFields
<1>2. w.boundAt # 0
  BY DEF Assets!Matured
<1> HIDE DEF v
<1>3. World(v)
  BY <1>1, <1>2 DEF World, Frame, WorldFields
<1> QED
  BY <1>1, <1>3 DEF v

Others == {"SPEND", "ENTER_CONTAINMENT", "BIND_MIGRATION", "SET_POLICY", "RETIRE"}

LEMMA CallsWell ==
    ASSUME NEW w, World(w), NEW c, NEW paid, c.kind = "SPEND" => World(paid.w),
           NEW emptied, World(emptied.w)
    PROVE  World(Assets!Call(w, c, paid, emptied).w)
<1> DEFINE r == Assets!Call(w, c, paid, emptied)
<1>1. CASE c.kind = "SPEND"
  <2>1. r = Assets!Spend(w, c, paid)
    BY <1>1 DEF Assets!Call, Assets!Egresses
  <2> QED
    BY <1>1, <2>1, SpendsWell
<1>2. CASE c.kind \in Assets!Egresses
  <2>1. r = Assets!Egress(w, c.kind, emptied)
    BY <1>2 DEF Assets!Call, Assets!Egresses
  <2> QED
    BY <2>1, EgressesWell
<1>3. CASE c.kind = "ENTER_CONTAINMENT"
  <2>1. r = Assets!EnterContainment(w, c)
    BY <1>3 DEF Assets!Call, Assets!Egresses
  <2> QED
    BY <2>1, ContainsWell
<1>4. CASE c.kind = "BIND_MIGRATION"
  <2>1. r = Assets!BindMigration(w, c)
    BY <1>4 DEF Assets!Call, Assets!Egresses
  <2> QED
    BY <2>1, BindsWell
<1>5. CASE c.kind = "SET_POLICY"
  <2>1. r = Assets!SetPolicy(w, c)
    BY <1>5 DEF Assets!Call, Assets!Egresses
  <2> QED
    BY <2>1, SetsWell
<1>6. CASE c.kind = "RETIRE"
  <2> DEFINE v == [w EXCEPT !.safeState = "RETIRED"]
  <2>1. IF Assets!Matured(w) THEN r = Assets!Done(v) ELSE r = Assets!Refused(w)
    BY <1>6 DEF Assets!Call, Assets!Egresses
  <2>2. Assets!Matured(w) => World(v)
    BY RetiresWell
  <2> HIDE DEF r, v
  <2>3. r.w = IF Assets!Matured(w) THEN v ELSE w
    BY <2>1, Outcomes
  <2>4. World(r.w)
    BY <2>2, <2>3
  <2> QED
    BY <2>4 DEF r
<1>7. CASE c.kind \notin Assets!Egresses \cup Others
  <2>1. r = Assets!Done(w)
    BY <1>7 DEF Assets!Call, Assets!Egresses, Others
  <2> HIDE DEF r
  <2>2. World(r.w)
    BY <2>1, Outcomes
  <2> QED
    BY <2>2 DEF r
<1> QED
  BY <1>1, <1>2, <1>3, <1>4, <1>5, <1>6, <1>7 DEF Others

LEMMA NoHookLeft ==
    ASSUME NEW w, World(w)
    PROVE  /\ World([w EXCEPT !.hook = Assets!NoHook])
           /\ Frame(w, [w EXCEPT !.hook = Assets!NoHook], {"hook"})
<1> DEFINE v == [w EXCEPT !.hook = Assets!NoHook]
<1>1. Frame(w, v, {"hook"}) /\ v.hook = Assets!NoHook
  BY DEF World, Frame, WorldFields
<1>2. Assets!NoHook.kind = "none"
  BY DEF Assets!NoHook, Assets!None
<1> HIDE DEF v
<1>3. World(v)
  BY <1>1, <1>2 DEF World, Frame, WorldFields
<1> QED
  BY <1>1, <1>3 DEF v

LEMMA NestsWell ==
    ASSUME NEW w, World(w), NEW c, Sendable(c)
    PROVE  World(Assets!Nested(w, c).w)
<1> DEFINE v == Assets!SpendNonce(w, c.nonce)
           paid == Assets!PlainTransfer(v, c.to, c.amount)
           emptied == Assets!PlainTransfer(w, "destination", Assets!balanceOf(w))
<1>1. World(emptied.w)
  BY Balances, PlainMoves DEF Payees
<1>2. ASSUME c.kind = "SPEND"
      PROVE  World(paid.w)
  <2>1. c.amount \in Nat /\ c.to \in Payees /\ c.nonce \in Nat
    BY <1>2 DEF Sendable, Payees
  <2>2. World(v)
    BY <2>1, OtherNonces
  <2> HIDE DEF v
  <2> QED
    BY <2>1, <2>2, PlainMoves
<1>3. Assets!Nested(w, c) = Assets!Call(w, c, paid, emptied)
  BY DEF Assets!Nested
<1> HIDE DEF paid, emptied
<1>4. World(Assets!Call(w, c, paid, emptied).w)
  BY <1>1, <1>2, CallsWell
<1> QED
  BY <1>3, <1>4

LEMMA LogsWell ==
    ASSUME NEW w, NEW r, World(r.w)
    PROVE  World(Assets!Logged(w, r)) /\ Frame(r.w, Assets!Logged(w, r), {"log"})
<1> DEFINE u == r.w
           seen == IF w.hook.kind = "readNonce" THEN w.nonces.spend ELSE 0
           n == [u.log EXCEPT !["fired"] = w.hook.kind, !["succeeded"] = r.ok, !["seen"] = seen]
           v == [u EXCEPT !.log = n]
<1>1. Logs(n)
  <2> HIDE DEF seen
  <2> QED
    BY DEF World, Logs, LogFields
<1>2. v = Assets!Logged(w, r)
  BY DEF Assets!Logged, World, Logs, LogFields, WorldFields
<1> HIDE DEF n
<1>3. Frame(u, v, {"log"}) /\ v.log = n
  BY DEF World, Frame, WorldFields
<1> HIDE DEF u, v
<1>4. World(u)
  BY DEF u
<1>5. World(v)
  BY <1>1, <1>3, <1>4 DEF World, Frame, WorldFields
<1> QED
  BY <1>2, <1>3, <1>5 DEF u

LEMMA FiresWell ==
    ASSUME NEW w, World(w), w.hook.kind # "none"
    PROVE  World(Assets!Fired(w))
<1> DEFINE v == [w EXCEPT !.hook = Assets!NoHook]
           r == Assets!Nested(v, w.hook.call)
<1>1. World(v)
  BY NoHookLeft
<1>2. Sendable(w.hook.call)
  BY DEF World
<1>3. Assets!Fired(w) = Assets!Logged(w, r)
  BY DEF Assets!Fired
<1> HIDE DEF v
<1>4. World(r.w)
  BY <1>1, <1>2, NestsWell
<1> HIDE DEF r
<1> QED
  BY <1>3, <1>4, LogsWell

LEMMA TransfersWell ==
    ASSUME NEW w, World(w), NEW to \in Payees, NEW amount \in Nat
    PROVE  World(Assets!Transfer(w, to, amount).w)
<1> DEFINE v == [w EXCEPT !.log.transfers = w.log.transfers + 1]
           u == Assets!Entered(v)
           m == Assets!Moved(u, to, amount)
           r == Assets!Transfer(w, to, amount)
<1>1. World(v)
  BY OneMoreTransfer
<1>2. r = Assets!Refused(w) \/ r = Assets!Left(m)
  BY DEF Assets!Transfer
<1> HIDE DEF v, r
<1>3. World(u)
  <2>1. IF v.hook.kind # "none" /\ ~v.hook.after THEN u = Assets!Fired(v) ELSE u = v
    BY DEF Assets!Entered, Assets!None
  <2> HIDE DEF u
  <2> QED
    BY <1>1, <2>1, FiresWell
<1> HIDE DEF u
<1>4. World(m.w)
  BY <1>3, TransferMoves DEF Moves
<1> HIDE DEF m
<1>5. World(Assets!Left(m).w)
  <2>1. IF m.ok /\ m.w.hook.kind # "none" THEN Assets!Left(m) = Assets!Done(Assets!Fired(m.w))
        ELSE Assets!Left(m) = m
    BY DEF Assets!Left, Assets!None
  <2>2. m.w.hook.kind # "none" => World(Assets!Fired(m.w))
    BY <1>4, FiresWell
  <2>3. CASE m.ok /\ m.w.hook.kind # "none"
    <3>1. Assets!Left(m).w = Assets!Fired(m.w)
      BY <2>1, <2>3, Outcomes
    <3> QED
      BY <2>2, <2>3, <3>1
  <2>4. CASE ~(m.ok /\ m.w.hook.kind # "none")
    BY <1>4, <2>1, <2>4
  <2> QED
    BY <2>3, <2>4
<1>6. World(r.w)
  <2>1. r.w \in {w, Assets!Left(m).w}
    BY <1>2, Outcomes
  <2> QED
    BY <1>5, <2>1
<1> QED
  BY <1>6 DEF r

\* What a transaction to the vault leaves.
LEMMA ExecutesWell ==
    ASSUME NEW w, World(w), NEW c, Sendable(c)
    PROVE  World(Assets!Exec(w, c).w)
<1> DEFINE v == Assets!SpendNonce(w, c.nonce)
           paid == Assets!Transfer(v, c.to, c.amount)
           emptied == Assets!Transfer(w, "destination", Assets!balanceOf(w))
<1>1. World(emptied.w)
  BY Balances, TransfersWell DEF Payees
<1>2. ASSUME c.kind = "SPEND"
      PROVE  World(paid.w)
  <2>1. c.amount \in Nat /\ c.to \in Payees /\ c.nonce \in Nat
    BY <1>2 DEF Sendable, Payees
  <2>2. World(v)
    BY <2>1, OtherNonces
  <2> HIDE DEF v
  <2> QED
    BY <2>1, <2>2, TransfersWell
<1>3. Assets!Exec(w, c) = Assets!Call(w, c, paid, emptied)
  BY DEF Assets!Exec
<1> HIDE DEF paid, emptied
<1>4. World(Assets!Call(w, c, paid, emptied).w)
  BY <1>1, <1>2, CallsWell
<1> QED
  BY <1>3, <1>4

LEMMA KeptAsSame ==
    ASSUME NEW w, World(w)
    PROVE  World(Assets!Same(w)) /\ Frame(w, Assets!Same(w), {"log"})
<1> DEFINE v == Assets!Same(w)
<1>1. Frame(w, v, {"log"}) /\ v.log = Assets!Quiet
  BY DEF World, Frame, WorldFields, Assets!Same
<1>2. Logs(Assets!Quiet)
  BY DEF Logs, LogFields, Assets!Quiet, Assets!None
<1> HIDE DEF v
<1>3. World(v)
  BY <1>1, <1>2 DEF World, Frame, WorldFields
<1> QED
  BY <1>1, <1>3 DEF v

-----------------------------------------------------------------------------
(* The world in every state                                                 *)

\* World holds of every chain, and every call sent can be sent again.
AssetInv == World(aChain) /\ \A old \in aHistory : Sendable(old.call)

\* What no field of World is about.
Idle == {"hostility", "sibling", "frozen", "destinationMode", "policy", "containedUntil"}

LEMMA IdleFields ==
    ASSUME NEW w, World(w), NEW v, Frame(w, v, Idle)
    PROVE  World(v)
BY DEF World, Frame, WorldFields, Idle

LEMMA TransactionKeeps ==
    ASSUME NEW kind, NEW before, World(before), NEW call, Sendable(call), NEW roots, NEW prior,
           Assets!Transact(kind, before, call, roots, prior)
    PROVE  World(aChain')
<1>1. aChain' = Assets!Same(Assets!Exec(before, call).w)
  BY DEF Assets!Transact
<1>2. World(Assets!Exec(before, call).w)
  BY ExecutesWell
<1> QED
  BY <1>1, <1>2, KeptAsSame

LEMMA AttemptsKeepWorld ==
    ASSUME NEW kind, NEW actor, NEW before, World(before), NEW call, Sendable(call), NEW roots,
           Assets!Attempt(kind, actor, before, call, roots), AssetInv
    PROVE  AssetInv'
<1>1. World(aChain')
  BY TransactionKeeps DEF Assets!Attempt
<1>2. \/ aHistory' = aHistory
      \/ \E ok : aHistory' = aHistory \cup {[kind |-> kind, call |-> call,
                                           roots |-> Assets!rootsNow(actor), ok |-> ok]}
  BY DEF Assets!Attempt
<1>3. \A old \in aHistory' : Sendable(old.call)
  BY <1>2 DEF AssetInv
<1> QED
  BY <1>1, <1>3 DEF AssetInv

LEMMA SpendCallsSent ==
    ASSUME NEW actor, NEW to \in {"recipient", "vault"}, NEW amount \in Nat, NEW nonce \in Nat
    PROVE  Sendable(Assets!SpendCall(actor, to, amount, nonce))
BY DEF Sendable, Assets!SpendCall

LEMMA HookCallsSent ==
    ASSUME NEW actor, NEW kind, World(aChain)
    PROVE  Sendable(Assets!HookCall(actor, kind))
<1>1. aChain.nonces.spend \in Nat /\ aChain.nonces.spend + 1 \in Nat /\ 1 \in Nat
  BY DEF World, Authorities
<1> DEFINE a == Assets!SpendCall(actor, "recipient", 1, aChain.nonces.spend)
           b == Assets!SpendCall(actor, "recipient", 1, aChain.nonces.spend + 1)
           r == Assets!HookCall(actor, kind)
<1>2. Sendable(a) /\ Sendable(b)
  BY <1>1, SpendCallsSent
<1>3. Assets!ContainCall(actor).kind # "SPEND"
  BY DEF Assets!ContainCall
<1>4. Assets!BindCall(actor, "bound").kind # "SPEND"
  BY DEF Assets!BindCall
<1>5. r = a \/ r = b \/ r.kind # "SPEND"
  <2> HIDE DEF a, b
  <2>1. kind = "replaySpend" => r = a
    BY DEF Assets!HookCall, a
  <2>2. kind = "secondValidSpend" => r = b
    BY DEF Assets!HookCall, b
  <2>3. kind \notin {"replaySpend", "secondValidSpend"} => r.kind # "SPEND"
    BY <1>3, <1>4 DEF Assets!HookCall
  <2> QED
    BY <2>1, <2>2, <2>3
<1> HIDE DEF a, b, r
<1>6. Sendable(r)
  BY <1>2, <1>5 DEF Sendable
<1> QED
  BY <1>6 DEF r

LEMMA ArmedKeeps ==
    ASSUME NEW call, Sendable(call), World(aChain)
    PROVE  World(Assets!ArmedFor(call))
<1> DEFINE h == [aChain.hook EXCEPT !.call = call]
           v == [aChain EXCEPT !.hook = h]
           r == Assets!ArmedFor(call)
<1>1. r = aChain \/ r = v
  BY DEF Assets!ArmedFor
<1>2. Frame(aChain, v, {"hook"}) /\ v.hook = h
  BY DEF World, Frame, WorldFields
<1>3. h.kind = "none" <=> aChain.hook.kind = "none"
  OBVIOUS
<1>4. h.call = call \/ Sendable(h.call)
  OBVIOUS
<1> HIDE DEF h, v, r
<1>5. World(v)
  BY <1>2, <1>3, <1>4 DEF World, Frame, WorldFields
<1> QED
  BY <1>1, <1>5 DEF r

\* What a call carries is of the roots.
Backed(c, roots) ==
    /\ c.kind = "SPEND" /\ c.signed /\ c.covers = <<c.to, c.amount>> /\ c.vault = "this"
         => roots.credential >= 1
    /\ c.kind = "SET_POLICY" /\ c.signed => roots.credential >= 1
    /\ c.kind = "ENTER_CONTAINMENT" /\ c.quorum => roots.guardians >= 2
    /\ c.kind = "BIND_MIGRATION" /\ c.quorum /\ c.signed
         => roots.credential >= 1 /\ roots.guardians >= 2

LEMMA SpendBacked ==
    ASSUME NEW actor, NEW to, NEW amount, NEW nonce
    PROVE  Backed(Assets!SpendCall(actor, to, amount, nonce), Assets!rootsNow(actor))
<1>1. Assets!HoldsCredential(actor) => Assets!rootsNow(actor).credential >= 1
  BY DEF Assets!HoldsCredential
<1> QED
  BY <1>1 DEF Backed, Assets!SpendCall

LEMMA ContainBacked ==
    ASSUME NEW actor
    PROVE  Backed(Assets!ContainCall(actor), Assets!rootsNow(actor))
BY DEF Backed, Assets!ContainCall, Assets!HoldsQuorum

LEMMA BindBacked ==
    ASSUME NEW actor, NEW destination
    PROVE  Backed(Assets!BindCall(actor, destination), Assets!rootsNow(actor))
<1>1. Assets!HoldsCredential(actor) => Assets!rootsNow(actor).credential >= 1
  BY DEF Assets!HoldsCredential
<1> QED
  BY <1>1 DEF Backed, Assets!BindCall, Assets!HoldsQuorum

\* What an actor signs anew, or somebody's signature on other terms.
OwnCall(kind, call) ==
    \/ call.kind = kind /\ kind \in Assets!NonceBearing
    \/ /\ kind \in {"RELAY_TAMPER", "CROSS_ASSET_REPLAY"} /\ call.kind = "SPEND"
       /\ ~(call.covers = <<call.to, call.amount>> /\ call.vault = "this")

\* A new call: a spend, which its own token may replay; another of the actor's own; or
\* what anybody may finish, charged to those who bound it.
Makes(actor, kind, before, call, roots) ==
    /\ Assets!Attempt(kind, actor, before, call, roots)
    /\ Sendable(call) /\ Backed(call, Assets!rootsNow(actor))
    /\ \/ /\ kind = "SPEND" /\ call.kind = "SPEND" /\ call.nonce = aChain.nonces.spend
          /\ before = Assets!ArmedFor(call) /\ roots = Assets!rootsNow(actor)
       \/ before = aChain /\ roots = Assets!rootsNow(actor) /\ OwnCall(kind, call)
       \/ /\ before = aChain /\ roots = aCtx.migrationBy
          /\ kind = call.kind /\ call.kind \in Assets!Egresses \cup {"RETIRE"}

LEMMA CallActionsMake ==
    ASSUME World(aChain), NEW actor,
           \/ Assets!SPEND(actor) \/ Assets!RELAY_TAMPER(actor) \/ Assets!SET_POLICY(actor)
           \/ Assets!ENTER_CONTAINMENT(actor) \/ Assets!BIND_MIGRATION(actor)
           \/ Assets!RETIRE(actor) \/ Assets!EGRESS(actor)
    PROVE  \E kind, before, call, roots : Makes(actor, kind, before, call, roots)
<1> DEFINE own == Assets!rootsNow(actor)
<1>0. aChain.nonces.spend \in Nat /\ aChain.asset.vault \in Nat /\ 0 \in Nat /\ 1 \in Nat
  BY DEF World, Authorities, Holders
<1>1. CASE Assets!SPEND(actor)
  <2>1. PICK amount \in {0, 1, aChain.asset.vault}, to \in {"recipient", "vault"} :
            Assets!Attempt("SPEND", actor,
                Assets!ArmedFor(Assets!SpendCall(actor, to, amount, aChain.nonces.spend)),
                Assets!SpendCall(actor, to, amount, aChain.nonces.spend), own)
    BY <1>1 DEF Assets!SPEND
  <2> DEFINE call == Assets!SpendCall(actor, to, amount, aChain.nonces.spend)
  <2>2. amount \in Nat
    BY <1>0
  <2>3. Sendable(call) /\ Backed(call, own)
    BY <1>0, <2>2, SpendCallsSent, SpendBacked
  <2>4. call.kind = "SPEND" /\ call.nonce = aChain.nonces.spend
    BY DEF Assets!SpendCall
  <2>5. Assets!Attempt("SPEND", actor, Assets!ArmedFor(call), call, own)
    BY <2>1
  <2> HIDE DEF call
  <2>6. Makes(actor, "SPEND", Assets!ArmedFor(call), call, own)
    BY <2>3, <2>4, <2>5 DEF Makes
  <2> QED
    BY <2>6
<1>2. CASE Assets!RELAY_TAMPER(actor)
  <2> DEFINE call == Assets!SpendCall("honest", "recipient", 1, aChain.nonces.spend)
             a == [call EXCEPT !.to = "vault"]
             b == [call EXCEPT !.amount = 2]
  <2>1. \/ Assets!Attempt("RELAY_TAMPER", actor, aChain, a, own)
        \/ Assets!Attempt("RELAY_TAMPER", actor, aChain, b, own)
    BY <1>2 DEF Assets!RELAY_TAMPER
  <2>2. Sendable(a) /\ Sendable(b) /\ a.kind = "SPEND" /\ b.kind = "SPEND"
    BY <1>0 DEF Sendable, Assets!SpendCall
  <2>3. /\ a.covers = <<"recipient", 1>> /\ a.to = "vault"
        /\ b.covers = <<"recipient", 1>> /\ b.amount = 2
    BY DEF Assets!SpendCall
  <2> HIDE DEF a, b
  <2>4. a.covers # <<a.to, a.amount>> /\ b.covers # <<b.to, b.amount>>
    BY <2>3
  <2>5. /\ Backed(a, own) /\ OwnCall("RELAY_TAMPER", a)
        /\ Backed(b, own) /\ OwnCall("RELAY_TAMPER", b)
    BY <2>2, <2>4 DEF Backed, OwnCall
  <2>6. Makes(actor, "RELAY_TAMPER", aChain, a, own) \/ Makes(actor, "RELAY_TAMPER", aChain, b, own)
    BY <2>1, <2>2, <2>5 DEF Makes
  <2> QED
    BY <2>6
<1>3. ASSUME NEW call, call.kind \in {"SET_POLICY", "ENTER_CONTAINMENT", "BIND_MIGRATION"},
             Backed(call, own), Assets!Attempt(call.kind, actor, aChain, call, own)
      PROVE  Makes(actor, call.kind, aChain, call, own)
  BY <1>3 DEF Makes, OwnCall, Assets!NonceBearing, Sendable
<1>4. CASE Assets!SET_POLICY(actor)
  <2>1. PICK policy \in {Assets!None, "deny", "codeless"} :
            Assets!Attempt("SET_POLICY", actor, aChain,
                [kind |-> "SET_POLICY", signed |-> Assets!HoldsCredential(actor),
                 policy |-> policy, nonce |-> aChain.nonces.credential], own)
    BY <1>4 DEF Assets!SET_POLICY
  <2> DEFINE call == [kind |-> "SET_POLICY", signed |-> Assets!HoldsCredential(actor),
                      policy |-> policy, nonce |-> aChain.nonces.credential]
  <2>2. /\ call.kind = "SET_POLICY" /\ call.signed = Assets!HoldsCredential(actor)
        /\ Assets!Attempt("SET_POLICY", actor, aChain, call, own)
    BY <2>1
  <2>3. Assets!HoldsCredential(actor) => own.credential >= 1
    BY DEF Assets!HoldsCredential
  <2> HIDE DEF call
  <2>4. Backed(call, own)
    BY <2>2, <2>3 DEF Backed
  <2> QED
    BY <1>3, <2>2, <2>4
<1>5. CASE Assets!ENTER_CONTAINMENT(actor)
  <2> DEFINE call == Assets!ContainCall(actor)
  <2>1. Assets!Attempt("ENTER_CONTAINMENT", actor, aChain, call, own)
    BY <1>5 DEF Assets!ENTER_CONTAINMENT
  <2>2. call.kind = "ENTER_CONTAINMENT" /\ Backed(call, own)
    BY ContainBacked DEF Assets!ContainCall
  <2> HIDE DEF call
  <2> QED
    BY <1>3, <2>1, <2>2
<1>6. CASE Assets!BIND_MIGRATION(actor)
  <2>1. PICK destination \in {"bound", "wrongHash", "self"} :
            Assets!Attempt("BIND_MIGRATION", actor, aChain,
                           Assets!BindCall(actor, destination), own)
    BY <1>6 DEF Assets!BIND_MIGRATION
  <2> DEFINE call == Assets!BindCall(actor, destination)
  <2>2. call.kind = "BIND_MIGRATION" /\ Backed(call, own)
    BY BindBacked DEF Assets!BindCall
  <2>3. Assets!Attempt("BIND_MIGRATION", actor, aChain, call, own)
    BY <2>1
  <2> HIDE DEF call
  <2> QED
    BY <1>3, <2>2, <2>3
<1>7. CASE Assets!RETIRE(actor) \/ Assets!EGRESS(actor)
  <2>1. PICK kind \in Assets!Egresses \cup {"RETIRE"} :
            Assets!Attempt(kind, actor, aChain, [kind |-> kind], aCtx.migrationBy)
    BY <1>7 DEF Assets!RETIRE, Assets!EGRESS
  <2> DEFINE call == [kind |-> kind]
  <2>2. call.kind = kind /\ Assets!Attempt(kind, actor, aChain, call, aCtx.migrationBy)
    BY <2>1
  <2> HIDE DEF call
  <2>3. kind \notin {"SPEND", "SET_POLICY", "ENTER_CONTAINMENT", "BIND_MIGRATION"}
    BY DEF Assets!Egresses
  <2>4. Makes(actor, kind, aChain, call, aCtx.migrationBy)
    BY <2>2, <2>3 DEF Makes, Sendable, Backed
  <2> QED
    BY <2>4
<1> QED
  BY <1>1, <1>2, <1>4, <1>5, <1>6, <1>7

LEMMA CallActionsKeep ==
    ASSUME AssetInv, NEW actor, NEW kind, NEW before, NEW call, NEW roots,
           Makes(actor, kind, before, call, roots)
    PROVE  AssetInv'
<1>1. World(before) /\ Sendable(call)
  BY ArmedKeeps DEF Makes, AssetInv
<1> QED
  BY <1>1, AttemptsKeepWorld DEF Makes

LEMMA ReplaysKeep ==
    ASSUME AssetInv, NEW actor,
           \/ Assets!CROSS_ASSET_REPLAY(actor) \/ Assets!ARM_HOOK(actor)
           \/ Assets!REPLAY_PAST_CALL(actor)
    PROVE  AssetInv'
<1>0. World(aChain) /\ aChain.nonces.spend \in Nat /\ 1 \in Nat
  BY DEF AssetInv, World, Authorities
<1>1. CASE Assets!CROSS_ASSET_REPLAY(actor)
  <2> DEFINE call == Assets!SpendCall("honest", "recipient", 1, aChain.nonces.spend)
             a == [call EXCEPT !.vault = "sibling"]
             s == [asset |-> aChain.sibling.asset - 1, nonce |-> aChain.sibling.nonce + 1]
             v == [aChain EXCEPT !.sibling = s]
  <2>1. \/ aChain' \in {aChain, v} /\ aHistory' = aHistory
        \/ Assets!Attempt("CROSS_ASSET_REPLAY", actor, aChain, a, Assets!rootsNow(actor))
    BY <1>1 DEF Assets!CROSS_ASSET_REPLAY
  <2>2. Sendable(a)
    BY <1>0 DEF Sendable, Assets!SpendCall
  <2>3. World(v)
    <3> HIDE DEF s
    <3>1. Frame(aChain, v, {"sibling"})
      BY <1>0 DEF World, Frame, WorldFields
    <3> HIDE DEF v
    <3> QED
      BY <1>0, <3>1, FrameGrows, IdleFields DEF Idle
  <2> HIDE DEF a, v
  <2>4. CASE aChain' \in {aChain, v} /\ aHistory' = aHistory
    BY <1>0, <2>3, <2>4 DEF AssetInv
  <2> QED
    BY <1>0, <2>1, <2>2, <2>4, AttemptsKeepWorld
<1>2. CASE Assets!ARM_HOOK(actor)
  <2>1. PICK kind \in aProfile.hooks, after \in BOOLEAN :
            aChain' = [aChain EXCEPT !.hook = [kind |-> kind, call |-> Assets!HookCall(actor, kind),
                                               after |-> after]]
    BY <1>2 DEF Assets!ARM_HOOK
  <2> DEFINE call == Assets!HookCall(actor, kind)
             h == [kind |-> kind, call |-> call, after |-> after]
             v == [aChain EXCEPT !.hook = h]
  <2>2. Sendable(call)
    BY <1>0, HookCallsSent
  <2> HIDE DEF call
  <2>3. Sendable(h.call)
    BY <2>2
  <2> HIDE DEF h
  <2>4. Frame(aChain, v, {"hook"}) /\ v.hook = h
    BY <1>0 DEF World, Frame, WorldFields
  <2>5. aChain' = v
    BY <2>1 DEF h, call
  <2> HIDE DEF v
  <2>6. World(v)
    BY <1>0, <2>3, <2>4 DEF World, Frame, WorldFields
  <2>7. aHistory' = aHistory
    BY <1>2 DEF Assets!ARM_HOOK
  <2> QED
    BY <2>5, <2>6, <2>7 DEF AssetInv
<1>3. CASE Assets!REPLAY_PAST_CALL(actor)
  <2>1. PICK old \in aHistory :
            Assets!Transact("REPLAY_PAST_CALL", aChain, old.call,
                            Assets!ReplayAttribution(actor, old),
                            [kind |-> old.kind, ok |-> old.ok])
    BY <1>3 DEF Assets!REPLAY_PAST_CALL
  <2>2. Sendable(old.call)
    BY DEF AssetInv
  <2>3. World(aChain')
    BY <1>0, <2>1, <2>2, TransactionKeeps
  <2>4. aHistory' = aHistory
    BY <1>3 DEF Assets!REPLAY_PAST_CALL
  <2> QED
    BY <2>3, <2>4 DEF AssetInv
<1> QED
  BY <1>1, <1>2, <1>3

Leaves(w, x) ==
    \/ x.asset["vault"] < w.asset["vault"]
    \/ x.native["vault"] < w.native["vault"]
    \/ x.other["vault"] < w.other["vault"]

\* What no authority moves: the token, its holders' balances, the destination and time.
LeverFields ==
    {"now", "asset", "supply", "native", "other", "hostility", "mode", "poison", "frozen",
     "destinationMode"}

\* A lever takes nothing from the vault, but for a rebase, and its token pays what it
\* paid, or what its profile lets it.
Pulls(kind, v) ==
    /\ Assets!Lever(kind, v) /\ World(v) /\ Frame(aChain, v, LeverFields)
    /\ kind = "TOKEN_REBASE" \/ ~Leaves(aChain, v)
    /\ \/ v.mode = aChain.mode /\ v.poison = aChain.poison
       \/ v.mode \in aProfile.modes /\ v.poison.kind = "none"

\* Deposits, a rebase, native value and somebody else's token.
LEMMA BalanceLevers ==
    ASSUME World(aChain),
           Assets!DIRECT_TRANSFER \/ Assets!TOKEN_REBASE \/ Assets!FUND
           \/ Assets!UNSOLICITED_TRANSFER
    PROVE  \E kind, v : Pulls(kind, v)
<1> DEFINE w == aChain
<1>0. /\ World(w) /\ w.asset \in [Holders -> Nat] /\ w.native \in [{"vault", "destination"} -> Nat]
      /\ w.other \in [{"vault", "destination"} -> Nat] /\ Balanced(w.asset, w.supply)
  BY DEF World
<1>1. /\ w.asset["vault"] \in Nat /\ w.asset["recipient"] \in Nat
      /\ w.asset["destination"] \in Nat /\ w.asset["sink"] \in Nat /\ w.supply \in Nat
      /\ w.native["vault"] \in Nat /\ w.other["vault"] \in Nat
  BY <1>0 DEF Holders, Balanced
<1>2. CASE Assets!DIRECT_TRANSFER \/ Assets!TOKEN_REBASE
  <2> DEFINE by(d) == [w EXCEPT !.asset = [w.asset EXCEPT !["vault"] = w.asset["vault"] + d],
                                !.supply = w.supply + d]
  <2>1. PICK kind \in {"DIRECT_TRANSFER", "TOKEN_REBASE"}, d \in Int :
            /\ Assets!Lever(kind, by(d))
            /\ d = 1 \/ (d = -1 /\ kind = "TOKEN_REBASE" /\ w.asset["vault"] > 0)
    <3>1. /\ w.asset["vault"] - 1 = w.asset["vault"] + (-1) /\ w.supply - 1 = w.supply + (-1)
          /\ 1 \in Int /\ -1 \in Int
      BY <1>1
    <3>2. \/ Assets!Lever("DIRECT_TRANSFER", by(1)) \/ Assets!Lever("TOKEN_REBASE", by(1))
          \/ w.asset["vault"] > 0 /\ Assets!Lever("TOKEN_REBASE", by(-1))
      BY <1>2, <3>1 DEF Assets!DIRECT_TRANSFER, Assets!TOKEN_REBASE
    <3> HIDE DEF by
    <3> QED
      BY <3>1, <3>2
  <2> DEFINE a == [w.asset EXCEPT !["vault"] = w.asset["vault"] + d]
             v == [w EXCEPT !.asset = a, !.supply = w.supply + d]
  <2>2. a \in [Holders -> Nat] /\ Balanced(a, w.supply + d) /\ a["vault"] = w.asset["vault"] + d
    BY <1>0, <1>1, <2>1 DEF Holders, Balanced
  <2>3. Assets!Lever(kind, v)
    BY <2>1
  <2> HIDE DEF a
  <2>4. Frame(w, v, {"asset", "supply"}) /\ v.asset = a /\ v.supply = w.supply + d
    BY <1>0 DEF World, Frame, WorldFields
  <2> HIDE DEF v
  <2>5. World(v)
    <3> HIDE DEF w
    <3> QED
      BY <1>0, <2>2, <2>4 DEF World, Frame, WorldFields
  <2>6. /\ Frame(w, v, LeverFields) /\ v.native = w.native /\ v.other = w.other
        /\ v.mode = w.mode /\ v.poison = w.poison
    BY <2>4 DEF Frame, WorldFields, LeverFields
  <2>7. kind = "TOKEN_REBASE" \/ ~Leaves(w, v)
    BY <1>1, <2>1, <2>2, <2>4, <2>6 DEF Leaves
  <2>8. Pulls(kind, v)
    BY <2>3, <2>5, <2>6, <2>7 DEF Pulls
  <2> QED
    BY <2>8
<1>3. CASE Assets!FUND
  <2> DEFINE n == [w.native EXCEPT !["vault"] = w.native["vault"] + 1]
             v == [w EXCEPT !.native = n]
  <2>1. n \in [{"vault", "destination"} -> Nat] /\ n["vault"] = w.native["vault"] + 1
    BY <1>0
  <2>2. Assets!Lever("FUND", v)
    BY <1>3 DEF Assets!FUND
  <2> HIDE DEF n
  <2>3. Frame(w, v, {"native"}) /\ v.native = n
    BY <1>0 DEF World, Frame, WorldFields
  <2> HIDE DEF v
  <2>4. World(v)
    <3> HIDE DEF w
    <3> QED
      BY <1>0, <2>1, <2>3 DEF World, Frame, WorldFields
  <2>5. /\ Frame(w, v, LeverFields) /\ v.asset = w.asset /\ v.other = w.other
        /\ v.mode = w.mode /\ v.poison = w.poison
    BY <2>3 DEF Frame, WorldFields, LeverFields
  <2>6. ~Leaves(w, v)
    BY <1>1, <2>1, <2>3, <2>5 DEF Leaves
  <2>7. Pulls("FUND", v)
    BY <2>2, <2>4, <2>5, <2>6 DEF Pulls
  <2> QED
    BY <2>7
<1>4. CASE Assets!UNSOLICITED_TRANSFER
  <2>1. PICK hostility \in 0..2 :
            Assets!Lever("UNSOLICITED_TRANSFER",
                         [w EXCEPT !.hostility = hostility, !.other.vault = w.other.vault + 1])
    BY <1>4 DEF Assets!UNSOLICITED_TRANSFER
  <2> DEFINE n == [w.other EXCEPT !["vault"] = w.other["vault"] + 1]
             v == [w EXCEPT !.hostility = hostility, !.other = n]
  <2>2. n \in [{"vault", "destination"} -> Nat] /\ n["vault"] = w.other["vault"] + 1
    BY <1>0
  <2>3. Assets!Lever("UNSOLICITED_TRANSFER", v)
    BY <2>1
  <2> HIDE DEF n
  <2>4. Frame(w, v, {"hostility", "other"}) /\ v.other = n
    BY <1>0 DEF World, Frame, WorldFields
  <2> HIDE DEF v
  <2>5. World(v)
    <3> HIDE DEF w
    <3> QED
      BY <1>0, <2>2, <2>4 DEF World, Frame, WorldFields
  <2>6. /\ Frame(w, v, LeverFields) /\ v.asset = w.asset /\ v.native = w.native
        /\ v.mode = w.mode /\ v.poison = w.poison
    BY <2>4 DEF Frame, WorldFields, LeverFields
  <2>7. ~Leaves(w, v)
    BY <1>1, <2>2, <2>4, <2>6 DEF Leaves
  <2>8. Pulls("UNSOLICITED_TRANSFER", v)
    BY <2>3, <2>5, <2>6, <2>7 DEF Pulls
  <2> QED
    BY <2>8
<1> QED
  BY <1>2, <1>3, <1>4

\* The token's behaviour, whom it blocks, the destination and time.
LEMMA OtherLevers ==
    ASSUME World(aChain),
           Assets!TOKEN_MODE \/ Assets!TOKEN_BLOCKLIST \/ Assets!DESTINATION_MODE
           \/ Assets!ADVANCE_TIME
    PROVE  \E kind, v : Pulls(kind, v)
<1> DEFINE w == aChain
<1>0. World(w)
  OBVIOUS
<1>1. ~Leaves(w, w)
  BY DEF World, Holders, Leaves
<1>2. ASSUME NEW kind, NEW v, Assets!Lever(kind, v), World(v),
             Frame(w, v, {"frozen", "destinationMode", "now"})
      PROVE  Pulls(kind, v)
  <2>1. /\ Frame(w, v, LeverFields) /\ ~Leaves(w, v)
        /\ v.mode = w.mode /\ v.poison = w.poison
    BY <1>1, <1>2 DEF Frame, WorldFields, LeverFields, Leaves
  <2> QED
    BY <1>2, <2>1 DEF Pulls
<1>3. CASE Assets!TOKEN_MODE
  <2>1. PICK mode \in aProfile.modes :
            Assets!Lever("TOKEN_MODE",
                [w EXCEPT !.mode = mode, !.poison = [kind |-> Assets!None, balance |-> 0]])
    BY <1>3 DEF Assets!TOKEN_MODE
  <2> DEFINE p == [kind |-> Assets!None, balance |-> 0]
             v == [w EXCEPT !.mode = mode, !.poison = p]
  <2>2. Assets!Lever("TOKEN_MODE", v)
    BY <2>1
  <2>3. p.balance \in Nat /\ p.kind = "none"
    BY DEF Assets!None
  <2> HIDE DEF p
  <2>4. Frame(w, v, {"mode", "poison"}) /\ v.mode = mode /\ v.poison = p
    BY <1>0 DEF World, Frame, WorldFields
  <2> HIDE DEF v
  <2>5. World(v)
    <3> HIDE DEF w
    <3> QED
      BY <1>0, <2>3, <2>4 DEF World, Frame, WorldFields
  <2>6. Frame(w, v, LeverFields) /\ ~Leaves(w, v)
    BY <1>1, <2>4 DEF Frame, WorldFields, LeverFields, Leaves
  <2>7. Pulls("TOKEN_MODE", v)
    BY <2>2, <2>3, <2>4, <2>5, <2>6 DEF Pulls
  <2> QED
    BY <2>7
<1>4. CASE Assets!TOKEN_BLOCKLIST \/ Assets!DESTINATION_MODE
  <2>1. PICK kind, f, m : Assets!Lever(kind, [w EXCEPT !.frozen = f, !.destinationMode = m])
    <3>1. CASE Assets!TOKEN_BLOCKLIST
      <4>1. PICK f : Assets!Lever("TOKEN_BLOCKLIST", [w EXCEPT !.frozen = f])
        BY <3>1 DEF Assets!TOKEN_BLOCKLIST
      <4>2. [w EXCEPT !.frozen = f] = [w EXCEPT !.frozen = f, !.destinationMode = w.destinationMode]
        BY <1>0 DEF World, WorldFields
      <4> QED
        BY <4>1, <4>2
    <3>2. CASE Assets!DESTINATION_MODE
      <4>1. PICK m : Assets!Lever("DESTINATION_MODE", [w EXCEPT !.destinationMode = m])
        BY <3>2 DEF Assets!DESTINATION_MODE
      <4>2. [w EXCEPT !.destinationMode = m] = [w EXCEPT !.frozen = w.frozen, !.destinationMode = m]
        BY <1>0 DEF World, WorldFields
      <4> QED
        BY <4>1, <4>2
    <3> QED
      BY <1>4, <3>1, <3>2
  <2> DEFINE v == [w EXCEPT !.frozen = f, !.destinationMode = m]
  <2>2. Assets!Lever(kind, v)
    BY <2>1
  <2>3. Frame(w, v, {"frozen", "destinationMode"})
    BY <1>0 DEF World, Frame, WorldFields
  <2> HIDE DEF v
  <2>4. World(v) /\ Frame(w, v, {"frozen", "destinationMode", "now"})
    BY <1>0, <2>3, FrameGrows, IdleFields DEF Idle
  <2>5. Pulls(kind, v)
    BY <1>2, <2>2, <2>4
  <2> QED
    BY <2>5
<1>5. CASE Assets!ADVANCE_TIME
  <2> DEFINE v == [w EXCEPT !.now = w.now + 1]
  <2>1. Assets!Lever("ADVANCE_TIME", v)
    BY <1>5 DEF Assets!ADVANCE_TIME
  <2>2. Frame(w, v, {"now"}) /\ v.now = w.now + 1
    BY <1>0 DEF World, Frame, WorldFields
  <2> HIDE DEF v
  <2>3. World(v)
    <3>1. Frame(w, v, {"now"}) /\ v.now \in Nat /\ v.now > 0
      BY <1>0, <2>2 DEF World
    <3> HIDE DEF w
    <3> QED
      BY <1>0, <3>1 DEF World, Frame, WorldFields
  <2>4. Frame(w, v, {"frozen", "destinationMode", "now"})
    BY <2>2, FrameGrows
  <2>5. Pulls("ADVANCE_TIME", v)
    BY <1>2, <2>1, <2>3, <2>4
  <2> QED
    BY <2>5
<1> QED
  BY <1>3, <1>4, <1>5

LEMMA LeverKeeps ==
    ASSUME AssetInv, NEW kind, NEW v, Pulls(kind, v)
    PROVE  AssetInv'
BY DEF Pulls, Assets!Lever, AssetInv

LEMMA GenesisWorld == World(Assets!deployGen2World)
<1> DEFINE w == Assets!deployGen2World
<1>1. w = [x \in WorldFields |-> w[x]]
  BY DEF Assets!deployGen2World, WorldFields
<1>2. /\ w.now = 1 /\ w.boundAt = 0 /\ w.safeState = "NORMAL" /\ w.supply = 2
      /\ w.nonces = [spend |-> 0, credential |-> 0, guardian |-> 0, migration |-> 0]
      /\ w.asset = [vault |-> 2, recipient |-> 0, destination |-> 0, sink |-> 0]
      /\ w.native = [vault |-> 2, destination |-> 0] /\ w.other = [vault |-> 0, destination |-> 0]
      /\ w.poison = [kind |-> "none", balance |-> 0] /\ w.hook = Assets!NoHook
      /\ w.log = Assets!Quiet
  BY DEF Assets!deployGen2World, Assets!None
<1> HIDE DEF w
<1>3. Logs(w.log)
  BY <1>2 DEF Logs, LogFields, Assets!Quiet, Assets!None
<1>4. w.hook.kind = "none"
  BY <1>2 DEF Assets!NoHook, Assets!None
<1>5. w.asset \in [Holders -> Nat] /\ Balanced(w.asset, w.supply)
  BY <1>2 DEF Holders, Balanced
<1>6. /\ w.nonces \in [Authorities -> Nat] /\ w.native \in [{"vault", "destination"} -> Nat]
      /\ w.other \in [{"vault", "destination"} -> Nat]
  BY <1>2 DEF Authorities
<1>7. w.poison.balance \in Nat /\ w.poison.kind # "lies"
  BY <1>2
<1>8. World(w)
  BY <1>1, <1>2, <1>3, <1>4, <1>5, <1>6, <1>7 DEF World
<1> QED
  BY <1>8 DEF w

\* World holds of every chain that a campaign of generation 2 reaches.
THEOREM AssetWorld == Spec => []AssetInv
<1>1. Init => AssetInv
  BY GenesisWorld DEF Init, Assets!Init, AssetInv
<1>2. AssetInv /\ [Next]_<<part, campaign, assets>> => AssetInv'
  <2> SUFFICES ASSUME AssetInv, [Next]_<<part, campaign, assets>>
               PROVE  AssetInv'
    OBVIOUS
  <2>1. CASE UNCHANGED assets
    BY <2>1 DEF assets, AssetInv
  <2>2. CASE Assets!Next
    BY <2>2, CallActionsMake, CallActionsKeep, ReplaysKeep, BalanceLevers, OtherLevers,
       LeverKeeps DEF Assets!Next, AssetInv
  <2> QED
    BY <2>1, <2>2 DEF Next
<1> QED
  BY <1>1, <1>2, PTL DEF Spec

-----------------------------------------------------------------------------
(* The exit *)

\* A bound and matured vault whose token, destination and other holdings behave.
Open(w) ==
    /\ World(w) /\ Assets!Matured(w)
    /\ w.mode = "VANILLA" /\ w.poison.kind = "none" /\ w.hook.kind = "none" /\ w.frozen = {}
    /\ w.hostility = 0 /\ w.destinationMode = "ACCEPT"

LEMMA StaysOpen ==
    ASSUME NEW w, Open(w), NEW v, World(v),
           Frame(w, v, {"asset", "native", "other", "log", "poison"}), v.poison = w.poison
    PROVE  Open(v)
BY DEF Open, Frame, WorldFields, Assets!Matured

LEMMA OtherLeaves ==
    ASSUME NEW w, Open(w)
    PROVE  /\ Assets!EgressOther(w).ok = TRUE /\ Assets!EgressOther(w).w.other.vault = 0
           /\ Open(Assets!EgressOther(w).w)
           /\ Frame(w, Assets!EgressOther(w).w, {"other", "log"})
<1> DEFINE lost == w.other.vault
           v == [w EXCEPT !.other = [vault |-> 0, destination |-> w.other.destination + lost]]
           r == Assets!EgressOther(w)
<1>0. World(w) /\ w.hostility = 0 /\ lost \in Nat /\ w.other.destination + lost \in Nat
  BY DEF Open, World
<1>1. IF lost = 0 THEN r = Assets!Published(w, 0) ELSE r = Assets!Published(v, lost)
  BY <1>0 DEF Assets!EgressOther
<1>2. World(r.w) /\ Frame(w, r.w, {"other", "log"})
  BY <1>0, EgressesOther
<1>3. /\ Frame(w, v, {"other"})
      /\ v.other = [vault |-> 0, destination |-> w.other.destination + lost]
  BY <1>0 DEF World, Frame, WorldFields
<1>4. v.other \in [{"vault", "destination"} -> Nat] /\ v.other.vault = 0
  <2> DEFINE b == w.other.destination + lost
  <2>1. b \in Nat
    BY <1>0
  <2> HIDE DEF b
  <2>2. [vault |-> 0, destination |-> b] \in [{"vault", "destination"} -> Nat]
    BY <2>1
  <2> QED
    BY <1>3, <2>2 DEF b
<1> HIDE DEF v, r
<1>5. World(v)
  BY <1>0, <1>3, <1>4 DEF World, Frame, WorldFields
<1>6. CASE lost = 0
  <2>1. r.ok = TRUE /\ Frame(w, r.w, {"log"})
    BY <1>0, <1>1, <1>6, Publishes
  <2>2. r.w.other = w.other
    BY <2>1 DEF Frame, WorldFields
  <2> QED
    BY <1>6, <2>1, <2>2, <1>2, FrameGrows, StaysOpen DEF r, Frame, WorldFields
<1>7. CASE lost # 0
  <2>1. r.ok = TRUE /\ Frame(v, r.w, {"log"})
    BY <1>0, <1>1, <1>5, <1>7, Publishes
  <2>2. r.w.other.vault = 0
    BY <1>4, <2>1 DEF Frame, WorldFields
  <2> QED
    BY <2>1, <2>2, <1>2, FrameGrows, StaysOpen DEF r, Frame, WorldFields
<1> QED
  BY <1>6, <1>7

LEMMA NativeLeaves ==
    ASSUME NEW w, Open(w)
    PROVE  /\ Assets!EgressNative(w).ok = TRUE /\ Assets!EgressNative(w).w.native.vault = 0
           /\ Open(Assets!EgressNative(w).w)
           /\ Frame(w, Assets!EgressNative(w).w, {"native", "log"})
<1> DEFINE held == w.native.vault
           v == [w EXCEPT !.native = [vault |-> held - held,
                                      destination |-> w.native.destination + held]]
           r == Assets!EgressNative(w)
<1>0. /\ World(w) /\ w.destinationMode = "ACCEPT" /\ held \in Nat
      /\ held - held = 0 /\ w.native.destination + held \in Nat
  BY DEF Open, World
<1>1. IF held = 0 THEN r = Assets!Published(w, 0) ELSE r = Assets!Published(v, held)
  BY <1>0 DEF Assets!EgressNative, Assets!Kept
<1>2. World(r.w) /\ Frame(w, r.w, {"native", "log"})
  BY <1>0, EgressesNative
<1>3. /\ Frame(w, v, {"native"})
      /\ v.native = [vault |-> held - held, destination |-> w.native.destination + held]
  BY <1>0 DEF World, Frame, WorldFields
<1>4. v.native \in [{"vault", "destination"} -> Nat] /\ v.native.vault = 0
  <2> DEFINE a == held - held
             b == w.native.destination + held
  <2>1. a \in Nat /\ b \in Nat
    BY <1>0
  <2> HIDE DEF a, b
  <2>2. [vault |-> a, destination |-> b] \in [{"vault", "destination"} -> Nat]
    BY <2>1
  <2> QED
    BY <1>0, <1>3, <2>2 DEF a, b
<1> HIDE DEF v, r
<1>5. World(v)
  BY <1>0, <1>3, <1>4 DEF World, Frame, WorldFields
<1>6. CASE held = 0
  <2>1. r.ok = TRUE /\ Frame(w, r.w, {"log"})
    BY <1>0, <1>1, <1>6, Publishes
  <2>2. r.w.native = w.native
    BY <2>1 DEF Frame, WorldFields
  <2> QED
    BY <1>6, <2>1, <2>2, <1>2, FrameGrows, StaysOpen DEF r, Frame, WorldFields
<1>7. CASE held # 0
  <2>1. r.ok = TRUE /\ Frame(v, r.w, {"log"})
    BY <1>0, <1>1, <1>5, <1>7, Publishes
  <2>2. r.w.native.vault = 0
    BY <1>4, <2>1 DEF Frame, WorldFields
  <2> QED
    BY <2>1, <2>2, <1>2, FrameGrows, StaysOpen DEF r, Frame, WorldFields
<1> QED
  BY <1>6, <1>7

\* The token that behaves gives up everything it holds for the vault.
LEMMA TokenTaken ==
    ASSUME NEW w, Open(w), NEW held, held = w.asset.vault
    PROVE  LET r == Assets!Transfer(w, "destination", held) IN
           r.ok = TRUE /\ World(r.w) /\ r.w.asset.vault = 0
           /\ r.w.poison = w.poison /\ Frame(w, r.w, {"asset", "log", "poison"})
<1> DEFINE v == [w EXCEPT !.log.transfers = w.log.transfers + 1]
           r == Assets!Transfer(w, "destination", held)
<1>0. /\ World(w) /\ w.mode = "VANILLA" /\ w.hook.kind = "none" /\ w.frozen = {}
      /\ w.asset \in [Holders -> Nat] /\ held \in Nat
  BY DEF Open, World, Holders
<1>1. World(v) /\ Frame(w, v, {"log"})
  BY <1>0, OneMoreTransfer
<1>2. r = Assets!Left(Assets!Moved(Assets!Entered(v), "destination", held))
  BY <1>0 DEF Assets!Transfer
<1> HIDE DEF v, r
<1>3. v.mode = "VANILLA" /\ v.hook.kind = "none" /\ v.asset = w.asset /\ v.poison = w.poison
  BY <1>0, <1>1 DEF Frame, WorldFields
<1>4. Assets!Entered(v) = v
  BY <1>3 DEF Assets!Entered, Assets!None
<1> DEFINE kept == Assets!Settled(v.asset, "destination", held, held)
           u == [v EXCEPT !.asset = kept]
<1>5. Assets!Debit("VANILLA", held) = held /\ Assets!Credit("VANILLA", held) = held
  BY DEF Assets!Debit, Assets!Credit
<1>6. Assets!Moved(v, "destination", held) = Assets!Done(u)
  <2>1. ~(v.asset.vault < held)
    BY <1>0, <1>3
  <2> QED
    BY <1>3, <1>5, <2>1 DEF Assets!Moved, Assets!NoMove, Assets!QueryFails
<1>7. Paid(v.asset, kept, "destination", held, held)
  BY <1>0, <1>3, SettledPays DEF Payees
<1>8. kept["vault"] = 0 /\ kept \in [Holders -> Nat] /\ Balanced(kept, v.supply)
  <2>1. v.asset["vault"] = held /\ held \in Nat
    BY <1>0, <1>3
  <2>2. kept["vault"] = 0
    BY <1>7, <2>1 DEF Paid, Holders
  <2>3. kept \in [Holders -> Nat] /\ v.asset \in [Holders -> Nat] /\ Balanced(v.asset, v.supply)
    BY <1>0, <1>1, <1>3, <1>7 DEF Paid, World
  <2> HIDE DEF kept
  <2> QED
    BY <1>0, <1>7, <2>2, <2>3, PaidKeepsTotal DEF Payees
<1> HIDE DEF kept
<1>9. Frame(v, u, {"asset"}) /\ u.asset = kept
  BY <1>1 DEF World, Frame, WorldFields
<1> HIDE DEF u
<1>10. World(u) /\ u.hook.kind = "none" /\ u.poison = w.poison /\ u.asset.vault = 0
  BY <1>1, <1>3, <1>8, <1>9 DEF World, Frame, WorldFields
<1>11. Assets!Left(Assets!Done(u)) = Assets!Done(u)
  BY <1>10, Outcomes DEF Assets!Left, Assets!None
<1>12. r.w = u /\ r.ok = TRUE
  <2>1. r = Assets!Done(u)
    BY <1>2, <1>4, <1>6, <1>11
  <2> QED
    BY <2>1, Outcomes
<1>13. Frame(w, u, {"log"} \cup {"asset"})
  BY <1>1, <1>9, FramesJoin
<1>14. Frame(w, u, {"asset", "log", "poison"})
  BY <1>13, FrameGrows
<1>15. /\ r.ok = TRUE /\ World(r.w) /\ r.w.asset.vault = 0
       /\ r.w.poison = w.poison /\ Frame(w, r.w, {"asset", "log", "poison"})
  BY <1>10, <1>12, <1>14
<1> QED
  BY <1>15 DEF r

LEMMA TokenLeaves ==
    ASSUME NEW w, Open(w)
    PROVE  LET r == Assets!EgressToken(w, Assets!Transfer(w, "destination", Assets!balanceOf(w)))
           IN  r.ok = TRUE /\ r.w.asset.vault = 0
               /\ Frame(w, r.w, {"asset", "log", "poison"})
<1> DEFINE held == w.asset.vault
           t == Assets!Transfer(w, "destination", held)
           r == Assets!EgressToken(w, t)
<1>0. /\ World(w) /\ w.poison.kind = "none" /\ held \in Nat
  BY DEF Open, World, Holders
<1>1. Assets!balanceOf(w) = held /\ ~Assets!BalanceFails(w)
  BY <1>0 DEF Assets!balanceOf, Assets!BalanceFails
<1>2. /\ t.ok = TRUE /\ World(t.w) /\ t.w.asset.vault = 0 /\ t.w.poison = w.poison
      /\ Frame(w, t.w, {"asset", "log", "poison"})
  BY TokenTaken
<1> HIDE DEF t
<1>3. Assets!balanceOf(t.w) = 0 /\ ~Assets!BalanceFails(t.w)
  BY <1>0, <1>2 DEF Assets!balanceOf, Assets!BalanceFails
<1> DEFINE p == Assets!Published(w, 0)
           q == Assets!Published(t.w, held)
<1>4. IF held = 0 THEN r = p ELSE r = q
  <2>1. held # 0 => 0 < held /\ held - 0 = held
    BY <1>0
  <2> HIDE DEF held
  <2> QED
    BY <1>1, <1>2, <1>3, <2>1 DEF Assets!EgressToken, Assets!Emptied
<1>5. p.ok = TRUE /\ Frame(w, p.w, {"log"})
  BY <1>0, Publishes
<1>6. q.ok = TRUE /\ Frame(t.w, q.w, {"log"})
  BY <1>0, <1>2, Publishes
<1> HIDE DEF p, q, r
<1>7. CASE held = 0
  <2>1. r = p
    BY <1>4, <1>7
  <2>2. r.w.asset = w.asset
    BY <1>5, <2>1 DEF Frame, WorldFields
  <2> QED
    BY <1>5, <1>7, <2>1, <2>2, <1>1, FrameGrows DEF r, t
<1>8. CASE held # 0
  <2>1. r = q
    BY <1>4, <1>8
  <2>2. r.w.asset = t.w.asset
    BY <1>6, <2>1 DEF Frame, WorldFields
  <2>3. Frame(w, r.w, {"asset", "log", "poison"} \cup {"log"})
    BY <1>2, <1>6, <2>1, FramesJoin
  <2>4. Frame(w, r.w, {"asset", "log", "poison"})
    BY <2>3, FrameGrows
  <2> QED
    BY <1>2, <1>6, <2>1, <2>2, <2>4, <1>1 DEF r, t
<1> QED
  BY <1>7, <1>8

LEMMA RestoredIsOpen ==
    ASSUME World(aChain), aChain.boundAt # 0, AssetBindDelay \in Nat
    PROVE  Open(Assets!Restored)
<1> DEFINE w == aChain
           due == w.boundAt + AssetBindDelay
           later == IF w.boundAt # 0 /\ due > w.now THEN due ELSE w.now
           p == [kind |-> Assets!None, balance |-> 0]
           v == [w EXCEPT !.mode = "VANILLA", !.poison = p, !.hook = Assets!NoHook, !.frozen = {},
                          !.hostility = 0, !.destinationMode = "ACCEPT", !.now = later]
<1>1. Assets!Restored = v
  BY DEF Assets!Restored
<1>2. /\ w.now \in Nat /\ w.now > 0 /\ w.boundAt \in Nat /\ w.boundAt # 0
  BY DEF World
<1>3. later \in Nat /\ later > 0 /\ later >= w.boundAt + AssetBindDelay
  <2>1. due \in Nat
    BY <1>2
  <2> HIDE DEF w, due
  <2> QED
    BY <1>2, <2>1 DEF due
<1>4. p.kind = "none" /\ p.balance = 0 /\ Assets!NoHook.kind = "none"
  BY DEF Assets!None, Assets!NoHook
<1> HIDE DEF later, p
<1>5. /\ Frame(w, v, {"mode", "poison", "hook", "frozen", "hostility", "destinationMode", "now"})
      /\ v.mode = "VANILLA" /\ v.poison = p /\ v.hook = Assets!NoHook /\ v.frozen = {}
      /\ v.hostility = 0 /\ v.destinationMode = "ACCEPT" /\ v.now = later
  BY DEF World, Frame, WorldFields
<1> HIDE DEF v
<1>6. World(v)
  <2>1. World(w)
    OBVIOUS
  <2> HIDE DEF w
  <2>2. v.poison.balance \in Nat /\ v.poison.kind # "lies" /\ v.hook.kind = "none"
    BY <1>4, <1>5
  <2>3. v.now \in Nat /\ v.now > 0
    BY <1>3, <1>5
  <2>4. Frame(w, v, {"mode", "poison", "hook", "frozen", "hostility", "destinationMode", "now"})
    BY <1>5
  <2> QED
    BY <2>1, <2>2, <2>3, <2>4 DEF World, Frame, WorldFields
<1>7. v.boundAt = w.boundAt
  BY <1>5 DEF Frame, WorldFields
<1>8. Assets!Matured(v)
  BY <1>2, <1>3, <1>5, <1>7 DEF Assets!Matured
<1>9. Open(v)
  BY <1>4, <1>5, <1>6, <1>8 DEF Open
<1> QED
  BY <1>1, <1>9

\* From an open vault three calls of anybody take every holding out.
LEMMA EverythingLeaves ==
    ASSUME NEW w, Open(w)
    PROVE  LET unsolicited == Assets!Exec(w, [kind |-> "EGRESS_OTHER"])
               native == Assets!Exec(unsolicited.w, [kind |-> "EGRESS_NATIVE"])
               admitted == Assets!Exec(native.w, [kind |-> "EGRESS_TOKEN"])
           IN  /\ unsolicited.ok /\ native.ok /\ admitted.ok
               /\ admitted.w.asset.vault = 0 /\ admitted.w.native.vault = 0
               /\ admitted.w.other.vault = 0
<1> DEFINE a == Assets!Exec(w, [kind |-> "EGRESS_OTHER"])
           b == Assets!Exec(a.w, [kind |-> "EGRESS_NATIVE"])
           c == Assets!Exec(b.w, [kind |-> "EGRESS_TOKEN"])
<1>1. a = Assets!EgressOther(w)
  BY DEF Assets!Exec, Assets!Call, Assets!Egresses, Assets!Egress, Open
<1>2. a.ok = TRUE /\ a.w.other.vault = 0 /\ Open(a.w)
  BY <1>1, OtherLeaves
<1> HIDE DEF a
<1>3. b = Assets!EgressNative(a.w)
  BY <1>2 DEF Assets!Exec, Assets!Call, Assets!Egresses, Assets!Egress, Open
<1>4. /\ b.ok = TRUE /\ b.w.native.vault = 0 /\ Open(b.w)
      /\ Frame(a.w, b.w, {"native", "log"})
  BY <1>2, <1>3, NativeLeaves
<1> HIDE DEF b
<1>5. c = Assets!EgressToken(b.w, Assets!Transfer(b.w, "destination", Assets!balanceOf(b.w)))
  BY <1>4 DEF Assets!Exec, Assets!Call, Assets!Egresses, Assets!Egress, Open
<1>6. /\ c.ok = TRUE /\ c.w.asset.vault = 0 /\ Frame(b.w, c.w, {"asset", "log", "poison"})
  BY <1>4, <1>5, TokenLeaves
<1> HIDE DEF c
<1>7. c.w.native = b.w.native /\ c.w.other = b.w.other /\ b.w.other = a.w.other
  BY <1>4, <1>6 DEF Frame, WorldFields
<1>8. /\ a.ok /\ b.ok /\ c.ok /\ c.w.asset.vault = 0 /\ c.w.native.vault = 0
      /\ c.w.other.vault = 0
  BY <1>2, <1>4, <1>6, <1>7
<1> QED
  BY <1>8 DEF a, b, c

\* Whatever the token did, from a binding a stranger takes every holding to the
\* destination (generation-2/stateful/campaign.ts:890-925).
THEOREM ExitStaysReachable == Spec => []ExitReachable
<1>1. AssetInv => ExitReachable
  <2>1. ASSUME AssetInv, aChain.boundAt # 0
        PROVE  Open(Assets!Restored)
    BY <2>1, RestoredIsOpen, AssetsAssumption DEF AssetInv
  <2>2. AssetInv => Assets!ExitReachable
    BY <2>1, EverythingLeaves DEF Assets!ExitReachable
  <2> QED
    BY <2>2 DEF ExitReachable
<1> QED
  BY <1>1, AssetWorld, PTL

-----------------------------------------------------------------------------
(* What the call that a hook makes may change                              *)

Tame(w) == w.mode \in Exact /\ w.poison.kind = "none"

\* No nonce comes back, and no transfer is taken back.
Onward(w, v) ==
    /\ \A key \in Authorities : v.nonces[key] >= w.nonces[key]
    /\ v.log.transfers >= w.log.transfers

\* Only a binding binds, and only once.
Binds(w, v, c) ==
    \/ v.boundAt = w.boundAt
    \/ w.boundAt = 0 /\ v.boundAt = w.now /\ c.kind = "BIND_MIGRATION" /\ c.signed /\ c.quorum

\* Only a containment contains.
Contains(w, v, c) ==
    v.safeState = "CONTAINED" =>
        w.safeState = "CONTAINED" \/ (c.kind = "ENTER_CONTAINMENT" /\ c.quorum)

\* The admitted asset moves by a spend, or by an egress once it is due.
MovesAsset(w, v, c) ==
    \/ v.asset = w.asset /\ v.log.published = w.log.published
    \/ c.kind = "SPEND" /\ Assets!MaySpend(w, c) /\ v.log.published = w.log.published
    \/ c.kind = "EGRESS_TOKEN" /\ Assets!Matured(w) /\ v.asset["vault"] < w.asset["vault"]

NestedFields ==
    {"nonces", "asset", "poison", "log", "boundAt", "safeState", "containedUntil"}

HookCalls ==
    {"NONCES", "SPEND", "EGRESS_TOKEN", "ENTER_CONTAINMENT", "BIND_MIGRATION", "RETIRE"}

Effect(w, c, v) ==
    /\ World(v) /\ Frame(w, v, NestedFields) /\ v.poison = w.poison
    /\ Onward(w, v) /\ Binds(w, v, c) /\ Contains(w, v, c) /\ MovesAsset(w, v, c)

NestedEffect(w, c, r) ==
    /\ r.ok \in BOOLEAN /\ (~r.ok => r.w = w) /\ Effect(w, c, r.w)
    /\ r.ok /\ c.kind = "SPEND" => Assets!MaySpend(w, c)

LEMMA NothingGrown ==
    ASSUME NEW w, World(w)
    PROVE  Onward(w, w)
BY DEF World, Onward, Logs

LEMMA NoEffect ==
    ASSUME NEW w, World(w), NEW c
    PROVE  Effect(w, c, w)
<1>1. Frame(w, w, NestedFields)
  BY DEF World, Frame
<1> QED
  BY <1>1, NothingGrown DEF Effect, Binds, Contains, MovesAsset

LEMMA RefusedNests ==
    ASSUME NEW w, World(w), NEW c, NEW r, r = Assets!Refused(w)
    PROVE  NestedEffect(w, c, r)
<1>1. r.w = w /\ r.ok = FALSE
  BY Outcomes
<1>2. Effect(w, c, r.w)
  BY <1>1, NoEffect
<1> QED
  BY <1>1, <1>2 DEF NestedEffect

\* A transfer by a token that calls nobody.
LEMMA PlainEffects ==
    ASSUME NEW w, World(w), NEW to \in Payees, NEW amount \in Nat
    PROVE  LET r == Assets!PlainTransfer(w, to, amount) IN
           /\ World(r.w) /\ r.ok \in BOOLEAN /\ Frame(w, r.w, {"asset", "poison", "log"})
           /\ (w.mode \in Exact => r.w.poison = w.poison)
           /\ SameLog(w, r.w, {"transfers"}) /\ r.w.log.transfers >= w.log.transfers
<1> DEFINE v == [w EXCEPT !.log.transfers = w.log.transfers + 1]
           m == Assets!Moved(v, to, amount)
           r == Assets!PlainTransfer(w, to, amount)
<1>1. /\ World(v) /\ Frame(w, v, {"log"}) /\ SameLog(w, v, {"transfers"})
      /\ v.log.transfers = w.log.transfers + 1
  BY OneMoreTransfer
<1>2. w.log.transfers \in Nat
  BY DEF World, Logs
<1>3. v.log.transfers >= w.log.transfers /\ w.log.transfers >= w.log.transfers
  BY <1>1, <1>2
<1>4. IF w.frozen \cap {"vault", to} # {} \/ w.mode = "REVERTS" THEN r = Assets!Refused(w)
      ELSE r = m
  BY DEF Assets!PlainTransfer
<1> HIDE DEF v
<1>5. Moves(v, m, to, amount)
  BY <1>1, TransferMoves
<1>6. CASE r = Assets!Refused(w)
  <2> HIDE DEF r
  <2>1. r.w = w /\ r.ok = FALSE
    BY <1>6, Outcomes
  <2>2. Frame(w, w, {"asset", "poison", "log"}) /\ SameLog(w, w, {"transfers"})
    BY DEF World, Frame, SameLog
  <2>3. r.ok \in BOOLEAN
    BY <2>1
  <2>4. /\ World(r.w) /\ Frame(w, r.w, {"asset", "poison", "log"}) /\ r.w.poison = w.poison
        /\ SameLog(w, r.w, {"transfers"}) /\ r.w.log.transfers >= w.log.transfers
    BY <1>3, <2>1, <2>2
  <2> QED
    BY <2>3, <2>4 DEF r
<1>7. CASE r = m
  <2> HIDE DEF r, m
  <2>1. /\ World(r.w) /\ Frame(v, r.w, {"asset", "poison"}) /\ r.ok \in BOOLEAN
        /\ (v.mode \in Exact => r.w.poison = v.poison)
    BY <1>5, <1>7 DEF Moves
  <2>2. Frame(w, r.w, {"log"} \cup {"asset", "poison"})
    BY <1>1, <2>1, FramesJoin
  <2>3. Frame(w, r.w, {"asset", "poison", "log"})
    BY <2>2, FrameGrows
  <2>4. r.w.log = v.log /\ v.mode = w.mode /\ v.poison = w.poison
    BY <1>1, <2>1 DEF Frame, WorldFields
  <2>5. SameLog(w, r.w, {"transfers"}) /\ r.w.log.transfers >= w.log.transfers
    BY <1>1, <1>3, <2>4 DEF SameLog
  <2> QED
    BY <2>1, <2>3, <2>4, <2>5 DEF r
<1> QED
  BY <1>4, <1>6, <1>7

\* The spend's own nonce is spent before its token runs.
LEMMA NonceOnSpend ==
    ASSUME NEW w, World(w), NEW nonce \in Nat
    PROVE  LET v == Assets!SpendNonce(w, nonce) IN
           /\ v.nonces["spend"] = nonce + 1
           /\ \A key \in Authorities \ {"spend"} : v.nonces[key] = w.nonces[key]
<1> DEFINE n == [w.nonces EXCEPT !["spend"] = nonce + 1]
           v == Assets!SpendNonce(w, nonce)
<1>1. v.nonces = n
  BY DEF World, WorldFields, Assets!SpendNonce
<1>2. n["spend"] = nonce + 1 /\ \A key \in Authorities \ {"spend"} : n[key] = w.nonces[key]
  BY DEF World, Authorities
<1> HIDE DEF n, v
<1>3. /\ v.nonces["spend"] = nonce + 1
      /\ \A key \in Authorities \ {"spend"} : v.nonces[key] = w.nonces[key]
  BY <1>1, <1>2
<1> QED
  BY <1>3 DEF v

\* A tame token answers with what it has.
LEMMA TameBalance ==
    ASSUME NEW w, w.poison.kind = "none"
    PROVE  Assets!balanceOf(w) = w.asset["vault"] /\ ~Assets!BalanceFails(w)
BY DEF Assets!balanceOf, Assets!BalanceFails

LEMMA SpendNests ==
    ASSUME NEW w, World(w), Tame(w), NEW c, Sendable(c), c.kind = "SPEND"
    PROVE  NestedEffect(w, c, Assets!Nested(w, c))
<1> DEFINE v == Assets!SpendNonce(w, c.nonce)
           paid == Assets!PlainTransfer(v, c.to, c.amount)
           r == Assets!Nested(w, c)
<1>0. c.amount \in Nat /\ c.to \in Payees /\ c.nonce \in Nat
  BY DEF Sendable, Payees
<1>1. \/ r = Assets!Refused(w)
      \/ Assets!MaySpend(w, c) /\ r = Assets!Done(paid.w)
  <2>1. r = Assets!Spend(w, c, paid)
    BY DEF Assets!Nested, Assets!Call, Assets!Egresses
  <2> HIDE DEF r, paid
  <2> QED
    BY <2>1 DEF Assets!Spend, Assets!Exactly
<1>2. CASE r = Assets!Refused(w)
  BY <1>2, RefusedNests
<1>3. CASE Assets!MaySpend(w, c) /\ r = Assets!Done(paid.w)
  <2>1. /\ World(v) /\ Frame(w, v, {"nonces"}) /\ v.nonces["spend"] = c.nonce + 1
        /\ \A key \in Authorities \ {"spend"} : v.nonces[key] = w.nonces[key]
    BY <1>0, OtherNonces, NonceOnSpend
  <2> HIDE DEF v
  <2>2. /\ World(paid.w) /\ Frame(v, paid.w, {"asset", "poison", "log"})
        /\ (v.mode \in Exact => paid.w.poison = v.poison)
        /\ SameLog(v, paid.w, {"transfers"}) /\ paid.w.log.transfers >= v.log.transfers
    BY <1>0, <2>1, PlainEffects
  <2> HIDE DEF paid, r
  <2>3. r.w = paid.w /\ r.ok = TRUE
    BY <1>3, Outcomes
  <2>4. /\ v.log = w.log /\ v.mode = w.mode /\ v.poison = w.poison
        /\ paid.w.nonces = v.nonces /\ paid.w.boundAt = w.boundAt
        /\ paid.w.safeState = w.safeState
    BY <2>1, <2>2 DEF Frame, WorldFields
  <2>5. Frame(w, paid.w, NestedFields)
    <3>1. Frame(w, paid.w, {"nonces"} \cup {"asset", "poison", "log"})
      BY <2>1, <2>2, FramesJoin
    <3> QED
      BY <3>1, FrameGrows DEF NestedFields
  <2>6. Onward(w, paid.w)
    <3>1. w.nonces["spend"] = c.nonce /\ w.nonces \in [Authorities -> Nat]
      BY <1>3 DEF Assets!MaySpend, Assets!Authorised, World
    <3>2. \A key \in Authorities : v.nonces[key] >= w.nonces[key]
      BY <1>0, <2>1, <3>1
    <3> QED
      BY <2>2, <2>4, <3>2 DEF Onward
  <2>7. paid.w.poison = w.poison /\ paid.w.log.published = w.log.published
    BY <2>2, <2>4 DEF Tame, SameLog, LogFields
  <2>8. Effect(w, c, paid.w)
    BY <1>3, <2>2, <2>4, <2>5, <2>6, <2>7 DEF Effect, Binds, Contains, MovesAsset
  <2>9. r.ok \in BOOLEAN /\ r.ok
    BY <2>3
  <2>10. Effect(w, c, r.w)
    BY <2>3, <2>8
  <2>11. NestedEffect(w, c, r)
    BY <1>3, <2>9, <2>10 DEF NestedEffect
  <2> QED
    BY <2>11 DEF r
<1> QED
  BY <1>1, <1>2, <1>3

LEMMA EgressNests ==
    ASSUME NEW w, World(w), Tame(w), NEW c, c.kind = "EGRESS_TOKEN"
    PROVE  NestedEffect(w, c, Assets!Nested(w, c))
<1> DEFINE held == w.asset["vault"]
           paid == Assets!PlainTransfer(w, "destination", Assets!balanceOf(w))
           left == held - paid.w.asset["vault"]
           r == Assets!Nested(w, c)
           p == Assets!Published(w, 0)
           q == Assets!Published(paid.w, left)
<1>0. Assets!balanceOf(w) = held /\ ~Assets!BalanceFails(w) /\ held \in Nat
  BY TameBalance DEF Tame, World, Holders
<1>1. /\ World(paid.w) /\ Frame(w, paid.w, {"asset", "poison", "log"})
      /\ paid.w.poison = w.poison
      /\ SameLog(w, paid.w, {"transfers"}) /\ paid.w.log.transfers >= w.log.transfers
  BY <1>0, PlainEffects DEF Tame, Payees
<1>2. Assets!balanceOf(paid.w) = paid.w.asset["vault"] /\ paid.w.asset["vault"] \in Nat
  BY <1>1, TameBalance DEF Tame, World, Holders
<1>3. \/ r = Assets!Refused(w)
      \/ Assets!Matured(w) /\ r = p
      \/ Assets!Matured(w) /\ paid.w.asset["vault"] < held /\ r = q
  BY <1>0, <1>2 DEF Assets!Nested, Assets!Call, Assets!Egresses, Assets!Egress,
                    Assets!EgressToken, Assets!Emptied
<1>4. CASE r = Assets!Refused(w)
  BY <1>4, RefusedNests
<1>5. CASE Assets!Matured(w) /\ r = p
  <2> HIDE DEF r
  <2>1. /\ World(p.w) /\ p.ok = TRUE /\ Frame(w, p.w, {"log"})
        /\ p.w.log.published = w.log.published + 0 /\ SameLog(w, p.w, {"published"})
    BY Publishes
  <2> HIDE DEF p
  <2>2. /\ p.w.nonces = w.nonces /\ p.w.boundAt = w.boundAt /\ p.w.safeState = w.safeState
        /\ p.w.asset = w.asset /\ p.w.poison = w.poison
    BY <2>1 DEF Frame, WorldFields
  <2>3. p.w.log.transfers = w.log.transfers
    BY <2>1 DEF SameLog, LogFields
  <2>4. p.w.log.published = w.log.published
    BY <2>1 DEF World, Logs
  <2>5. Onward(w, p.w)
    BY <2>2, <2>3, NothingGrown DEF Onward
  <2>6. Frame(w, p.w, NestedFields)
    BY <2>1, FrameGrows DEF NestedFields
  <2>7. Effect(w, c, p.w)
    BY <2>1, <2>2, <2>4, <2>5, <2>6 DEF Effect, Binds, Contains, MovesAsset
  <2>8. r.ok \in BOOLEAN /\ r.ok /\ Effect(w, c, r.w)
    BY <1>5, <2>1, <2>7
  <2>9. NestedEffect(w, c, r)
    BY <2>8 DEF NestedEffect
  <2> QED
    BY <2>9 DEF r
<1>6. CASE Assets!Matured(w) /\ paid.w.asset["vault"] < held /\ r = q
  <2> HIDE DEF r, paid
  <2>0. left \in Nat
    BY <1>0, <1>2, <1>6
  <2> HIDE DEF left
  <2>1. /\ World(q.w) /\ q.ok = TRUE /\ Frame(paid.w, q.w, {"log"})
        /\ SameLog(paid.w, q.w, {"published"})
    BY <1>1, <2>0, Publishes
  <2> HIDE DEF q
  <2>2. /\ q.w.nonces = w.nonces /\ q.w.boundAt = w.boundAt /\ q.w.safeState = w.safeState
        /\ q.w.asset = paid.w.asset /\ q.w.poison = w.poison
    BY <1>1, <2>1 DEF Frame, WorldFields
  <2>3. q.w.log.transfers >= w.log.transfers
    BY <1>1, <2>1 DEF SameLog, LogFields
  <2>5. Onward(w, q.w)
    BY <2>2, <2>3, NothingGrown DEF Onward
  <2>6. Frame(w, q.w, NestedFields)
    <3>1. Frame(w, q.w, {"asset", "poison", "log"} \cup {"log"})
      BY <1>1, <2>1, FramesJoin
    <3> QED
      BY <3>1, FrameGrows DEF NestedFields
  <2>7. q.w.asset["vault"] < w.asset["vault"]
    BY <1>6, <2>2
  <2>8. Effect(w, c, q.w)
    BY <1>6, <2>1, <2>2, <2>5, <2>6, <2>7 DEF Effect, Binds, Contains, MovesAsset
  <2>9. r.ok \in BOOLEAN /\ r.ok /\ Effect(w, c, r.w)
    BY <1>6, <2>1, <2>8
  <2>10. NestedEffect(w, c, r)
    BY <2>9 DEF NestedEffect
  <2> QED
    BY <2>10 DEF r
<1> QED
  BY <1>3, <1>4, <1>5, <1>6

LEMMA OthersNest ==
    ASSUME NEW w, World(w), NEW c,
           c.kind \in {"NONCES", "ENTER_CONTAINMENT", "BIND_MIGRATION", "RETIRE"}
    PROVE  NestedEffect(w, c, Assets!Nested(w, c))
<1> DEFINE r == Assets!Nested(w, c)
<1>0. /\ w = [x \in WorldFields |-> w[x]] /\ w.log.transfers >= w.log.transfers
      /\ w.now > 0
  BY DEF World, Logs
<1>1. CASE c.kind = "NONCES"
  <2>1. r = Assets!Done(w)
    BY <1>1 DEF Assets!Nested, Assets!Call, Assets!Egresses
  <2> HIDE DEF r
  <2>2. r.w = w /\ r.ok = TRUE
    BY <2>1, Outcomes
  <2>3. Effect(w, c, r.w)
    BY <2>2, NoEffect
  <2>4. NestedEffect(w, c, r)
    BY <1>1, <2>2, <2>3 DEF NestedEffect
  <2> QED
    BY <2>4 DEF r
<1>2. CASE c.kind = "ENTER_CONTAINMENT"
  <2>1. r = Assets!EnterContainment(w, c)
    BY <1>2 DEF Assets!Nested, Assets!Call, Assets!Egresses
  <2> HIDE DEF r
  <2>2. /\ World(r.w) /\ Frame(w, r.w, {"nonces", "safeState", "containedUntil"})
        /\ Refusable(w, r) /\ Rising(w, r.w) /\ (r.ok => c.quorum)
    BY <2>1, ContainsWell
  <2>3. /\ r.w.log = w.log /\ r.w.boundAt = w.boundAt /\ r.w.asset = w.asset
        /\ r.w.poison = w.poison
    BY <2>2 DEF Frame, WorldFields
  <2>4. Frame(w, r.w, NestedFields) /\ Onward(w, r.w)
    BY <1>0, <2>2, <2>3, FrameGrows DEF NestedFields, Onward, Rising
  <2>5. Binds(w, r.w, c) /\ MovesAsset(w, r.w, c)
    BY <2>3 DEF Binds, MovesAsset
  <2>6. Contains(w, r.w, c)
    BY <1>2, <2>2 DEF Contains, Refusable
  <2>7. NestedEffect(w, c, r)
    BY <1>2, <2>2, <2>3, <2>4, <2>5, <2>6 DEF NestedEffect, Effect, Refusable
  <2> QED
    BY <2>7 DEF r
<1>3. CASE c.kind = "BIND_MIGRATION"
  <2>1. r = Assets!BindMigration(w, c)
    BY <1>3 DEF Assets!Nested, Assets!Call, Assets!Egresses
  <2> HIDE DEF r
  <2>2. /\ World(r.w) /\ Frame(w, r.w, {"nonces", "boundAt", "safeState"})
        /\ Refusable(w, r) /\ Rising(w, r.w)
        /\ (r.ok => w.boundAt = 0 /\ c.quorum /\ c.signed /\ r.w.boundAt = w.now
                    /\ r.w.safeState = "MIGRATION_ONLY")
    BY <2>1, BindsWell
  <2>3. r.w.log = w.log /\ r.w.asset = w.asset /\ r.w.poison = w.poison
    BY <2>2 DEF Frame, WorldFields
  <2>4. Frame(w, r.w, NestedFields) /\ Onward(w, r.w)
    BY <1>0, <2>2, <2>3, FrameGrows DEF NestedFields, Onward, Rising
  <2>5. Binds(w, r.w, c)
    BY <1>3, <2>2 DEF Binds, Refusable
  <2>6. Contains(w, r.w, c) /\ MovesAsset(w, r.w, c)
    BY <2>2, <2>3 DEF Contains, Refusable, MovesAsset
  <2>7. NestedEffect(w, c, r)
    BY <1>3, <2>2, <2>3, <2>4, <2>5, <2>6 DEF NestedEffect, Effect, Refusable
  <2> QED
    BY <2>7 DEF r
<1>4. CASE c.kind = "RETIRE"
  <2> DEFINE v == [w EXCEPT !.safeState = "RETIRED"]
  <2>1. IF Assets!Matured(w) THEN r = Assets!Done(v) ELSE r = Assets!Refused(w)
    BY <1>4 DEF Assets!Nested, Assets!Call, Assets!Egresses
  <2>2. Assets!Matured(w) => World(v) /\ Frame(w, v, {"safeState"})
    BY RetiresWell
  <2>3. v.safeState = "RETIRED"
    BY <1>0 DEF WorldFields
  <2> HIDE DEF r, v
  <2>4. CASE Assets!Matured(w)
    <3>1. r.w = v /\ r.ok = TRUE
      BY <2>1, <2>4, Outcomes
    <3>2. /\ v.log = w.log /\ v.boundAt = w.boundAt /\ v.asset = w.asset
          /\ v.poison = w.poison /\ v.nonces = w.nonces
      BY <2>2, <2>4 DEF Frame, WorldFields
    <3>3. Frame(w, v, NestedFields) /\ Onward(w, v)
      BY <2>2, <2>4, <3>2, NothingGrown, FrameGrows DEF NestedFields, Onward
    <3>4. Effect(w, c, v)
      BY <2>2, <2>3, <2>4, <3>2, <3>3 DEF Effect, Binds, Contains, MovesAsset
    <3>5. r.ok \in BOOLEAN /\ r.ok /\ Effect(w, c, r.w)
      BY <3>1, <3>4
    <3>6. NestedEffect(w, c, r)
      BY <1>4, <3>5 DEF NestedEffect
    <3> QED
      BY <3>6 DEF r
  <2>5. CASE ~Assets!Matured(w)
    <3>1. NestedEffect(w, c, r)
      BY <2>1, <2>5, RefusedNests
    <3> QED
      BY <3>1 DEF r
  <2> QED
    BY <2>4, <2>5
<1> QED
  BY <1>1, <1>2, <1>3, <1>4

-----------------------------------------------------------------------------
(* The hook of a transfer                                                   *)

\* Each kind of hook has its call.
HookCallOf(kind, c) ==
    /\ kind = "readNonce" => c.kind = "NONCES"
    /\ kind \in {"replaySpend", "secondValidSpend"} => c.kind = "SPEND"
    /\ kind = "egress" => c.kind = "EGRESS_TOKEN"
    /\ kind = "contain" => c.kind = "ENTER_CONTAINMENT"
    /\ kind = "bindMigration" => c.kind = "BIND_MIGRATION"
    /\ kind \notin Hooks \ {"retire"} => c.kind = "RETIRE"
    /\ kind = "retire" => c.kind = "RETIRE"

IsArmed(w) == w.hook.kind # "none"

\* A hook has a tame token, its own kind of call, and no spend that could be repeated.
Hooked(w) ==
    IsArmed(w) =>
        /\ Tame(w) /\ HookCallOf(w.hook.kind, w.hook.call)
        /\ w.hook.kind = "replaySpend" => ~Assets!MaySpend(w, w.hook.call)

\* What the hook found, and what it says became of its call.
Reports(w, f) ==
    /\ f.log.fired = w.hook.kind /\ f.log.succeeded \in BOOLEAN
    /\ f.log.seen = IF w.hook.kind = "readNonce" THEN w.nonces["spend"] ELSE 0

\* The hook of w has called, and f is what that left.
FiredEffect(w, f) ==
    LET c == w.hook.call IN
    /\ World(f) /\ Frame(w, f, NestedFields \cup {"hook"}) /\ f.poison = w.poison
    /\ ~IsArmed(f) /\ Reports(w, f)
    /\ Onward(w, f) /\ Binds(w, f, c) /\ Contains(w, f, c) /\ MovesAsset(w, f, c)
    /\ ~f.log.succeeded =>
          f.asset = w.asset /\ f.boundAt = w.boundAt /\ f.safeState = w.safeState
          /\ f.log.published = w.log.published
    /\ f.log.succeeded /\ c.kind = "SPEND" => Assets!MaySpend(w, c)

LEMMA LoggedFields ==
    ASSUME NEW w, NEW r, World(r.w), r.ok \in BOOLEAN
    PROVE  LET f == Assets!Logged(w, r) IN
           /\ Reports(w, f) /\ f.log.transfers = r.w.log.transfers
           /\ f.log.published = r.w.log.published /\ f.log.succeeded = r.ok
<1> DEFINE u == r.w
           seen == IF w.hook.kind = "readNonce" THEN w.nonces.spend ELSE 0
           n == [u.log EXCEPT !["fired"] = w.hook.kind, !["succeeded"] = r.ok, !["seen"] = seen]
           f == Assets!Logged(w, r)
<1>1. n.transfers = u.log.transfers /\ n.published = u.log.published
      /\ n.fired = w.hook.kind /\ n.succeeded = r.ok /\ n.seen = seen
  <2> HIDE DEF seen
  <2> QED
    BY DEF World, Logs, LogFields
<1>2. f.log = n
  BY DEF Assets!Logged, World, Logs, LogFields, WorldFields
<1> HIDE DEF n, f, u
<1>3. f.log.transfers = u.log.transfers /\ f.log.published = u.log.published
  BY <1>1, <1>2
<1>4. f.log.succeeded = r.ok
  BY <1>1, <1>2
<1>5. f.log.succeeded \in BOOLEAN
  BY <1>4
<1>6. f.log.fired = w.hook.kind /\ f.log.seen = seen
  BY <1>1, <1>2
<1>7. Reports(w, f)
  BY <1>5, <1>6 DEF Reports, seen
<1> QED
  BY <1>3, <1>4, <1>7 DEF f, u

LEMMA SameMaySpend ==
    ASSUME NEW w, NEW v, NEW c, Frame(w, v, {"hook", "log", "asset"})
    PROVE  Assets!MaySpend(v, c) = Assets!MaySpend(w, c)
BY DEF Frame, WorldFields, Assets!MaySpend, Assets!IsNormal, Assets!EffectiveState,
       Assets!Authorised, Assets!BalanceFails

LEMMA Fires ==
    ASSUME NEW w, World(w), IsArmed(w), Hooked(w)
    PROVE  FiredEffect(w, Assets!Fired(w))
<1> DEFINE v == [w EXCEPT !.hook = Assets!NoHook]
           c == w.hook.call
           r == Assets!Nested(v, c)
           f == Assets!Fired(w)
<1>1. World(v) /\ Frame(w, v, {"hook"}) /\ v.hook = Assets!NoHook
  BY NoHookLeft DEF World, WorldFields
<1>2. f = Assets!Logged(w, r)
  BY DEF Assets!Fired
<1>3. Sendable(c) /\ c.kind \in HookCalls /\ Tame(w)
  BY DEF World, IsArmed, Hooked, HookCallOf, HookCalls, Hooks
<1> HIDE DEF v
<1>4. /\ Tame(v) /\ v.log = w.log /\ v.nonces = w.nonces /\ v.boundAt = w.boundAt
      /\ v.safeState = w.safeState /\ v.asset = w.asset /\ v.poison = w.poison /\ v.now = w.now
  BY <1>1, <1>3 DEF Frame, WorldFields, Tame
<1>5. NestedEffect(v, c, r)
  BY <1>1, <1>3, <1>4, SpendNests, EgressNests, OthersNest DEF HookCalls
<1> HIDE DEF r, f
<1>6. /\ r.ok \in BOOLEAN /\ (~r.ok => r.w = v) /\ World(r.w) /\ Frame(v, r.w, NestedFields)
      /\ r.w.poison = v.poison /\ Onward(v, r.w) /\ Binds(v, r.w, c) /\ Contains(v, r.w, c)
      /\ MovesAsset(v, r.w, c) /\ (r.ok /\ c.kind = "SPEND" => Assets!MaySpend(v, c))
  BY <1>5 DEF NestedEffect, Effect
<1>7. /\ World(f) /\ Frame(r.w, f, {"log"}) /\ Reports(w, f)
      /\ f.log.transfers = r.w.log.transfers /\ f.log.published = r.w.log.published
      /\ f.log.succeeded = r.ok
  BY <1>2, <1>6, LogsWell, LoggedFields
<1>8. /\ f.nonces = r.w.nonces /\ f.boundAt = r.w.boundAt /\ f.safeState = r.w.safeState
      /\ f.asset = r.w.asset /\ f.poison = r.w.poison
  BY <1>7 DEF Frame, WorldFields
<1>9. Assets!MaySpend(v, c) = Assets!MaySpend(w, c) /\ Assets!Matured(v) = Assets!Matured(w)
  <2>1. Frame(w, v, {"hook", "log", "asset"})
    BY <1>1, FrameGrows
  <2> QED
    BY <1>4, <2>1, SameMaySpend DEF Assets!Matured
<1>10. Frame(w, f, NestedFields \cup {"hook"})
  <2>1. Frame(w, r.w, {"hook"} \cup NestedFields)
    BY <1>1, <1>6, FramesJoin
  <2>2. Frame(w, f, ({"hook"} \cup NestedFields) \cup {"log"})
    BY <1>7, <2>1, FramesJoin
  <2> QED
    BY <2>2, FrameGrows DEF NestedFields
<1>11. ~IsArmed(f)
  <2>1. f.hook = Assets!NoHook
    BY <1>1, <1>6, <1>7 DEF Frame, WorldFields, NestedFields
  <2> QED
    BY <2>1 DEF IsArmed, Assets!NoHook, Assets!None
<1>12. Onward(w, f)
  BY <1>4, <1>6, <1>7, <1>8 DEF Onward
<1>13. Binds(w, f, c) /\ Contains(w, f, c)
  BY <1>4, <1>6, <1>8 DEF Binds, Contains
<1>14. MovesAsset(w, f, c)
  BY <1>4, <1>6, <1>7, <1>8, <1>9 DEF MovesAsset
<1>15. ASSUME ~f.log.succeeded
       PROVE  /\ f.asset = w.asset /\ f.boundAt = w.boundAt /\ f.safeState = w.safeState
              /\ f.log.published = w.log.published
  <2>1. r.w = v
    BY <1>6, <1>7, <1>15
  <2> QED
    BY <1>4, <1>7, <1>8, <2>1
<1>16. f.log.succeeded /\ c.kind = "SPEND" => Assets!MaySpend(w, c)
  BY <1>6, <1>7, <1>9
<1>17. FiredEffect(w, f)
  BY <1>4, <1>6, <1>7, <1>8, <1>10, <1>11, <1>12, <1>13, <1>14, <1>15, <1>16 DEF FiredEffect
<1> QED
  BY <1>17 DEF f

MayFire(w, v) == v = w \/ (IsArmed(w) /\ FiredEffect(w, v))

\* A transfer by the vault from w to x: counted, with a call before the debit or after it.
Trace(w, v, u, m, x, to, amount) ==
    /\ World(v) /\ Frame(w, v, {"log"})
    /\ v.log.transfers = w.log.transfers + 1 /\ SameLog(w, v, {"transfers"})
    /\ MayFire(v, u) /\ World(u) /\ World(m) /\ World(x)
    /\ Moves(u, Assets!Done(m), to, amount) /\ MayFire(m, x)
    /\ (u = v /\ Frame(w, m, {"log", "asset", "poison"})) \/ x = m

LEMMA HookedAfter ==
    ASSUME NEW w, NEW v, Hooked(w), Frame(w, v, {"log", "asset", "poison"}),
           w.mode \in Exact => v.poison = w.poison
    PROVE  Hooked(v)
<1>1. v.hook = w.hook /\ v.mode = w.mode
  BY DEF Frame, WorldFields
<1> SUFFICES ASSUME IsArmed(v)
             PROVE  Hooked(v)
  BY DEF Hooked
<1>2. IsArmed(w) /\ Tame(w) /\ HookCallOf(w.hook.kind, w.hook.call)
  BY <1>1 DEF Hooked, IsArmed
<1>3. v.poison = w.poison
  BY <1>2 DEF Tame
<1>4. Frame(w, v, {"hook", "log", "asset"})
  BY <1>3 DEF Frame
<1>5. Assets!MaySpend(v, v.hook.call) = Assets!MaySpend(w, w.hook.call)
  BY <1>1, <1>4, SameMaySpend
<1> QED
  BY <1>1, <1>2, <1>3, <1>5 DEF Hooked, Tame

LEMMA Traces ==
    ASSUME NEW w, World(w), Hooked(w), NEW to \in Payees, NEW amount \in Nat,
           Assets!Transfer(w, to, amount).ok
    PROVE  \E v, u, m : Trace(w, v, u, m, Assets!Transfer(w, to, amount).w, to, amount)
<1> DEFINE v == [w EXCEPT !.log.transfers = w.log.transfers + 1]
           u == Assets!Entered(v)
           n == Assets!Moved(u, to, amount)
           r == Assets!Transfer(w, to, amount)
<1>1. /\ World(v) /\ Frame(w, v, {"log"})
      /\ v.log.transfers = w.log.transfers + 1 /\ SameLog(w, v, {"transfers"})
  BY OneMoreTransfer
<1>2. r = Assets!Refused(w) \/ r = Assets!Left(n)
  BY DEF Assets!Transfer
<1>3. r.ok
  OBVIOUS
<1> HIDE DEF v, r
<1>4. r = Assets!Left(n)
  BY <1>2, <1>3, Outcomes
<1>5. Hooked(v)
  <2>1. v.poison = w.poison /\ Frame(w, v, {"log", "asset", "poison"})
    BY <1>1, FrameGrows DEF Frame, WorldFields
  <2> QED
    BY <2>1, HookedAfter
<1>6. IF IsArmed(v) /\ ~v.hook.after THEN u = Assets!Fired(v) ELSE u = v
  BY DEF Assets!Entered, Assets!None, IsArmed
<1> HIDE DEF u
<1>7. MayFire(v, u) /\ World(u)
  <2>1. IsArmed(v) => FiredEffect(v, Assets!Fired(v))
    BY <1>1, <1>5, Fires
  <2> QED
    BY <1>1, <1>6, <2>1 DEF MayFire, FiredEffect
<1>8. Moves(u, n, to, amount)
  BY <1>7, TransferMoves
<1> HIDE DEF n
<1>9. r = IF n.ok /\ IsArmed(n.w) THEN Assets!Done(Assets!Fired(n.w)) ELSE n
  BY <1>4 DEF Assets!Left, Assets!None, IsArmed
<1>10. n.ok /\ World(n.w)
  BY <1>3, <1>8, <1>9, Outcomes DEF Moves
<1> DEFINE m == n.w
<1>11. Moves(u, Assets!Done(m), to, amount)
  <2> DEFINE s == Assets!Done(m)
  <2>1. s.w = n.w /\ s.ok = TRUE
    BY Outcomes
  <2>2. s.ok \in BOOLEAN /\ s.ok
    BY <2>1
  <2> HIDE DEF s
  <2>3. Moves(u, s, to, amount)
    BY <1>8, <1>10, <2>1, <2>2 DEF Moves
  <2> QED
    BY <2>3 DEF s
<1>12. CASE u = v
  <2>1. Frame(v, m, {"asset", "poison"}) /\ (v.mode \in Exact => m.poison = v.poison)
    BY <1>8, <1>12 DEF Moves
  <2>2. Frame(v, m, {"log", "asset", "poison"})
    BY <2>1, FrameGrows
  <2>3. Frame(w, m, {"log", "asset", "poison"})
    <3>1. Frame(w, m, {"log"} \cup {"log", "asset", "poison"})
      BY <1>1, <2>2, FramesJoin
    <3> QED
      BY <3>1, FrameGrows
  <2>4. Hooked(m)
    BY <1>5, <2>1, <2>2, HookedAfter
  <2>5. IsArmed(m) => FiredEffect(m, Assets!Fired(m))
    BY <1>10, <2>4, Fires
  <2>6. r.w = IF IsArmed(m) THEN Assets!Fired(m) ELSE m
    BY <1>9, <1>10, Outcomes
  <2>7. MayFire(m, r.w) /\ World(r.w)
    BY <1>10, <2>5, <2>6 DEF MayFire, FiredEffect
  <2>8. Trace(w, v, u, m, r.w, to, amount)
    BY <1>1, <1>7, <1>10, <1>11, <1>12, <2>3, <2>7 DEF Trace
  <2> QED
    BY <2>8 DEF r
<1>13. CASE u # v
  <2>1. FiredEffect(v, u)
    BY <1>7, <1>13 DEF MayFire
  <2>2. m.hook = u.hook
    BY <1>8 DEF Moves, Frame, WorldFields
  <2>3. ~IsArmed(m)
    BY <2>1, <2>2 DEF FiredEffect, IsArmed
  <2>4. r.w = m
    BY <1>9, <2>3
  <2>5. Trace(w, v, u, m, r.w, to, amount)
    BY <1>1, <1>7, <1>10, <1>11, <2>4 DEF Trace, MayFire
  <2> QED
    BY <2>5 DEF r
<1> QED
  BY <1>12, <1>13

\* What a transfer from w to x did besides moving the asset: nothing, or what the hook's
\* call may do.
HookEffect(w, x) ==
    LET c == w.hook.call IN
    \/ /\ x.log.fired = w.log.fired /\ x.log.succeeded = w.log.succeeded
       /\ x.boundAt = w.boundAt /\ x.safeState = w.safeState /\ x.hook = w.hook
    \/ /\ IsArmed(w) /\ ~IsArmed(x) /\ Reports(w, x)
       /\ Binds(w, x, c) /\ Contains(w, x, c)
       /\ ~x.log.succeeded => x.boundAt = w.boundAt /\ x.safeState = w.safeState
       /\ x.log.succeeded /\ c.kind = "SPEND" => Assets!MaySpend(w, c)

Still(w, v) == v.asset = w.asset /\ v.log.published = w.log.published

TransferEffect(w, x) ==
    /\ World(x) /\ Frame(w, x, NestedFields \cup {"hook"}) /\ Onward(w, x)
    /\ x.log.transfers > w.log.transfers /\ HookEffect(w, x)
    /\ w.mode \in Exact => x.poison = w.poison

LEMMA TransferEffects ==
    ASSUME NEW w, World(w), Hooked(w), NEW v, NEW u, NEW m, NEW x, NEW to, NEW amount,
           Trace(w, v, u, m, x, to, amount)
    PROVE  TransferEffect(w, x)
<1> DEFINE c == w.hook.call
<1>1. /\ World(v) /\ World(u) /\ World(m) /\ World(x) /\ MayFire(v, u) /\ MayFire(m, x)
      /\ Frame(w, v, {"log"}) /\ v.log.transfers = w.log.transfers + 1
      /\ SameLog(w, v, {"transfers"})
      /\ (u = v /\ Frame(w, m, {"log", "asset", "poison"})) \/ x = m
  BY DEF Trace
<1>2. Frame(u, m, {"asset", "poison"}) /\ (u.mode \in Exact => m.poison = u.poison)
  <2>1. Assets!Done(m).w = m
    BY Outcomes
  <2> QED
    BY <2>1 DEF Trace, Moves
<1>3. /\ v.hook = w.hook /\ v.nonces = w.nonces /\ v.boundAt = w.boundAt /\ v.now = w.now
      /\ v.safeState = w.safeState /\ v.poison = w.poison /\ v.mode = w.mode
  BY <1>1 DEF Frame, WorldFields
<1>4. /\ v.log.fired = w.log.fired /\ v.log.succeeded = w.log.succeeded
      /\ v.log.published = w.log.published
  BY <1>1 DEF SameLog, LogFields
<1>5. /\ m.hook = u.hook /\ m.nonces = u.nonces /\ m.boundAt = u.boundAt /\ m.log = u.log
      /\ m.now = u.now /\ m.safeState = u.safeState /\ m.mode = u.mode
  BY <1>2 DEF Frame, WorldFields
<1>6. w.log.transfers \in Nat /\ v.log.transfers > w.log.transfers
  BY <1>1 DEF World, Logs
<1>7. \A key \in Authorities : w.nonces[key] \in Nat /\ v.nonces[key] >= w.nonces[key]
  BY <1>3 DEF World
<1>8. CASE u = v /\ x = m
  <2>1. Frame(w, x, NestedFields \cup {"hook"})
    <3>1. Frame(w, x, {"log"} \cup {"asset", "poison"})
      BY <1>1, <1>2, <1>8, FramesJoin
    <3> QED
      BY <3>1, FrameGrows DEF NestedFields
  <2>2. Onward(w, x) /\ x.log.transfers > w.log.transfers
    <3>1. x.nonces = v.nonces /\ x.log.transfers = v.log.transfers
      BY <1>5, <1>8
    <3>2. x.log.transfers \in Nat
      BY <1>1 DEF World, Logs
    <3>3. x.log.transfers > w.log.transfers
      BY <1>6, <3>1
    <3>4. \A key \in Authorities : x.nonces[key] >= w.nonces[key]
      BY <1>7, <3>1
    <3> QED
      BY <1>6, <3>2, <3>3, <3>4 DEF Onward
  <2>3. HookEffect(w, x)
    BY <1>3, <1>4, <1>5, <1>8 DEF HookEffect
  <2>4. w.mode \in Exact => x.poison = w.poison
    BY <1>2, <1>3, <1>8
  <2> QED
    BY <1>1, <2>1, <2>2, <2>3, <2>4 DEF TransferEffect
<1>9. CASE u = v /\ x # m
  <2>1. IsArmed(m) /\ FiredEffect(m, x)
    BY <1>1, <1>9 DEF MayFire
  <2>2. IsArmed(w) /\ Tame(w)
    BY <1>3, <1>5, <1>9, <2>1 DEF IsArmed, Hooked
  <2>3. m.poison = w.poison
    BY <1>2, <1>3, <1>9, <2>2 DEF Tame
  <2>4. Assets!MaySpend(m, c) = Assets!MaySpend(w, c)
    <3>1. Frame(w, m, {"log", "asset", "poison"})
      BY <1>1, <1>9
    <3>2. Frame(w, m, {"hook", "log", "asset"})
      BY <2>3, <3>1 DEF Frame
    <3> QED
      BY <3>2, SameMaySpend
  <2>5. Frame(w, x, NestedFields \cup {"hook"})
    <3>1. Frame(w, x, {"log", "asset", "poison"} \cup (NestedFields \cup {"hook"}))
      BY <1>1, <1>9, <2>1, FramesJoin DEF FiredEffect
    <3> QED
      BY <3>1, FrameGrows DEF NestedFields
  <2>6. Onward(m, x) /\ m.nonces = w.nonces /\ m.log.transfers = v.log.transfers
    BY <1>3, <1>5, <1>9, <2>1 DEF FiredEffect
  <2>7. Onward(w, x) /\ x.log.transfers > w.log.transfers
    <3>1. m.log.transfers \in Nat /\ x.log.transfers \in Nat
      BY <1>1 DEF World, Logs
    <3>2. x.log.transfers > w.log.transfers
      BY <1>6, <2>6, <3>1 DEF Onward
    <3>3. \A key \in Authorities : x.nonces[key] >= w.nonces[key]
      BY <2>6 DEF Onward
    <3> QED
      BY <1>6, <3>1, <3>2, <3>3 DEF Onward
  <2>8. m.hook = w.hook /\ m.boundAt = w.boundAt /\ m.now = w.now /\ m.safeState = w.safeState
    BY <1>3, <1>5, <1>9
  <2>9. HookEffect(w, x)
    BY <2>1, <2>2, <2>4, <2>6, <2>8 DEF HookEffect, FiredEffect, Reports, Binds, Contains
  <2>10. x.poison = w.poison
    BY <2>1, <2>3 DEF FiredEffect
  <2> QED
    BY <1>1, <2>5, <2>7, <2>9, <2>10 DEF TransferEffect
<1>10. CASE u # v
  <2>1. x = m /\ IsArmed(v) /\ FiredEffect(v, u)
    BY <1>1, <1>10 DEF MayFire
  <2>2. IsArmed(w) /\ Tame(w) /\ u.mode = w.mode /\ u.poison = w.poison
    <3>1. u.mode = v.mode /\ u.poison = v.poison
      BY <2>1 DEF FiredEffect, Frame, NestedFields, WorldFields
    <3> QED
      BY <1>3, <2>1, <3>1 DEF IsArmed, Hooked
  <2>3. m.poison = w.poison
    BY <1>2, <2>2 DEF Tame
  <2>4. Assets!MaySpend(v, c) = Assets!MaySpend(w, c)
    BY <1>1, FrameGrows, SameMaySpend
  <2>5. Frame(w, x, NestedFields \cup {"hook"})
    <3>1. Frame(w, u, {"log"} \cup (NestedFields \cup {"hook"}))
      BY <1>1, <2>1, FramesJoin DEF FiredEffect
    <3>2. Frame(w, m, ({"log"} \cup (NestedFields \cup {"hook"})) \cup {"asset", "poison"})
      BY <1>2, <3>1, FramesJoin
    <3> QED
      BY <2>1, <3>2, FrameGrows DEF NestedFields
  <2>7. Onward(w, x) /\ x.log.transfers > w.log.transfers
    <3>1. u.log.transfers \in Nat /\ v.log.transfers \in Nat
      BY <1>1 DEF World, Logs
    <3>2. Onward(v, u)
      BY <2>1 DEF FiredEffect
    <3>3. x.log.transfers > w.log.transfers
      BY <1>5, <1>6, <2>1, <3>1, <3>2 DEF Onward
    <3>4. \A key \in Authorities : x.nonces[key] >= w.nonces[key]
      BY <1>3, <1>5, <2>1, <3>2 DEF Onward
    <3> QED
      BY <1>5, <1>6, <2>1, <3>1, <3>3, <3>4 DEF Onward
  <2>8. HookEffect(w, x)
    BY <1>3, <1>5, <2>1, <2>2, <2>4
       DEF HookEffect, FiredEffect, Reports, Binds, Contains, IsArmed
  <2> QED
    BY <1>1, <2>1, <2>3, <2>5, <2>7, <2>8 DEF TransferEffect
<1> QED
  BY <1>8, <1>9, <1>10

\* The asset that a transfer moves when the hook's call moves none.
LEMMA StillPays ==
    ASSUME NEW w, NEW v, NEW u, NEW m, NEW x, NEW to, NEW amount,
           Trace(w, v, u, m, x, to, amount), Still(v, u), Still(m, x)
    PROVE  /\ \E d, c \in Nat : Paid(w.asset, x.asset, to, d, c) /\ FairlyPaid(w.mode, amount, d, c)
           /\ x.log.published = w.log.published
<1>1. /\ MayFire(v, u) /\ Frame(w, v, {"log"}) /\ SameLog(w, v, {"transfers"})
      /\ Moves(u, Assets!Done(m), to, amount)
  BY DEF Trace
<1>2. v.asset = w.asset /\ v.mode = w.mode /\ v.log.published = w.log.published
  BY <1>1 DEF Frame, WorldFields, SameLog, LogFields
<1>3. u.mode = v.mode
  BY <1>1 DEF MayFire, FiredEffect, Frame, NestedFields, WorldFields
<1>4. Assets!Done(m).w = m /\ Assets!Done(m).ok
  BY Outcomes
<1>5. /\ \E d, c \in Nat : Paid(u.asset, m.asset, to, d, c) /\ FairlyPaid(u.mode, amount, d, c)
      /\ m.log = u.log
  BY <1>1, <1>4 DEF Moves, Frame, WorldFields
<1> QED
  BY <1>2, <1>3, <1>5 DEF Still
-----------------------------------------------------------------------------
(* A spend                                                                  *)

\* The calls of a hook that move the admitted asset.
Moving == {"secondValidSpend", "egress"}

LEMMA HookStill ==
    ASSUME NEW w, Hooked(w), IsArmed(w), NEW f, FiredEffect(w, f),
           ~(f.log.succeeded /\ f.log.fired \in Moving)
    PROVE  Still(w, f)
<1> DEFINE c == w.hook.call
<1>1. /\ f.log.fired = w.hook.kind /\ f.log.succeeded \in BOOLEAN /\ MovesAsset(w, f, c)
      /\ ~f.log.succeeded => f.asset = w.asset /\ f.log.published = w.log.published
      /\ f.log.succeeded /\ c.kind = "SPEND" => Assets!MaySpend(w, c)
  BY DEF FiredEffect, Reports
<1>2. HookCallOf(w.hook.kind, c) /\ (w.hook.kind = "replaySpend" => ~Assets!MaySpend(w, c))
  BY DEF Hooked
<1>3. CASE ~f.log.succeeded
  BY <1>1, <1>3 DEF Still
<1>4. CASE f.log.succeeded
  <2>1. w.hook.kind \notin Moving
    BY <1>1, <1>4
  <2>2. c.kind # "EGRESS_TOKEN"
    BY <1>2, <2>1 DEF HookCallOf, Moving, Hooks
  <2>3. c.kind # "SPEND"
    BY <1>1, <1>2, <1>4, <2>1 DEF HookCallOf, Moving, Hooks
  <2> QED
    BY <1>1, <2>2, <2>3 DEF MovesAsset, Still
<1> QED
  BY <1>1, <1>3, <1>4

LEMMA TraceStill ==
    ASSUME NEW w, World(w), Hooked(w), NEW v, NEW u, NEW m, NEW x, NEW to, NEW amount,
           Trace(w, v, u, m, x, to, amount),
           ~(x.log.succeeded /\ x.log.fired \in Moving)
    PROVE  Still(v, u) /\ Still(m, x)
<1>1. /\ MayFire(v, u) /\ MayFire(m, x) /\ Frame(w, v, {"log"})
      /\ (u = v /\ Frame(w, m, {"log", "asset", "poison"})) \/ x = m
      /\ Moves(u, Assets!Done(m), to, amount)
  BY DEF Trace
<1>2. m.log = u.log /\ (u.mode \in Exact => m.poison = u.poison)
  BY <1>1, Outcomes DEF Moves, Frame, WorldFields
<1>3. v.poison = w.poison /\ v.mode = w.mode
  BY <1>1 DEF Frame, WorldFields
<1>4. Hooked(v)
  <2>1. Frame(w, v, {"log", "asset", "poison"})
    BY <1>1, FrameGrows
  <2> QED
    BY <1>3, <2>1, HookedAfter
<1>5. CASE x = m
  <2>1. Still(m, x)
    BY <1>5 DEF Still
  <2>2. Still(v, u)
    <3>1. CASE u = v
      BY <3>1 DEF Still
    <3>2. CASE IsArmed(v) /\ FiredEffect(v, u)
      BY <1>2, <1>4, <1>5, <3>2, HookStill
    <3> QED
      BY <1>1, <3>1, <3>2 DEF MayFire
  <2> QED
    BY <2>1, <2>2
<1>6. CASE x # m
  <2>1. u = v /\ Frame(w, m, {"log", "asset", "poison"}) /\ IsArmed(m) /\ FiredEffect(m, x)
    BY <1>1, <1>6 DEF MayFire
  <2>2. Hooked(m)
    <3>1. w.mode \in Exact => m.poison = w.poison
      BY <1>2, <1>3, <2>1
    <3> QED
      BY <2>1, <3>1, HookedAfter
  <2>3. Still(m, x)
    BY <2>1, <2>2, HookStill
  <2> QED
    BY <2>1, <2>3 DEF Still
<1> QED
  BY <1>5, <1>6

\* A hook was armed in w, and has called by the time of x.
HookSucceeded(w, x) == IsArmed(w) /\ x.log.fired = w.hook.kind /\ x.log.succeeded

\* A spend that went through: the vault has seen the amount leave, the recipient has it
\* unless the hook moved some of the asset too.
SpendEffect(w, c, x) ==
    LET v == Assets!SpendNonce(w, c.nonce) IN
    /\ Assets!MaySpend(w, c) /\ TransferEffect(v, x)
    /\ w.mode # Lying => w.asset["vault"] - x.asset["vault"] = c.amount
    /\ w.mode \notin {Lying, "RECIPIENT_FEE"} /\ c.to = "recipient"
         /\ ~(x.log.succeeded /\ x.log.fired \in Moving)
       => x.asset["recipient"] - w.asset["recipient"] = c.amount

LEMMA TrueBalance ==
    ASSUME NEW w, World(w), w.mode # Lying
    PROVE  Assets!balanceOf(w) = w.asset["vault"]
BY DEF World, Assets!balanceOf

\* Between two calls a hook is ready: it replays, if at all, no later spend than the next.
Ready(w) ==
    IsArmed(w) =>
        /\ Tame(w) /\ HookCallOf(w.hook.kind, w.hook.call)
        /\ w.hook.kind = "replaySpend" =>
              w.hook.call.nonce \in Nat /\ w.hook.call.nonce <= w.nonces["spend"]

LEMMA SpentHooked ==
    ASSUME NEW w, World(w), Ready(w), NEW c, c.nonce \in Nat, c.nonce = w.nonces["spend"]
    PROVE  Hooked(Assets!SpendNonce(w, c.nonce))
<1> DEFINE v == Assets!SpendNonce(w, c.nonce)
<1>1. /\ World(v) /\ Frame(w, v, {"nonces"}) /\ v.nonces["spend"] = c.nonce + 1
  BY OtherNonces, NonceOnSpend
<1> HIDE DEF v
<1>2. v.hook = w.hook /\ v.mode = w.mode /\ v.poison = w.poison
  BY <1>1 DEF Frame, WorldFields
<1>3. ASSUME IsArmed(w)
      PROVE  Tame(w) /\ HookCallOf(w.hook.kind, w.hook.call)
  BY <1>3 DEF Ready
<1>4. ASSUME w.hook.kind = "replaySpend"
      PROVE  ~Assets!MaySpend(v, v.hook.call)
  <2>1. w.hook.call.nonce \in Nat /\ w.hook.call.nonce <= w.nonces["spend"]
    BY <1>4 DEF Ready, IsArmed
  <2>2. v.hook.call.nonce # v.nonces["spend"]
    BY <1>1, <1>2, <2>1
  <2> QED
    BY <2>2 DEF Assets!MaySpend, Assets!Authorised
<1>5. Hooked(v)
  BY <1>2, <1>3, <1>4 DEF Hooked, IsArmed, Tame
<1> QED
  BY <1>5 DEF v

LEMMA SpendGoesThrough ==
    ASSUME NEW w, World(w), Ready(w), NEW c, Sendable(c), c.kind = "SPEND", Assets!Exec(w, c).ok
    PROVE  SpendEffect(w, c, Assets!Exec(w, c).w)
<1> DEFINE v == Assets!SpendNonce(w, c.nonce)
           paid == Assets!Transfer(v, c.to, c.amount)
           r == Assets!Exec(w, c)
           x == paid.w
<1>0. c.amount \in Nat /\ c.to \in Payees /\ c.nonce \in Nat
  BY DEF Sendable, Payees
<1>1. /\ World(v) /\ Frame(w, v, {"nonces"})
  BY <1>0, OtherNonces
<1>2. r = Assets!Spend(w, c, paid) /\ r.ok
  BY DEF Assets!Exec, Assets!Call, Assets!Egresses
<1> HIDE DEF paid, r
<1>3. /\ Assets!MaySpend(w, c) /\ paid.ok /\ ~Assets!BalanceFails(x)
      /\ Assets!balanceOf(w) - Assets!balanceOf(x) = c.amount
      /\ r = Assets!Done(x)
  BY <1>2, Outcomes DEF Assets!Spend, Assets!Exactly
<1>4. r.w = x
  BY <1>3, Outcomes
<1>5. Hooked(v)
  <2>1. c.nonce = w.nonces["spend"]
    BY <1>3 DEF Assets!MaySpend, Assets!Authorised
  <2> QED
    BY <1>0, <2>1, SpentHooked
<1> HIDE DEF v, x
<1>6. PICK b, u, m : Trace(v, b, u, m, x, c.to, c.amount)
  <2>1. paid = Assets!Transfer(v, c.to, c.amount)
    BY DEF paid
  <2>2. Assets!Transfer(v, c.to, c.amount).ok
    BY <1>3, <2>1
  <2> QED
    BY <1>0, <1>1, <1>5, <2>1, <2>2, Traces DEF x
<1>7. TransferEffect(v, x)
  BY <1>1, <1>5, <1>6, TransferEffects
<1>8. v.asset = w.asset /\ v.mode = w.mode /\ x.mode = w.mode
  BY <1>1, <1>7 DEF TransferEffect, Frame, NestedFields, WorldFields
<1>9. World(x)
  BY <1>7 DEF TransferEffect
<1>10. w.mode # Lying => w.asset["vault"] - x.asset["vault"] = c.amount
  BY <1>3, <1>8, <1>9, TrueBalance
<1>11. ASSUME w.mode \notin {Lying, "RECIPIENT_FEE"}, c.to = "recipient",
              ~(x.log.succeeded /\ x.log.fired \in Moving)
       PROVE  x.asset["recipient"] - w.asset["recipient"] = c.amount
  <2>1. Still(b, u) /\ Still(m, x)
    BY <1>1, <1>5, <1>6, <1>11, TraceStill
  <2>2. PICK d, e \in Nat : Paid(w.asset, x.asset, c.to, d, e) /\ FairlyPaid(w.mode, c.amount, d, e)
    BY <1>6, <1>8, <2>1, StillPays
  <2>3. /\ w.asset["vault"] \in Nat /\ w.asset["recipient"] \in Nat
    BY DEF World, Holders
  <2>4. x.asset["vault"] = w.asset["vault"] - d /\ x.asset["recipient"] = w.asset["recipient"] + e
    BY <1>11, <2>2, <2>3 DEF Paid, Holders
  <2>5. d = c.amount
    BY <1>0, <1>10, <1>11, <2>3, <2>4
  <2>6. e = c.amount
    BY <1>0, <1>11, <2>2, <2>5 DEF FairlyPaid
  <2> QED
    BY <2>2, <2>3, <2>4, <2>6
<1>12. SpendEffect(w, c, x)
  BY <1>3, <1>7, <1>10, <1>11 DEF SpendEffect, v
<1> QED
  BY <1>4, <1>12 DEF r

-----------------------------------------------------------------------------
(* An egress of the admitted asset                                          *)

LEMMA BoundNeverSpends ==
    ASSUME NEW w, World(w), w.boundAt # 0, NEW c
    PROVE  ~Assets!MaySpend(w, c) /\ ~Assets!IsNormal(w)
BY DEF World, Assets!MaySpend, Assets!IsNormal, Assets!EffectiveState

LEMMA BoundHooked ==
    ASSUME NEW w, World(w), Ready(w), w.boundAt # 0
    PROVE  Hooked(w)
BY BoundNeverSpends DEF Ready, Hooked

\* A hook that takes some of the asset before the transfer leaves too little for it, and
\* after it nothing is left to take.
LEMMA EgressStill ==
    ASSUME NEW w, World(w), Hooked(w), w.boundAt # 0,
           NEW v, NEW u, NEW m, NEW x, NEW amount,
           Trace(w, v, u, m, x, "destination", amount),
           w.mode \in Exact => amount = w.asset["vault"]
    PROVE  Still(v, u) /\ Still(m, x)
<1> DEFINE c == w.hook.call
<1>1. /\ MayFire(v, u) /\ MayFire(m, x) /\ Frame(w, v, {"log"})
      /\ (u = v /\ Frame(w, m, {"log", "asset", "poison"})) \/ x = m
      /\ Moves(u, Assets!Done(m), "destination", amount)
      /\ World(v) /\ World(u) /\ World(m) /\ World(x)
  BY DEF Trace
<1>2. /\ v.asset = w.asset /\ v.mode = w.mode /\ v.hook = w.hook /\ v.boundAt = w.boundAt
  BY <1>1 DEF Frame, WorldFields
<1>3. /\ Frame(u, m, {"asset", "poison"})
      /\ \E d, e \in Nat : Paid(u.asset, m.asset, "destination", d, e)
                           /\ FairlyPaid(u.mode, amount, d, e)
  <2>1. Assets!Done(m).w = m /\ Assets!Done(m).ok
    BY Outcomes
  <2> QED
    BY <1>1, <2>1 DEF Moves
<1>4. m.mode = u.mode /\ m.hook = u.hook /\ m.boundAt = u.boundAt
  BY <1>3 DEF Frame, WorldFields
<1>5. PICK d, e \in Nat : Paid(u.asset, m.asset, "destination", d, e)
                          /\ FairlyPaid(u.mode, amount, d, e)
  BY <1>3
<1>6. /\ w.asset["vault"] \in Nat /\ u.asset["vault"] \in Nat /\ m.asset["vault"] \in Nat
      /\ x.asset["vault"] \in Nat
  BY <1>1 DEF World, Holders
<1>7. d <= u.asset["vault"] /\ m.asset["vault"] = u.asset["vault"] - d
  BY <1>5, <1>6 DEF Paid, Holders
<1>8. Still(v, u)
  <2>1. CASE u = v
    BY <2>1 DEF Still
  <2>2. CASE IsArmed(v) /\ FiredEffect(v, u)
    <3>1. MovesAsset(v, u, c) /\ u.mode = v.mode
      BY <1>2, <2>2 DEF FiredEffect, Frame, NestedFields, WorldFields
    <3>2. ~Assets!MaySpend(v, c)
      BY <1>1, <1>2, BoundNeverSpends
    <3>3. u.mode \in Exact /\ amount = w.asset["vault"]
      BY <1>2, <2>2, <3>1 DEF Hooked, IsArmed, Tame
    <3>4. d = amount
      BY <1>5, <3>3 DEF FairlyPaid
    <3>5. ~(u.asset["vault"] < v.asset["vault"])
      BY <1>2, <1>6, <1>7, <3>3, <3>4
    <3> QED
      BY <3>1, <3>2, <3>5 DEF MovesAsset, Still
  <2> QED
    BY <1>1, <2>1, <2>2 DEF MayFire
<1>9. Still(m, x)
  <2>1. CASE x = m
    BY <2>1 DEF Still
  <2>2. CASE x # m
    <3>1. u = v /\ IsArmed(m) /\ FiredEffect(m, x)
      BY <1>1, <2>2 DEF MayFire
    <3>2. MovesAsset(m, x, c)
      BY <1>2, <1>4, <3>1 DEF FiredEffect
    <3>3. ~Assets!MaySpend(m, c)
      BY <1>1, <1>2, <1>4, <3>1, BoundNeverSpends
    <3>4. u.mode \in Exact /\ amount = w.asset["vault"]
      BY <1>2, <1>4, <3>1 DEF Hooked, IsArmed, Tame
    <3>5. d = amount
      BY <1>5, <3>4 DEF FairlyPaid
    <3>6. m.asset["vault"] = 0
      BY <1>2, <1>6, <1>7, <3>1, <3>4, <3>5
    <3>7. ~(x.asset["vault"] < m.asset["vault"])
      BY <1>6, <3>6
    <3> QED
      BY <3>2, <3>3, <3>7 DEF MovesAsset, Still
  <2> QED
    BY <2>1, <2>2
<1> QED
  BY <1>8, <1>9

\* What left arrived, and was published.
EgressEffect(w, x) ==
    LET lost == w.asset["vault"] - x.asset["vault"] IN
    /\ World(x) /\ Frame(w, x, NestedFields \cup {"hook"}) /\ Onward(w, x) /\ HookEffect(w, x)
    /\ w.mode \in Exact => x.poison = w.poison
    /\ w.mode # "RECIPIENT_FEE" => x.asset["destination"] - w.asset["destination"] = lost
    /\ w.mode # Lying => x.log.published = w.log.published + lost

LEMMA PublishedHook ==
    ASSUME NEW w, NEW x, HookEffect(w, x), NEW y, Frame(x, y, {"log"}),
           SameLog(x, y, {"published"})
    PROVE  HookEffect(w, y)
<1>1. /\ y.log.fired = x.log.fired /\ y.log.succeeded = x.log.succeeded
      /\ y.log.seen = x.log.seen
  BY DEF SameLog, LogFields
<1>2. y.boundAt = x.boundAt /\ y.safeState = x.safeState /\ y.hook = x.hook
  BY DEF Frame, WorldFields
<1> QED
  BY <1>1, <1>2 DEF HookEffect, Binds, Contains, Reports, IsArmed

LEMMA NothingEgressed ==
    ASSUME NEW w, World(w), NEW x, World(x), Frame(w, x, {"log"}), SameLog(w, x, {"published"}),
           x.log.published = w.log.published
    PROVE  EgressEffect(w, x)
<1>1. /\ x.asset = w.asset /\ x.nonces = w.nonces /\ x.poison = w.poison /\ x.hook = w.hook
      /\ x.boundAt = w.boundAt /\ x.safeState = w.safeState
  BY DEF Frame, WorldFields
<1>2. /\ x.log.fired = w.log.fired /\ x.log.succeeded = w.log.succeeded
      /\ x.log.transfers = w.log.transfers
  BY DEF SameLog, LogFields
<1>3. w.asset["vault"] \in Nat /\ w.asset["destination"] \in Nat /\ w.log.published \in Nat
  BY DEF World, Holders, Logs
<1>4. Onward(w, x)
  BY <1>1, <1>2 DEF Onward, World, Logs
<1>5. HookEffect(w, x)
  BY <1>1, <1>2 DEF HookEffect
<1>6. Frame(w, x, NestedFields \cup {"hook"})
  BY FrameGrows DEF NestedFields
<1> QED
  BY <1>1, <1>3, <1>4, <1>5, <1>6 DEF EgressEffect

LEMMA TokenEgresses ==
    ASSUME NEW w, World(w), Ready(w), Assets!Matured(w), NEW r,
           r = Assets!EgressToken(w, Assets!Transfer(w, "destination", Assets!balanceOf(w))), r.ok
    PROVE  EgressEffect(w, r.w)
<1> DEFINE amount == Assets!balanceOf(w)
           paid == Assets!Transfer(w, "destination", amount)
           x == paid.w
<1>1. w.boundAt # 0
  BY DEF Assets!Matured
<1>2. Hooked(w)
  BY <1>1, BoundHooked
<1>3. amount \in Nat
  BY Balances
<1>4. r = Assets!EgressToken(w, paid)
  OBVIOUS
<1>5. w.mode # Lying => amount = w.asset["vault"]
  BY TrueBalance
<1>6. paid = Assets!Transfer(w, "destination", amount)
  OBVIOUS
<1> HIDE DEF amount, paid
<1>7. CASE r = Assets!Published(w, 0)
  <2>1. /\ World(r.w) /\ Frame(w, r.w, {"log"}) /\ SameLog(w, r.w, {"published"})
        /\ r.w.log.published = w.log.published + 0
    BY <1>7, Publishes
  <2>2. r.w.log.published = w.log.published
    <3>1. w.log.published \in Nat
      BY DEF World, Logs
    <3> QED
      BY <2>1, <3>1
  <2> QED
    BY <2>1, <2>2, NothingEgressed
<1>8. CASE /\ paid.ok /\ Assets!balanceOf(x) < amount
           /\ r = Assets!Published(x, amount - Assets!balanceOf(x))
  <2>1. PICK v, u, m : Trace(w, v, u, m, x, "destination", amount)
    BY <1>2, <1>3, <1>6, <1>8, Traces DEF Payees
  <2>2. TransferEffect(w, x)
    BY <1>2, <2>1, TransferEffects
  <2> DEFINE gone == amount - Assets!balanceOf(x)
  <2>3. World(x) /\ x.mode = w.mode /\ Frame(w, x, NestedFields \cup {"hook"})
    BY <2>2 DEF TransferEffect, Frame, NestedFields, WorldFields
  <2>4. gone \in Nat
    BY <1>3, <1>8, <2>3, Balances
  <2>5. r = Assets!Published(x, gone)
    BY <1>8
  <2> HIDE DEF gone, x
  <2>6. /\ World(r.w) /\ Frame(x, r.w, {"log"}) /\ SameLog(x, r.w, {"published"})
        /\ r.w.log.published = x.log.published + gone
    BY <2>3, <2>4, <2>5, Publishes
  <2>7. /\ r.w.asset = x.asset /\ r.w.nonces = x.nonces /\ r.w.poison = x.poison
        /\ r.w.log.transfers = x.log.transfers
    BY <2>6 DEF Frame, WorldFields, SameLog, LogFields
  <2>8. w.mode \in Exact => amount = w.asset["vault"]
    BY <1>5 DEF Exact, Lying
  <2>9. Still(v, u) /\ Still(m, x)
    BY <1>1, <1>2, <2>1, <2>8, EgressStill
  <2>10. PICK d, e \in Nat : /\ Paid(w.asset, x.asset, "destination", d, e)
                             /\ FairlyPaid(w.mode, amount, d, e)
    BY <2>1, <2>9, StillPays
  <2>11. x.log.published = w.log.published
    BY <2>1, <2>9, StillPays
  <2>12. w.asset["vault"] \in Nat /\ w.asset["destination"] \in Nat
    BY DEF World, Holders
  <2>13. /\ x.asset["vault"] = w.asset["vault"] - d /\ d <= w.asset["vault"]
         /\ x.asset["destination"] = w.asset["destination"] + e
    BY <2>10, <2>12 DEF Paid, Holders
  <2>14. w.mode # "RECIPIENT_FEE" => e = d
    BY <1>3, <1>5, <2>10, <2>12, <2>13 DEF FairlyPaid, Lying
  <2>15. w.mode # Lying => gone = d
    <3>1. w.mode # Lying => gone = w.asset["vault"] - x.asset["vault"]
      BY <1>5, <2>3, TrueBalance DEF gone
    <3> QED
      BY <2>12, <2>13, <3>1
  <2>16. /\ w.mode # "RECIPIENT_FEE" =>
              r.w.asset["destination"] - w.asset["destination"]
                = w.asset["vault"] - r.w.asset["vault"]
         /\ w.mode # Lying =>
              r.w.log.published = w.log.published + (w.asset["vault"] - r.w.asset["vault"])
    BY <2>6, <2>7, <2>10, <2>11, <2>12, <2>13, <2>14, <2>15
  <2>17. HookEffect(w, r.w)
    BY <2>2, <2>6, PublishedHook DEF TransferEffect
  <2>18. Onward(w, r.w) /\ (w.mode \in Exact => r.w.poison = w.poison)
    BY <2>2, <2>7 DEF TransferEffect, Onward
  <2>19. Frame(w, r.w, NestedFields \cup {"hook"})
    <3>1. Frame(w, r.w, (NestedFields \cup {"hook"}) \cup {"log"})
      BY <2>3, <2>6, FramesJoin
    <3> QED
      BY <3>1, FrameGrows DEF NestedFields
  <2> QED
    BY <2>6, <2>16, <2>17, <2>18, <2>19 DEF EgressEffect
<1> QED
  <2>1. amount = Assets!balanceOf(w)
    BY DEF amount
  <2>2. Assets!Refused(w).ok = FALSE
    BY Outcomes
  <2> QED
    BY <1>4, <1>7, <1>8, <2>1, <2>2 DEF Assets!EgressToken, Assets!Emptied

-----------------------------------------------------------------------------
(* The other two egress calls                                               *)

\* What left of a holding, a to b, is what arrived and what was published.
Accounted(a, b, w, x) ==
    /\ b["destination"] - a["destination"] = a["vault"] - b["vault"]
    /\ x.log.published = w.log.published + (a["vault"] - b["vault"])

LEMMA NativeEgresses ==
    ASSUME NEW w, World(w), NEW r, r = Assets!EgressNative(w)
    PROVE  /\ Refusable(w, r) /\ SameLog(w, r.w, {"published"})
           /\ (r.ok => Accounted(w.native, r.w.native, w, r.w))
<1> DEFINE kept == Assets!Kept(w)
           v == [w EXCEPT !.native = [vault |-> w.native.vault - kept,
                                      destination |-> w.native.destination + kept]]
<1>1. w.native["vault"] \in Nat /\ w.native["destination"] \in Nat /\ w.log.published \in Nat
  BY DEF World, Logs
<1>2. kept \in Nat /\ kept <= w.native.vault
  BY <1>1 DEF Assets!Kept
<1>3. \/ r = Assets!Published(w, 0)
      \/ r = Assets!Refused(w)
      \/ r = Assets!Published(v, kept)
  BY DEF Assets!EgressNative, kept
<1> HIDE DEF kept
<1>4. /\ Frame(w, v, {"native"})
      /\ v.native["vault"] = w.native["vault"] - kept
      /\ v.native["destination"] = w.native["destination"] + kept
  BY DEF World, Frame, WorldFields
<1> HIDE DEF v
<1>5. CASE r = Assets!Refused(w)
  BY <1>5, Outcomes DEF Refusable, SameLog
<1>6. CASE r = Assets!Published(w, 0)
  <2>1. /\ r.ok = TRUE /\ Frame(w, r.w, {"log"}) /\ SameLog(w, r.w, {"published"})
        /\ r.w.log.published = w.log.published + 0
    BY <1>6, Publishes
  <2>2. r.w.native = w.native
    BY <2>1 DEF Frame, WorldFields
  <2>3. Accounted(w.native, r.w.native, w, r.w)
    BY <1>1, <2>1, <2>2 DEF Accounted
  <2> QED
    BY <2>1, <2>3 DEF Refusable
<1>7. CASE r = Assets!Published(v, kept)
  <2>1. World(v)
    <3>1. v.native \in [{"vault", "destination"} -> Nat]
      <4> DEFINE a == w.native.vault - kept
                 b == w.native.destination + kept
      <4>1. a \in Nat /\ b \in Nat
        BY <1>1, <1>2
      <4> HIDE DEF a, b
      <4>2. [vault |-> a, destination |-> b] \in [{"vault", "destination"} -> Nat]
        BY <4>1
      <4>3. v.native = [vault |-> w.native.vault - kept,
                        destination |-> w.native.destination + kept]
        BY DEF World, WorldFields, v
      <4> QED
        BY <4>2, <4>3 DEF a, b
    <3> QED
      BY <1>4, <3>1 DEF World, Frame, WorldFields
  <2>2. /\ r.ok = TRUE /\ Frame(v, r.w, {"log"}) /\ SameLog(v, r.w, {"published"})
        /\ r.w.log.published = v.log.published + kept
    BY <1>2, <1>7, <2>1, Publishes
  <2>3. r.w.native = v.native /\ v.log = w.log
    BY <1>4, <2>2 DEF Frame, WorldFields
  <2>4. Accounted(w.native, r.w.native, w, r.w)
    BY <1>1, <1>2, <1>4, <2>2, <2>3 DEF Accounted
  <2>5. SameLog(w, r.w, {"published"})
    BY <2>2, <2>3 DEF SameLog
  <2> QED
    BY <2>2, <2>4, <2>5 DEF Refusable
<1> QED
  BY <1>3, <1>5, <1>6, <1>7

LEMMA OtherEgresses ==
    ASSUME NEW w, World(w), NEW r, r = Assets!EgressOther(w)
    PROVE  /\ Refusable(w, r) /\ SameLog(w, r.w, {"published"})
           /\ (r.ok => Accounted(w.other, r.w.other, w, r.w))
<1> DEFINE lost == w.other.vault
           v == [w EXCEPT !.other = [vault |-> 0, destination |-> w.other.destination + lost]]
<1>1. lost \in Nat /\ w.other["destination"] \in Nat /\ w.log.published \in Nat
  BY DEF World, Logs
<1>2. w.other["vault"] = lost
  OBVIOUS
<1>3. \/ r = Assets!Published(w, 0)
      \/ r = Assets!Refused(w)
      \/ r = Assets!Published(v, lost)
  BY DEF Assets!EgressOther
<1> HIDE DEF lost
<1>4. /\ Frame(w, v, {"other"})
      /\ v.other["vault"] = 0
      /\ v.other["destination"] = w.other["destination"] + lost
  BY DEF World, Frame, WorldFields
<1> HIDE DEF v
<1>5. CASE r = Assets!Refused(w)
  BY <1>5, Outcomes DEF Refusable, SameLog
<1>6. CASE r = Assets!Published(w, 0)
  <2>1. /\ r.ok = TRUE /\ Frame(w, r.w, {"log"}) /\ SameLog(w, r.w, {"published"})
        /\ r.w.log.published = w.log.published + 0
    BY <1>6, Publishes
  <2>2. r.w.other = w.other
    BY <2>1 DEF Frame, WorldFields
  <2>3. Accounted(w.other, r.w.other, w, r.w)
    BY <1>1, <1>2, <2>1, <2>2 DEF Accounted
  <2> QED
    BY <2>1, <2>3 DEF Refusable
<1>7. CASE r = Assets!Published(v, lost)
  <2>1. World(v)
    <3>1. v.other \in [{"vault", "destination"} -> Nat]
      <4> DEFINE b == w.other.destination + lost
      <4>1. b \in Nat
        BY <1>1
      <4> HIDE DEF b
      <4>2. [vault |-> 0, destination |-> b] \in [{"vault", "destination"} -> Nat]
        BY <4>1
      <4>3. v.other = [vault |-> 0, destination |-> w.other.destination + lost]
        BY DEF World, WorldFields, v
      <4> QED
        BY <4>2, <4>3 DEF b
    <3> QED
      BY <1>4, <3>1 DEF World, Frame, WorldFields
  <2>2. /\ r.ok = TRUE /\ Frame(v, r.w, {"log"}) /\ SameLog(v, r.w, {"published"})
        /\ r.w.log.published = v.log.published + lost
    BY <1>1, <1>7, <2>1, Publishes
  <2>3. r.w.other = v.other /\ v.log = w.log
    BY <1>4, <2>2 DEF Frame, WorldFields
  <2>4. Accounted(w.other, r.w.other, w, r.w)
    BY <1>1, <1>2, <1>4, <2>2, <2>3 DEF Accounted
  <2>5. SameLog(w, r.w, {"published"})
    BY <2>2, <2>3 DEF SameLog
  <2> QED
    BY <2>2, <2>4, <2>5 DEF Refusable
<1> QED
  BY <1>3, <1>5, <1>6, <1>7

-----------------------------------------------------------------------------
(* What any call changes, and on whose word                                 *)

CallFields == NestedFields \cup {"hook", "native", "other", "policy"}

NonceOf(kind) ==
    CASE kind = "SPEND" -> "spend"
      [] kind = "SET_POLICY" -> "credential"
      [] kind = "ENTER_CONTAINMENT" -> "guardian"
      [] OTHER -> "migration"

\* What the call did or the hook's call did in it.
BindsInside(w, x, c) == Binds(w, x, c) \/ (HookSucceeded(w, x) /\ Binds(w, x, w.hook.call))
ContainsInside(w, x, c) ==
    Contains(w, x, c) \/ (HookSucceeded(w, x) /\ Contains(w, x, w.hook.call))

CallEffect(w, c, x) ==
    /\ World(x) /\ Frame(w, x, CallFields) /\ Rising(w, x)
    /\ x.hook = w.hook \/ ~IsArmed(x)
    /\ w.mode \in Exact => x.poison = w.poison
    /\ BindsInside(w, x, c) /\ ContainsInside(w, x, c)
    /\ Leaves(w, x) =>
          \/ c.kind = "SPEND" /\ Assets!MaySpend(w, c)
          \/ c.kind \in Assets!Egresses /\ Assets!Matured(w)
    /\ x.policy # w.policy => c.kind = "SET_POLICY" /\ c.signed
    /\ c.kind \in Assets!NonceBearing =>
          /\ c.nonce = w.nonces[NonceOf(c.kind)]
          /\ x.nonces[NonceOf(c.kind)] >= c.nonce + 1

LEMMA HooksInside ==
    ASSUME NEW w, NEW v, NEW x, HookEffect(v, x), NEW c,
           v.hook = w.hook, v.boundAt = w.boundAt, v.now = w.now, v.safeState = w.safeState
    PROVE  /\ x.hook = w.hook \/ ~IsArmed(x)
           /\ BindsInside(w, x, c) /\ ContainsInside(w, x, c)
<1> DEFINE h == w.hook.call
<1>1. CASE x.boundAt = v.boundAt /\ x.safeState = v.safeState /\ x.hook = v.hook
  BY <1>1 DEF BindsInside, ContainsInside, Binds, Contains
<1>2. CASE /\ IsArmed(v) /\ ~IsArmed(x) /\ Reports(v, x)
           /\ Binds(v, x, h) /\ Contains(v, x, h)
           /\ ~x.log.succeeded => x.boundAt = v.boundAt /\ x.safeState = v.safeState
  <2>1. CASE x.log.succeeded
    <3>1. HookSucceeded(w, x)
      BY <1>2, <2>1 DEF HookSucceeded, IsArmed, Reports
    <3>2. Binds(w, x, h) /\ Contains(w, x, h)
      BY <1>2 DEF Binds, Contains
    <3> QED
      BY <1>2, <3>1, <3>2 DEF BindsInside, ContainsInside
  <2>2. CASE ~x.log.succeeded
    BY <1>2, <2>2 DEF BindsInside, ContainsInside, Binds, Contains
  <2> QED
    BY <2>1, <2>2
<1> QED
  BY <1>1, <1>2 DEF HookEffect

LEMMA SpendIsEffect ==
    ASSUME NEW w, World(w), Ready(w), NEW c, Sendable(c), c.kind = "SPEND", Assets!Exec(w, c).ok
    PROVE  CallEffect(w, c, Assets!Exec(w, c).w)
<1> DEFINE v == Assets!SpendNonce(w, c.nonce)
           x == Assets!Exec(w, c).w
<1>1. SpendEffect(w, c, x)
  BY SpendGoesThrough
<1> HIDE DEF x
<1>2. Assets!MaySpend(w, c) /\ TransferEffect(v, x)
  BY <1>1 DEF SpendEffect
<1>3. c.nonce \in Nat /\ c.nonce = w.nonces["spend"]
  BY <1>2 DEF Sendable, Assets!MaySpend, Assets!Authorised
<1>4. /\ World(v) /\ Frame(w, v, {"nonces"}) /\ v.nonces["spend"] = c.nonce + 1
      /\ \A key \in Authorities \ {"spend"} : v.nonces[key] = w.nonces[key]
  BY <1>3, OtherNonces, NonceOnSpend
<1> HIDE DEF v
<1>5. /\ World(x) /\ Frame(v, x, NestedFields \cup {"hook"}) /\ Onward(v, x) /\ HookEffect(v, x)
      /\ v.mode \in Exact => x.poison = v.poison
  BY <1>2 DEF TransferEffect
<1>6. /\ v.hook = w.hook /\ v.boundAt = w.boundAt /\ v.now = w.now
      /\ v.safeState = w.safeState /\ v.mode = w.mode /\ v.poison = w.poison
  BY <1>4 DEF Frame, WorldFields
<1>7. Frame(w, x, CallFields)
  <2>1. Frame(w, x, {"nonces"} \cup (NestedFields \cup {"hook"}))
    BY <1>4, <1>5, FramesJoin
  <2> QED
    BY <2>1, FrameGrows DEF CallFields, NestedFields
<1>8. x.native = w.native /\ x.other = w.other /\ x.policy = w.policy
  BY <1>4, <1>5 DEF Frame, NestedFields, WorldFields
<1>9. Rising(w, x) /\ x.nonces["spend"] >= c.nonce + 1
  <2>1. w.nonces \in [Authorities -> Nat] /\ x.nonces \in [Authorities -> Nat]
    BY <1>5 DEF World
  <2>2. \A key \in Authorities : x.nonces[key] >= v.nonces[key]
    BY <1>5 DEF Onward
  <2>3. "spend" \in Authorities
    BY DEF Authorities
  <2>4. x.nonces["spend"] >= c.nonce + 1
    BY <1>4, <2>2, <2>3
  <2>5. \A key \in Authorities : x.nonces[key] >= w.nonces[key]
    BY <1>3, <1>4, <2>1, <2>2, <2>4
  <2> QED
    BY <2>4, <2>5 DEF Rising
<1>10. /\ x.hook = w.hook \/ ~IsArmed(x)
       /\ BindsInside(w, x, c) /\ ContainsInside(w, x, c)
  BY <1>5, <1>6, HooksInside
<1>11. CallEffect(w, c, x)
  BY <1>2, <1>3, <1>5, <1>6, <1>7, <1>8, <1>9, <1>10 DEF CallEffect, NonceOf
<1> QED
  BY <1>11 DEF x

LEMMA UnspentNonces ==
    ASSUME NEW w, World(w), NEW x, x.nonces = w.nonces
    PROVE  Rising(w, x)
BY DEF World, Rising

LEMMA TokenEgressIsEffect ==
    ASSUME NEW w, World(w), Assets!Matured(w), NEW c, c.kind = "EGRESS_TOKEN",
           NEW x, EgressEffect(w, x)
    PROVE  CallEffect(w, c, x)
<1>1. /\ World(x) /\ Frame(w, x, NestedFields \cup {"hook"}) /\ Onward(w, x) /\ HookEffect(w, x)
      /\ w.mode \in Exact => x.poison = w.poison
  BY DEF EgressEffect
<1>2. Frame(w, x, CallFields)
  BY <1>1, FrameGrows DEF CallFields
<1>3. x.policy = w.policy
  BY <1>1 DEF Frame, NestedFields, WorldFields
<1>4. /\ x.hook = w.hook \/ ~IsArmed(x)
      /\ BindsInside(w, x, c) /\ ContainsInside(w, x, c)
  BY <1>1, HooksInside
<1>5. c.kind \in Assets!Egresses /\ c.kind \notin Assets!NonceBearing
  BY DEF Assets!Egresses, Assets!NonceBearing
<1> QED
  BY <1>1, <1>2, <1>3, <1>4, <1>5 DEF CallEffect, Onward, Rising

LEMMA OtherEgressIsEffect ==
    ASSUME NEW w, World(w), Assets!Matured(w), NEW c, c.kind \in {"EGRESS_NATIVE", "EGRESS_OTHER"},
           NEW x, World(x), Frame(w, x, {"native", "other", "log"})
    PROVE  CallEffect(w, c, x)
<1>1. Frame(w, x, CallFields)
  BY FrameGrows DEF CallFields, NestedFields
<1>2. /\ x.policy = w.policy /\ x.hook = w.hook /\ x.poison = w.poison /\ x.nonces = w.nonces
      /\ x.boundAt = w.boundAt /\ x.safeState = w.safeState
  BY DEF Frame, WorldFields
<1>3. c.kind \in Assets!Egresses /\ c.kind \notin Assets!NonceBearing
  BY DEF Assets!Egresses, Assets!NonceBearing
<1>4. BindsInside(w, x, c) /\ ContainsInside(w, x, c)
  BY <1>2 DEF BindsInside, ContainsInside, Binds, Contains
<1>5. Rising(w, x)
  BY <1>2, UnspentNonces
<1> QED
  BY <1>1, <1>2, <1>3, <1>4, <1>5 DEF CallEffect

\* The calls of the authorities.
LEMMA SignedIsEffect ==
    ASSUME NEW w, World(w), NEW c, NEW r, r.ok,
           \/ c.kind = "ENTER_CONTAINMENT" /\ r = Assets!EnterContainment(w, c)
           \/ c.kind = "BIND_MIGRATION" /\ r = Assets!BindMigration(w, c)
           \/ c.kind = "SET_POLICY" /\ r = Assets!SetPolicy(w, c)
    PROVE  CallEffect(w, c, r.w)
<1> DEFINE x == r.w
<1>1. CASE c.kind = "ENTER_CONTAINMENT" /\ r = Assets!EnterContainment(w, c)
  <2>1. /\ World(x) /\ Frame(w, x, {"nonces", "safeState", "containedUntil"})
        /\ Rising(w, x) /\ UsesNonce(w, r, "guardian", c.nonce) /\ c.quorum
    BY <1>1, ContainsWell
  <2> HIDE DEF x
  <2>2. Frame(w, x, CallFields)
    BY <2>1, FrameGrows DEF CallFields, NestedFields
  <2>3. /\ x.policy = w.policy /\ x.hook = w.hook /\ x.poison = w.poison /\ x.asset = w.asset
        /\ x.boundAt = w.boundAt /\ x.native = w.native /\ x.other = w.other
    BY <2>1 DEF Frame, WorldFields
  <2>4. BindsInside(w, x, c) /\ ContainsInside(w, x, c)
    BY <1>1, <2>1, <2>3 DEF BindsInside, ContainsInside, Binds, Contains
  <2>5. ~Leaves(w, x)
    BY <2>3 DEF Leaves, World, Holders
  <2>6. c.nonce = w.nonces["guardian"] /\ x.nonces["guardian"] >= c.nonce + 1
    BY <2>1 DEF UsesNonce, x
  <2> QED
    BY <1>1, <2>1, <2>2, <2>3, <2>4, <2>5, <2>6 DEF CallEffect, NonceOf, x
<1>2. CASE c.kind = "BIND_MIGRATION" /\ r = Assets!BindMigration(w, c)
  <2>1. /\ World(x) /\ Frame(w, x, {"nonces", "boundAt", "safeState"})
        /\ Rising(w, x) /\ UsesNonce(w, r, "migration", c.nonce)
        /\ w.boundAt = 0 /\ c.quorum /\ c.signed /\ x.boundAt = w.now
        /\ x.safeState = "MIGRATION_ONLY"
    BY <1>2, BindsWell
  <2> HIDE DEF x
  <2>2. Frame(w, x, CallFields)
    BY <2>1, FrameGrows DEF CallFields, NestedFields
  <2>3. /\ x.policy = w.policy /\ x.hook = w.hook /\ x.poison = w.poison /\ x.asset = w.asset
        /\ x.native = w.native /\ x.other = w.other
    BY <2>1 DEF Frame, WorldFields
  <2>4. BindsInside(w, x, c) /\ ContainsInside(w, x, c)
    BY <1>2, <2>1, <2>3 DEF BindsInside, ContainsInside, Binds, Contains
  <2>5. ~Leaves(w, x)
    BY <2>3 DEF Leaves, World, Holders
  <2>6. c.nonce = w.nonces["migration"] /\ x.nonces["migration"] >= c.nonce + 1
    BY <2>1 DEF UsesNonce, x
  <2> QED
    BY <1>2, <2>1, <2>2, <2>3, <2>4, <2>5, <2>6 DEF CallEffect, NonceOf, x
<1>3. CASE c.kind = "SET_POLICY" /\ r = Assets!SetPolicy(w, c)
  <2>1. /\ World(x) /\ Frame(w, x, {"nonces", "policy"})
        /\ Rising(w, x) /\ UsesNonce(w, r, "credential", c.nonce) /\ c.signed
    BY <1>3, SetsWell
  <2> HIDE DEF x
  <2>2. Frame(w, x, CallFields)
    BY <2>1, FrameGrows DEF CallFields, NestedFields
  <2>3. /\ x.hook = w.hook /\ x.poison = w.poison /\ x.asset = w.asset /\ x.boundAt = w.boundAt
        /\ x.native = w.native /\ x.other = w.other /\ x.safeState = w.safeState
    BY <2>1 DEF Frame, WorldFields
  <2>4. BindsInside(w, x, c) /\ ContainsInside(w, x, c)
    BY <2>3 DEF BindsInside, ContainsInside, Binds, Contains
  <2>5. ~Leaves(w, x)
    BY <2>3 DEF Leaves, World, Holders
  <2>6. c.nonce = w.nonces["credential"] /\ x.nonces["credential"] >= c.nonce + 1
    BY <2>1 DEF UsesNonce, x
  <2> QED
    BY <1>3, <2>1, <2>2, <2>3, <2>4, <2>5, <2>6 DEF CallEffect, NonceOf, x
<1> QED
  BY <1>1, <1>2, <1>3

\* What is left to call: retire, and a getter.
LEMMA IdleIsEffect ==
    ASSUME NEW w, World(w), NEW c, c.kind \notin Assets!NonceBearing, NEW x, World(x),
           Frame(w, x, {"safeState"}), x.safeState = "CONTAINED" => w.safeState = "CONTAINED"
    PROVE  CallEffect(w, c, x)
<1>1. Frame(w, x, CallFields)
  BY FrameGrows DEF CallFields, NestedFields
<1>2. /\ x.policy = w.policy /\ x.hook = w.hook /\ x.poison = w.poison /\ x.nonces = w.nonces
      /\ x.boundAt = w.boundAt /\ x.asset = w.asset /\ x.native = w.native /\ x.other = w.other
  BY DEF Frame, WorldFields
<1>3. BindsInside(w, x, c) /\ ContainsInside(w, x, c)
  BY <1>2 DEF BindsInside, ContainsInside, Binds, Contains
<1>4. Rising(w, x)
  BY <1>2, UnspentNonces
<1>5. ~Leaves(w, x)
  BY <1>2 DEF Leaves, World, Holders
<1> QED
  BY <1>1, <1>2, <1>3, <1>4, <1>5 DEF CallEffect

\* A call that is refused changes nothing, and one that goes through what it is for.
Proceeds(w, c, r) == Refusable(w, r) /\ (r.ok => CallEffect(w, c, r.w))

LEMMA SpendProceeds ==
    ASSUME NEW w, World(w), Ready(w), NEW c, Sendable(c), c.kind = "SPEND"
    PROVE  Proceeds(w, c, Assets!Exec(w, c))
<1> DEFINE paid == Assets!Transfer(Assets!SpendNonce(w, c.nonce), c.to, c.amount)
           r == Assets!Exec(w, c)
<1>1. r = Assets!Spend(w, c, paid)
  BY DEF Assets!Exec, Assets!Call, Assets!Egresses
<1>2. r.ok => CallEffect(w, c, r.w)
  BY SpendIsEffect
<1> HIDE DEF paid, r
<1>3. r = Assets!Refused(w) \/ r = Assets!Done(paid.w)
  BY <1>1 DEF Assets!Spend, Assets!Exactly
<1>4. r.ok \in BOOLEAN /\ (~r.ok => r.w = w)
  BY <1>3, Outcomes
<1>5. Proceeds(w, c, r)
  BY <1>2, <1>4 DEF Proceeds, Refusable
<1> QED
  BY <1>5 DEF r

\* An egress that goes through accounts for what left.
Egressed(w, c, x) ==
    /\ Assets!Matured(w)
    /\ c.kind = "EGRESS_TOKEN" => EgressEffect(w, x)
    /\ c.kind = "EGRESS_NATIVE" => Accounted(w.native, x.native, w, x)
    /\ c.kind = "EGRESS_OTHER" => Accounted(w.other, x.other, w, x)

LEMMA EgressProceeds ==
    ASSUME NEW w, World(w), Ready(w), NEW c, c.kind \in Assets!Egresses
    PROVE  LET r == Assets!Exec(w, c) IN
           Proceeds(w, c, r) /\ (r.ok => Egressed(w, c, r.w))
<1> DEFINE paid == Assets!Transfer(w, "destination", Assets!balanceOf(w))
           r == Assets!Exec(w, c)
<1>1. r = Assets!Egress(w, c.kind, paid)
  BY DEF Assets!Exec, Assets!Call, Assets!Egresses
<1>2. paid = Assets!Transfer(w, "destination", Assets!balanceOf(w))
  OBVIOUS
<1>3. Assets!Refused(w).ok = FALSE /\ Assets!Refused(w).w = w
  BY Outcomes
<1> HIDE DEF paid, r
<1>4. CASE ~Assets!Matured(w)
  <2>1. r = Assets!Refused(w)
    BY <1>1, <1>4 DEF Assets!Egress
  <2>2. r.ok \in BOOLEAN /\ ~r.ok /\ r.w = w
    BY <1>3, <2>1
  <2> QED
    BY <2>2 DEF Proceeds, Refusable, r
<1>5. CASE Assets!Matured(w) /\ c.kind = "EGRESS_TOKEN"
  <2>1. r = Assets!EgressToken(w, paid)
    BY <1>1, <1>5 DEF Assets!Egress
  <2>2. r.ok \in BOOLEAN /\ (~r.ok => r.w = w)
    <3>1. \/ r = Assets!Refused(w) \/ r = Assets!Published(w, 0)
          \/ r = Assets!Published(paid.w, Assets!balanceOf(w) - Assets!balanceOf(paid.w))
      BY <2>1 DEF Assets!EgressToken, Assets!Emptied
    <3>2. \A z, n : Assets!Published(z, n).ok = TRUE
      BY Outcomes DEF Assets!Published
    <3> QED
      BY <1>3, <3>1, <3>2
  <2>3. r.ok => EgressEffect(w, r.w)
    BY <1>2, <1>5, <2>1, TokenEgresses
  <2>4. r.ok => CallEffect(w, c, r.w)
    BY <1>5, <2>3, TokenEgressIsEffect
  <2> QED
    BY <1>5, <2>2, <2>3, <2>4 DEF Proceeds, Refusable, Egressed, r
<1>6. CASE Assets!Matured(w) /\ c.kind = "EGRESS_NATIVE"
  <2>1. r = Assets!EgressNative(w)
    BY <1>1, <1>6 DEF Assets!Egress
  <2>2. Refusable(w, r) /\ (r.ok => Accounted(w.native, r.w.native, w, r.w))
    BY <2>1, NativeEgresses
  <2>3. World(r.w) /\ Frame(w, r.w, {"native", "other", "log"})
    BY <2>1, EgressesNative, FrameGrows
  <2>4. r.ok => CallEffect(w, c, r.w)
    BY <1>6, <2>3, OtherEgressIsEffect
  <2> QED
    BY <1>6, <2>2, <2>4 DEF Proceeds, Egressed, r
<1>7. CASE Assets!Matured(w) /\ c.kind = "EGRESS_OTHER"
  <2>1. r = Assets!EgressOther(w)
    BY <1>1, <1>7 DEF Assets!Egress
  <2>2. Refusable(w, r) /\ (r.ok => Accounted(w.other, r.w.other, w, r.w))
    BY <2>1, OtherEgresses
  <2>3. World(r.w) /\ Frame(w, r.w, {"native", "other", "log"})
    BY <2>1, EgressesOther, FrameGrows
  <2>4. r.ok => CallEffect(w, c, r.w)
    BY <1>7, <2>3, OtherEgressIsEffect
  <2> QED
    BY <1>7, <2>2, <2>4 DEF Proceeds, Egressed, r
<1> QED
  BY <1>4, <1>5, <1>6, <1>7 DEF Assets!Egresses

LEMMA CallsProceed ==
    ASSUME NEW w, World(w), Ready(w), NEW c, Sendable(c)
    PROVE  Proceeds(w, c, Assets!Exec(w, c))
<1> DEFINE r == Assets!Exec(w, c)
           spent == Assets!Transfer(Assets!SpendNonce(w, c.nonce), c.to, c.amount)
           emptied == Assets!Transfer(w, "destination", Assets!balanceOf(w))
<1>1. r = Assets!Call(w, c, spent, emptied)
  BY DEF Assets!Exec
<1>2. Assets!Refused(w).ok = FALSE /\ Assets!Refused(w).w = w
  BY Outcomes
<1>3. CASE c.kind = "SPEND"
  BY <1>3, SpendProceeds
<1>4. CASE c.kind \in Assets!Egresses
  BY <1>4, EgressProceeds
<1> HIDE DEF spent, emptied, r
<1>5. CASE c.kind = "ENTER_CONTAINMENT"
  <2>1. r = Assets!EnterContainment(w, c)
    BY <1>1, <1>5 DEF Assets!Call, Assets!Egresses
  <2>2. Refusable(w, r)
    BY <2>1, ContainsWell
  <2> QED
    BY <1>5, <2>1, <2>2, SignedIsEffect DEF Proceeds, r
<1>6. CASE c.kind = "BIND_MIGRATION"
  <2>1. r = Assets!BindMigration(w, c)
    BY <1>1, <1>6 DEF Assets!Call, Assets!Egresses
  <2>2. Refusable(w, r)
    BY <2>1, BindsWell
  <2> QED
    BY <1>6, <2>1, <2>2, SignedIsEffect DEF Proceeds, r
<1>7. CASE c.kind = "SET_POLICY"
  <2>1. r = Assets!SetPolicy(w, c)
    BY <1>1, <1>7 DEF Assets!Call, Assets!Egresses
  <2>2. Refusable(w, r)
    BY <2>1, SetsWell
  <2> QED
    BY <1>7, <2>1, <2>2, SignedIsEffect DEF Proceeds, r
<1>8. CASE c.kind = "RETIRE"
  <2> DEFINE v == [w EXCEPT !.safeState = "RETIRED"]
  <2>1. r = IF Assets!Matured(w) THEN Assets!Done(v) ELSE Assets!Refused(w)
    BY <1>1, <1>8 DEF Assets!Call, Assets!Egresses
  <2>2. CASE Assets!Matured(w)
    <3>1. World(v) /\ Frame(w, v, {"safeState"}) /\ v.safeState = "RETIRED"
      BY <2>2, RetiresWell DEF World, WorldFields
    <3> HIDE DEF v
    <3>2. CallEffect(w, c, v)
      BY <1>8, <3>1, IdleIsEffect DEF Assets!NonceBearing
    <3>3. r.ok = TRUE /\ r.w = v
      BY <2>1, <2>2, Outcomes
    <3> QED
      BY <3>2, <3>3 DEF Proceeds, Refusable, r
  <2>3. CASE ~Assets!Matured(w)
    <3>1. r.ok = FALSE /\ r.w = w
      BY <1>2, <2>1, <2>3
    <3> QED
      BY <3>1 DEF Proceeds, Refusable, r
  <2> QED
    BY <2>2, <2>3
<1>9. CASE c.kind \notin Assets!NonceBearing \cup Assets!Egresses \cup {"RETIRE"}
  <2>1. r = Assets!Done(w)
    BY <1>1, <1>9 DEF Assets!Call, Assets!Egresses, Assets!NonceBearing
  <2>2. r.ok = TRUE /\ r.w = w
    BY <2>1, Outcomes
  <2>3. Frame(w, w, {"safeState"})
    BY DEF World, Frame
  <2>4. CallEffect(w, c, w)
    BY <1>9, <2>3, IdleIsEffect
  <2> QED
    BY <2>2, <2>4 DEF Proceeds, Refusable, r
<1> QED
  BY <1>3, <1>4, <1>5, <1>6, <1>7, <1>8, <1>9 DEF Assets!NonceBearing

-----------------------------------------------------------------------------
(* A call and the call in it, one after the other                           *)

\* The amount went from the vault to somebody, and nothing else happened.
Passed(w, x, to, amount) ==
    /\ World(x) /\ Frame(w, x, {"log", "asset"})
    /\ x.asset = Assets!Settled(w.asset, to, amount, amount)

LEMMA SettledVault ==
    ASSUME NEW a \in [Holders -> Nat], NEW to \in Payees, NEW amount \in Nat
    PROVE  /\ Assets!Settled(a, to, amount, amount)["vault"]
                = IF to = "vault" THEN a["vault"] ELSE a["vault"] - amount
           /\ Assets!Settled(a, to, 0, 0) = a
<1> DEFINE b == Assets!Settled(a, to, 0, 0)
<1>1. \A h \in Holders : b[h] = a[h]
  BY DEF Assets!Settled, Holders
<1>2. b = [h \in Holders |-> b[h]]
  BY DEF Assets!Settled
<1> HIDE DEF b
<1>3. b = a
  BY <1>1, <1>2
<1>4. Assets!Settled(a, to, amount, amount)["vault"]
        = IF to = "vault" THEN a["vault"] ELSE a["vault"] - amount
  BY DEF Assets!Settled, Holders, Payees
<1> QED
  BY <1>3, <1>4 DEF b

\* A tame token moves what it is asked for, if the vault has it.
LEMMA TameMoves ==
    ASSUME NEW w, World(w), Tame(w), NEW to \in Payees, NEW amount \in Nat
    PROVE  LET r == Assets!Moved(w, to, amount) IN
           /\ r.ok \in BOOLEAN /\ (r.ok <=> amount <= w.asset["vault"])
           /\ (r.ok => Passed(w, r.w, to, amount))
<1> DEFINE s == Assets!Settled(w.asset, to, amount, amount)
           v == [w EXCEPT !.asset = s]
           r == Assets!Moved(w, to, amount)
<1>0. w.asset["vault"] \in Nat
  BY DEF World, Holders
<1>1. Assets!Debit(w.mode, amount) = amount /\ Assets!Credit(w.mode, amount) = amount
  BY DEF Tame, Exact, Assets!Debit, Assets!Credit
<1>2. IF w.asset["vault"] < amount THEN r = Assets!Refused(w) ELSE r = Assets!Done(v)
  BY <1>1 DEF Tame, Exact, Assets!Moved, Assets!NoMove, Assets!QueryFails
<1> HIDE DEF s
<1>3. Frame(w, v, {"asset"}) /\ v.asset = s
  BY DEF World, Frame, WorldFields
<1> HIDE DEF v
<1>4. World(r.w)
  BY TransferMoves DEF Moves
<1> HIDE DEF r
<1>5. CASE amount <= w.asset["vault"]
  <2>0. ~(w.asset["vault"] < amount)
    BY <1>0, <1>5
  <2>1. r.w = v /\ r.ok = TRUE
    BY <1>2, <2>0, Outcomes
  <2>2. Frame(w, v, {"log", "asset"})
    BY <1>3, FrameGrows
  <2>3. r.ok \in BOOLEAN /\ r.ok /\ Passed(w, r.w, to, amount)
    BY <1>3, <1>4, <2>1, <2>2 DEF Passed, s
  <2>4. r.ok <=> amount <= w.asset["vault"]
    BY <1>5, <2>3
  <2> QED
    BY <2>3, <2>4 DEF r
<1>6. CASE ~(amount <= w.asset["vault"])
  <2>0. w.asset["vault"] < amount
    BY <1>0, <1>6
  <2>1. r.w = w /\ r.ok = FALSE
    BY <1>2, <2>0, Outcomes
  <2>2. r.ok \in BOOLEAN /\ ~r.ok
    BY <2>1
  <2>3. r.ok <=> amount <= w.asset["vault"]
    BY <1>6, <2>2
  <2> QED
    BY <2>2, <2>3 DEF r
<1> QED
  BY <1>5, <1>6

Unfrozen(w, to) == w.frozen \cap {"vault", to} = {}

LEMMA TamePlain ==
    ASSUME NEW w, World(w), Tame(w), NEW to \in Payees, NEW amount \in Nat
    PROVE  LET r == Assets!PlainTransfer(w, to, amount) IN
           /\ r.ok \in BOOLEAN /\ (r.ok <=> Unfrozen(w, to) /\ amount <= w.asset["vault"])
           /\ (r.ok => Passed(w, r.w, to, amount))
<1> DEFINE v == [w EXCEPT !.log.transfers = w.log.transfers + 1]
           m == Assets!Moved(v, to, amount)
           r == Assets!PlainTransfer(w, to, amount)
<1>1. World(v) /\ Frame(w, v, {"log"})
  BY OneMoreTransfer
<1>2. w.mode # "REVERTS"
  BY DEF Tame, Exact
<1>3. IF Unfrozen(w, to) THEN r = m ELSE r = Assets!Refused(w)
  BY <1>2 DEF Assets!PlainTransfer, Unfrozen
<1> HIDE DEF v
<1>4. Tame(v) /\ v.asset = w.asset
  BY <1>1 DEF Tame, Frame, WorldFields
<1>5. /\ m.ok \in BOOLEAN /\ (m.ok <=> amount <= w.asset["vault"])
      /\ (m.ok => Passed(v, m.w, to, amount))
  BY <1>1, <1>4, TameMoves
<1> HIDE DEF r, m
<1>6. m.ok => Passed(w, m.w, to, amount)
  <2>1. ASSUME m.ok
        PROVE  Frame(w, m.w, {"log", "asset"})
    <3>1. Frame(w, m.w, {"log"} \cup {"log", "asset"})
      BY <1>1, <1>5, <2>1, FramesJoin DEF Passed
    <3> QED
      BY <3>1, FrameGrows
  <2> QED
    BY <1>4, <1>5, <2>1 DEF Passed
<1>7. CASE Unfrozen(w, to)
  BY <1>3, <1>5, <1>6, <1>7 DEF r
<1>8. CASE ~Unfrozen(w, to)
  <2>1. r.ok = FALSE
    BY <1>3, <1>8, Outcomes
  <2>2. r.ok \in BOOLEAN /\ ~r.ok
    BY <2>1
  <2> QED
    BY <1>8, <2>2 DEF r
<1> QED
  BY <1>7, <1>8

\* A spend that a tame token lets through, and what it does.
MaySettle(w, c) ==
    /\ Assets!MaySpend(w, c) /\ Unfrozen(w, c.to) /\ c.amount <= w.asset["vault"]
    /\ c.to = "vault" => c.amount = 0

Settles(w, c, x) ==
    /\ World(x) /\ Frame(w, x, {"log", "asset", "nonces"})
    /\ x.nonces = Assets!SpendNonce(w, c.nonce).nonces
    /\ x.asset = Assets!Settled(w.asset, c.to, c.amount, c.amount)

LEMMA TameSpends ==
    ASSUME NEW w, World(w), Tame(w), NEW c, Sendable(c), c.kind = "SPEND"
    PROVE  LET r == Assets!Nested(w, c) IN
           /\ r.ok \in BOOLEAN /\ (r.ok <=> MaySettle(w, c))
           /\ (r.ok => Settles(w, c, r.w)) /\ (~r.ok => r.w = w)
<1> DEFINE v == Assets!SpendNonce(w, c.nonce)
           paid == Assets!PlainTransfer(v, c.to, c.amount)
           x == paid.w
           r == Assets!Nested(w, c)
<1>0. /\ c.amount \in Nat /\ c.to \in Payees /\ c.nonce \in Nat
      /\ w.asset \in [Holders -> Nat] /\ w.asset["vault"] \in Nat
  BY DEF Sendable, Payees, World, Holders
<1>1. World(v) /\ Frame(w, v, {"nonces"})
  BY <1>0, OtherNonces
<1>2. r = IF Assets!MaySpend(w, c) THEN Assets!Exactly(w, c, paid) ELSE Assets!Refused(w)
  BY DEF Assets!Nested, Assets!Call, Assets!Egresses, Assets!Spend
<1>3. Assets!balanceOf(w) = w.asset["vault"]
  BY TameBalance DEF Tame
<1> HIDE DEF r
<1> HIDE DEF v
<1>4. Tame(v) /\ v.asset = w.asset /\ v.frozen = w.frozen
  BY <1>1 DEF Tame, Frame, WorldFields
<1>5. /\ paid.ok \in BOOLEAN
      /\ (paid.ok <=> Unfrozen(v, c.to) /\ c.amount <= v.asset["vault"])
      /\ (paid.ok => Passed(v, x, c.to, c.amount))
  BY <1>0, <1>1, <1>4, TamePlain
<1> HIDE DEF paid
<1>6. paid.ok <=> Unfrozen(w, c.to) /\ c.amount <= w.asset["vault"]
  BY <1>4, <1>5 DEF Unfrozen
<1>7. ASSUME paid.ok
      PROVE  /\ Settles(w, c, x) /\ Assets!balanceOf(x) = x.asset["vault"]
             /\ ~Assets!BalanceFails(x)
             /\ x.asset["vault"] = IF c.to = "vault" THEN w.asset["vault"]
                                   ELSE w.asset["vault"] - c.amount
  <2>1. Passed(v, x, c.to, c.amount)
    BY <1>5, <1>7
  <2>2. Frame(w, x, {"nonces"} \cup {"log", "asset"})
    BY <1>1, <2>1, FramesJoin DEF Passed
  <2>3. Frame(w, x, {"log", "asset", "nonces"})
    BY <2>2, FrameGrows
  <2>4. x.nonces = v.nonces /\ x.poison = w.poison
    BY <2>1, <2>3 DEF Passed, Frame, WorldFields
  <2>5. Settles(w, c, x)
    BY <1>4, <2>1, <2>3, <2>4 DEF Settles, Passed, v
  <2>6. Assets!balanceOf(x) = x.asset["vault"] /\ ~Assets!BalanceFails(x)
    BY <2>4, TameBalance DEF Tame
  <2> QED
    BY <1>0, <2>5, <2>6, SettledVault DEF Settles
<1>8. ASSUME Assets!MaySpend(w, c)
      PROVE  IF paid.ok /\ (c.to = "vault" => c.amount = 0) THEN r = Assets!Done(x)
             ELSE r = Assets!Refused(w)
  <2>1. r = Assets!Exactly(w, c, paid)
    BY <1>2, <1>8
  <2>2. ASSUME paid.ok
        PROVE  Assets!balanceOf(w) - Assets!balanceOf(x) = c.amount
                 <=> (c.to = "vault" => c.amount = 0)
    BY <1>0, <1>3, <1>7, <2>2
  <2>3. ASSUME paid.ok
        PROVE  ~Assets!BalanceFails(x)
    BY <1>7, <2>3
  <2> QED
    BY <2>1, <2>2, <2>3 DEF Assets!Exactly
<1>9. CASE MaySettle(w, c)
  <2>1. paid.ok /\ r = Assets!Done(x)
    BY <1>6, <1>8, <1>9 DEF MaySettle
  <2>2. r.w = x /\ r.ok = TRUE
    BY <2>1, Outcomes
  <2>3. r.ok \in BOOLEAN /\ r.ok /\ Settles(w, c, r.w)
    BY <1>7, <2>1, <2>2
  <2> QED
    BY <1>9, <2>3 DEF r
<1>10. CASE ~MaySettle(w, c)
  <2>1. r = Assets!Refused(w)
    BY <1>2, <1>6, <1>8, <1>10 DEF MaySettle
  <2>2. r.w = w /\ r.ok = FALSE
    BY <2>1, Outcomes
  <2>3. r.ok \in BOOLEAN /\ ~r.ok /\ r.w = w
    BY <2>2
  <2> QED
    BY <1>10, <2>3 DEF r
<1> QED
  BY <1>9, <1>10

\* An egress of the admitted asset that a tame token lets through, and what it does.
MayEmpty(w) ==
    Assets!Matured(w) /\ (w.asset["vault"] = 0 \/ Unfrozen(w, "destination"))

LEMMA TameEgresses ==
    ASSUME NEW w, World(w), Tame(w), NEW c, c.kind = "EGRESS_TOKEN"
    PROVE  LET r == Assets!Nested(w, c) IN
           /\ r.ok \in BOOLEAN /\ (r.ok <=> MayEmpty(w))
           /\ (r.ok => Passed(w, r.w, "destination", w.asset["vault"])) /\ (~r.ok => r.w = w)
<1> DEFINE held == w.asset["vault"]
           paid == Assets!PlainTransfer(w, "destination", Assets!balanceOf(w))
           r == Assets!Nested(w, c)
           p == Assets!Published(w, 0)
           q == Assets!Published(paid.w, held - paid.w.asset["vault"])
<1>0. /\ Assets!balanceOf(w) = held /\ ~Assets!BalanceFails(w) /\ held \in Nat
      /\ w.asset \in [Holders -> Nat] /\ "destination" \in Payees
  BY TameBalance DEF Tame, World, Holders, Payees
<1>1. /\ paid.ok \in BOOLEAN /\ (paid.ok <=> Unfrozen(w, "destination"))
      /\ (paid.ok => Passed(w, paid.w, "destination", held))
  <2>1. held <= held
    BY <1>0
  <2> QED
    BY <1>0, <2>1, TamePlain
<1>2. r = IF ~Assets!Matured(w) THEN Assets!Refused(w)
          ELSE IF held = 0 THEN p ELSE Assets!Emptied(w, paid)
  BY <1>0 DEF Assets!Nested, Assets!Call, Assets!Egresses, Assets!Egress, Assets!EgressToken
<1>3. Assets!Settled(w.asset, "destination", 0, 0) = w.asset
  BY <1>0, SettledVault
<1>4. CASE Assets!Matured(w) /\ held = 0
  <2>1. r = p
    BY <1>2, <1>4
  <2> HIDE DEF r, held
  <2>2. World(p.w) /\ p.ok = TRUE /\ Frame(w, p.w, {"log"})
    BY Publishes
  <2> HIDE DEF p
  <2>3. p.w.asset = w.asset /\ Frame(w, p.w, {"log", "asset"})
    BY <2>2, FrameGrows DEF Frame, WorldFields
  <2>4. Passed(w, r.w, "destination", held)
    BY <1>3, <1>4, <2>1, <2>2, <2>3 DEF Passed
  <2>5. r.ok \in BOOLEAN /\ r.ok /\ MayEmpty(w)
    BY <1>4, <2>1, <2>2 DEF MayEmpty, held
  <2> QED
    BY <2>4, <2>5 DEF r, held
<1>5. CASE Assets!Matured(w) /\ held # 0 /\ Unfrozen(w, "destination")
  <2>1. r = Assets!Emptied(w, paid)
    BY <1>2, <1>5
  <2>2. paid.ok /\ Passed(w, paid.w, "destination", held)
    BY <1>1, <1>5
  <2> HIDE DEF paid, r, held
  <2>3. paid.w.poison = w.poison /\ World(paid.w) /\ Frame(w, paid.w, {"log", "asset"})
    BY <2>2 DEF Passed, Frame, WorldFields
  <2>4. Assets!balanceOf(paid.w) = paid.w.asset["vault"] /\ ~Assets!BalanceFails(paid.w)
    BY <2>3, TameBalance DEF Tame
  <2>5. paid.w.asset["vault"] = 0
    <3>1. paid.w.asset["vault"] = w.asset["vault"] - held
      BY <1>0, <2>2, SettledVault DEF Passed
    <3> QED
      BY <1>0, <3>1 DEF held
  <2>6. r = q
    <3>1. Assets!balanceOf(paid.w) < Assets!balanceOf(w)
      BY <1>0, <1>5, <2>4, <2>5
    <3> QED
      BY <1>0, <2>1, <2>2, <2>4, <3>1 DEF Assets!Emptied
  <2>7. held - paid.w.asset["vault"] \in Nat
    BY <1>0, <2>5
  <2>8. World(q.w) /\ q.ok = TRUE /\ Frame(paid.w, q.w, {"log"})
    BY <2>3, <2>7, Publishes
  <2> HIDE DEF q
  <2>9. q.w.asset = paid.w.asset
    BY <2>8 DEF Frame, WorldFields
  <2>10. Frame(w, q.w, {"log", "asset"})
    <3>1. Frame(w, q.w, {"log", "asset"} \cup {"log"})
      BY <2>3, <2>8, FramesJoin
    <3> QED
      BY <3>1, FrameGrows
  <2>11. Passed(w, r.w, "destination", held)
    BY <2>2, <2>6, <2>8, <2>9, <2>10 DEF Passed
  <2>12. r.ok \in BOOLEAN /\ r.ok /\ MayEmpty(w)
    BY <1>5, <2>6, <2>8 DEF MayEmpty, held
  <2> QED
    BY <2>11, <2>12 DEF r, held
<1>6. CASE ~MayEmpty(w)
  <2>1. r = Assets!Refused(w)
    <3>1. CASE ~Assets!Matured(w)
      BY <1>2, <3>1
    <3>2. CASE Assets!Matured(w)
      <4>1. held # 0 /\ ~paid.ok
        BY <1>1, <1>6, <3>2 DEF MayEmpty
      <4> QED
        BY <1>2, <3>2, <4>1 DEF Assets!Emptied
    <3> QED
      BY <3>1, <3>2
  <2> HIDE DEF r
  <2>2. r.w = w /\ r.ok = FALSE
    BY <2>1, Outcomes
  <2>3. r.ok \in BOOLEAN /\ ~r.ok /\ r.w = w
    BY <2>2
  <2> QED
    BY <1>6, <2>3 DEF r
<1> QED
  BY <1>4, <1>5, <1>6 DEF MayEmpty

\* The calls that move nothing do the same whatever there is, and leave it there.
Agree(r, s) ==
    /\ r.ok \in BOOLEAN /\ s.ok \in BOOLEAN /\ (r.ok <=> s.ok)
    /\ Frame(r.w, s.w, {"log", "asset"})

LEMMA AgreeEither ==
    ASSUME NEW u, NEW x, NEW a, NEW b, NEW P,
           Frame(u, x, {"log", "asset"}), Frame(a, b, {"log", "asset"}),
           a.asset = u.asset, b.asset = x.asset,
           NEW r, NEW s,
           IF P THEN r = Assets!Done(a) ELSE r = Assets!Refused(u),
           IF P THEN s = Assets!Done(b) ELSE s = Assets!Refused(x)
    PROVE  Agree(r, s) /\ r.w.asset = u.asset /\ s.w.asset = x.asset
<1>1. CASE P
  <2>1. r.w = a /\ r.ok = TRUE /\ s.w = b /\ s.ok = TRUE
    BY <1>1, Outcomes
  <2>2. r.ok \in BOOLEAN /\ s.ok \in BOOLEAN /\ r.ok /\ s.ok
    BY <2>1
  <2> QED
    BY <2>1, <2>2 DEF Agree
<1>2. CASE ~P
  <2>1. r.w = u /\ r.ok = FALSE /\ s.w = x /\ s.ok = FALSE
    BY <1>2, Outcomes
  <2>2. r.ok \in BOOLEAN /\ s.ok \in BOOLEAN /\ ~r.ok /\ ~s.ok
    BY <2>1
  <2> QED
    BY <2>1, <2>2 DEF Agree
<1> QED
  BY <1>1, <1>2

LEMMA OthersAgree ==
    ASSUME NEW u, World(u), NEW x, World(x), Frame(u, x, {"log", "asset"}), NEW c,
           c.kind \in {"NONCES", "ENTER_CONTAINMENT", "BIND_MIGRATION", "RETIRE"}
    PROVE  LET r == Assets!Nested(u, c)
               s == Assets!Nested(x, c)
           IN  Agree(r, s) /\ r.w.asset = u.asset /\ s.w.asset = x.asset
<1> DEFINE r == Assets!Nested(u, c)
           s == Assets!Nested(x, c)
<1>0. /\ u = [f \in WorldFields |-> u[f]] /\ x = [f \in WorldFields |-> x[f]]
      /\ \A f \in WorldFields \ {"log", "asset"} : x[f] = u[f]
  BY DEF Frame, World
<1>1. /\ x.now = u.now /\ x.safeState = u.safeState /\ x.containedUntil = u.containedUntil
      /\ x.nonces = u.nonces /\ x.boundAt = u.boundAt /\ x.policy = u.policy
  BY <1>0 DEF WorldFields
<1>2. /\ Assets!IsNormal(u) <=> Assets!IsNormal(x)
      /\ Assets!Matured(u) <=> Assets!Matured(x)
      /\ Assets!BindingContext(u) = Assets!BindingContext(x)
  BY <1>1 DEF Assets!IsNormal, Assets!EffectiveState, Assets!Matured, Assets!BindingContext
<1>3. CASE c.kind = "NONCES"
  <2>1. r = Assets!Done(u) /\ s = Assets!Done(x)
    BY <1>3 DEF Assets!Nested, Assets!Call, Assets!Egresses
  <2> HIDE DEF r, s
  <2> DEFINE P == TRUE
  <2>2. /\ IF P THEN r = Assets!Done(u) ELSE r = Assets!Refused(u)
        /\ IF P THEN s = Assets!Done(x) ELSE s = Assets!Refused(x)
    BY <2>1
  <2> HIDE DEF P
  <2>3. Agree(r, s) /\ r.w.asset = u.asset /\ s.w.asset = x.asset
    BY <2>2, AgreeEither
  <2> QED
    BY <2>3 DEF r, s
<1>4. CASE c.kind = "ENTER_CONTAINMENT"
  <2> DEFINE P == /\ Assets!IsNormal(u) /\ c.quorum /\ c.nonce = u.nonces["guardian"]
                  /\ u.nonces["guardian"] < 2
             n == [u.nonces EXCEPT !["guardian"] = u.nonces["guardian"] + 1]
             m == [x.nonces EXCEPT !["guardian"] = x.nonces["guardian"] + 1]
             a == [u EXCEPT !.nonces = n, !.safeState = "CONTAINED",
                            !.containedUntil = u.now + AssetContainment]
             b == [x EXCEPT !.nonces = m, !.safeState = "CONTAINED",
                            !.containedUntil = x.now + AssetContainment]
  <2>1. /\ IF P THEN r = Assets!Done(a) ELSE r = Assets!Refused(u)
        /\ IF P THEN s = Assets!Done(b) ELSE s = Assets!Refused(x)
    BY <1>1, <1>2, <1>4 DEF Assets!Nested, Assets!Call, Assets!Egresses, Assets!EnterContainment
  <2> HIDE DEF P, r, s
  <2>2. n = m
    BY <1>1
  <2> HIDE DEF n, m
  <2>3. Frame(a, b, {"log", "asset"}) /\ a.asset = u.asset /\ b.asset = x.asset
    BY <1>0, <1>1, <2>2 DEF Frame, WorldFields
  <2> HIDE DEF a, b
  <2>4. Agree(r, s) /\ r.w.asset = u.asset /\ s.w.asset = x.asset
    BY <2>1, <2>3, AgreeEither
  <2> QED
    BY <2>4 DEF r, s
<1>5. CASE c.kind = "BIND_MIGRATION"
  <2> DEFINE P == /\ u.boundAt = 0 /\ c.destination = "bound" /\ c.quorum /\ c.signed
                  /\ c.nonce = u.nonces["migration"] /\ c.context = Assets!BindingContext(u)
             n == [u.nonces EXCEPT !["migration"] = u.nonces["migration"] + 1]
             m == [x.nonces EXCEPT !["migration"] = x.nonces["migration"] + 1]
             a == [u EXCEPT !.nonces = n, !.boundAt = u.now, !.safeState = "MIGRATION_ONLY"]
             b == [x EXCEPT !.nonces = m, !.boundAt = x.now, !.safeState = "MIGRATION_ONLY"]
  <2>1. /\ IF P THEN r = Assets!Done(a) ELSE r = Assets!Refused(u)
        /\ IF P THEN s = Assets!Done(b) ELSE s = Assets!Refused(x)
    BY <1>1, <1>2, <1>5 DEF Assets!Nested, Assets!Call, Assets!Egresses, Assets!BindMigration
  <2> HIDE DEF P, r, s
  <2>2. n = m
    BY <1>1
  <2> HIDE DEF n, m
  <2>3. Frame(a, b, {"log", "asset"}) /\ a.asset = u.asset /\ b.asset = x.asset
    BY <1>0, <1>1, <2>2 DEF Frame, WorldFields
  <2> HIDE DEF a, b
  <2>4. Agree(r, s) /\ r.w.asset = u.asset /\ s.w.asset = x.asset
    BY <2>1, <2>3, AgreeEither
  <2> QED
    BY <2>4 DEF r, s
<1>6. CASE c.kind = "RETIRE"
  <2> DEFINE P == Assets!Matured(u)
             a == [u EXCEPT !.safeState = "RETIRED"]
             b == [x EXCEPT !.safeState = "RETIRED"]
  <2>1. /\ IF P THEN r = Assets!Done(a) ELSE r = Assets!Refused(u)
        /\ IF P THEN s = Assets!Done(b) ELSE s = Assets!Refused(x)
    BY <1>2, <1>6 DEF Assets!Nested, Assets!Call, Assets!Egresses
  <2> HIDE DEF P, r, s
  <2>3. Frame(a, b, {"log", "asset"}) /\ a.asset = u.asset /\ b.asset = x.asset
    BY <1>0, <1>1 DEF Frame, WorldFields
  <2> HIDE DEF a, b
  <2>4. Agree(r, s) /\ r.w.asset = u.asset /\ s.w.asset = x.asset
    BY <2>1, <2>3, AgreeEither
  <2> QED
    BY <2>4 DEF r, s
<1> QED
  BY <1>3, <1>4, <1>5, <1>6

\* A token that calls nobody makes the same transfer either way.
LEMMA UnhookedTransfer ==
    ASSUME NEW w, World(w), ~IsArmed(w), NEW to \in Payees, NEW amount \in Nat
    PROVE  Assets!Transfer(w, to, amount) = Assets!PlainTransfer(w, to, amount)
<1> DEFINE v == [w EXCEPT !.log.transfers = w.log.transfers + 1]
           m == Assets!Moved(v, to, amount)
           stopped == w.frozen \cap {"vault", to} # {} \/ w.mode = "REVERTS"
<1>1. World(v) /\ Frame(w, v, {"log"})
  BY OneMoreTransfer
<1>2. Assets!Transfer(w, to, amount)
        = IF stopped THEN Assets!Refused(w)
          ELSE Assets!Left(Assets!Moved(Assets!Entered(v), to, amount))
  BY DEF Assets!Transfer
<1>3. Assets!PlainTransfer(w, to, amount) = IF stopped THEN Assets!Refused(w) ELSE m
  BY DEF Assets!PlainTransfer
<1> HIDE DEF v
<1>4. ~IsArmed(v)
  BY <1>1 DEF IsArmed, Frame, WorldFields
<1>5. Assets!Entered(v) = v
  BY <1>4 DEF Assets!Entered, Assets!None, IsArmed
<1>6. Moves(v, m, to, amount)
  BY <1>1, TransferMoves
<1> HIDE DEF m
<1>7. m.w.hook = v.hook
  BY <1>6 DEF Moves, Frame, WorldFields
<1>8. Assets!Left(m) = m
  BY <1>4, <1>7 DEF Assets!Left, Assets!None, IsArmed
<1>9. Assets!Left(Assets!Moved(Assets!Entered(v), to, amount)) = m
  BY <1>5, <1>8 DEF m
<1> QED
  BY <1>2, <1>3, <1>9

LEMMA Unhooked ==
    ASSUME NEW w, World(w), ~IsArmed(w), NEW c, Sendable(c),
           c.kind \in HookCalls
    PROVE  Assets!Exec(w, c) = Assets!Nested(w, c)
<1> DEFINE v == Assets!SpendNonce(w, c.nonce)
           paid == Assets!PlainTransfer(v, c.to, c.amount)
           sent == Assets!Transfer(v, c.to, c.amount)
           emptied == Assets!PlainTransfer(w, "destination", Assets!balanceOf(w))
           left == Assets!Transfer(w, "destination", Assets!balanceOf(w))
<1>1. left = emptied
  BY UnhookedTransfer, Balances DEF Payees
<1>2. ASSUME c.kind = "SPEND"
      PROVE  sent = paid
  <2>1. c.amount \in Nat /\ c.to \in Payees /\ c.nonce \in Nat
    BY <1>2 DEF Sendable, Payees
  <2>2. World(v) /\ Frame(w, v, {"nonces"})
    BY <2>1, OtherNonces
  <2> HIDE DEF v
  <2>3. ~IsArmed(v)
    BY <2>2 DEF IsArmed, Frame, WorldFields
  <2> QED
    BY <2>1, <2>2, <2>3, UnhookedTransfer
<1>3. /\ Assets!Exec(w, c) = Assets!Call(w, c, sent, left)
      /\ Assets!Nested(w, c) = Assets!Call(w, c, paid, emptied)
  BY DEF Assets!Exec, Assets!Nested
<1> HIDE DEF sent, left, paid, emptied
<1>4. CASE c.kind = "SPEND"
  BY <1>1, <1>2, <1>3, <1>4
<1>5. CASE c.kind # "SPEND"
  <2>1. Assets!Call(w, c, sent, left) = Assets!Call(w, c, paid, left)
    BY <1>5 DEF Assets!Call
  <2> QED
    BY <1>1, <1>3, <2>1
<1> QED
  BY <1>4, <1>5

\* What a call looks at besides the asset, and not at the log.
SeenAlike(u, x) ==
    /\ \A c : Assets!MaySpend(x, c) = Assets!MaySpend(u, c)
    /\ \A n : Assets!SpendNonce(x, n).nonces = Assets!SpendNonce(u, n).nonces
    /\ \A to : Unfrozen(x, to) = Unfrozen(u, to)
    /\ Assets!Matured(x) = Assets!Matured(u)
    /\ Tame(x) <=> Tame(u)

LEMMA FramedAlike ==
    ASSUME NEW u, World(u), NEW x, World(x), Frame(u, x, {"log", "asset"})
    PROVE  SeenAlike(u, x)
<1>1. /\ x.now = u.now /\ x.boundAt = u.boundAt /\ x.nonces = u.nonces /\ x.frozen = u.frozen
      /\ x.mode = u.mode /\ x.poison = u.poison
  BY DEF Frame, WorldFields
<1>2. Frame(u, x, {"hook", "log", "asset"})
  BY FrameGrows
<1>3. \A c : Assets!MaySpend(x, c) = Assets!MaySpend(u, c)
  BY <1>2, SameMaySpend
<1>4. ASSUME NEW n
      PROVE  Assets!SpendNonce(x, n).nonces = Assets!SpendNonce(u, n).nonces
  <2> DEFINE spent(w) == [w.nonces EXCEPT !["spend"] = n + 1]
  <2>1. spent(x) = spent(u)
    BY <1>1
  <2>2. Assets!SpendNonce(x, n).nonces = spent(x)
    BY DEF Assets!SpendNonce, World, WorldFields
  <2>3. Assets!SpendNonce(u, n).nonces = spent(u)
    BY DEF Assets!SpendNonce, World, WorldFields
  <2> QED
    BY <2>1, <2>2, <2>3
<1>5. /\ Assets!Matured(x) = Assets!Matured(u) /\ (Tame(x) <=> Tame(u))
      /\ \A to : Unfrozen(x, to) = Unfrozen(u, to)
  BY <1>1 DEF Assets!Matured, Unfrozen, Tame
<1> QED
  BY <1>3, <1>4, <1>5 DEF SeenAlike

\* Two worlds on either side of the same change of other fields.
LEMMA FramesMeet ==
    ASSUME NEW u, NEW x, NEW a, NEW b, NEW F, NEW G, NEW H,
           Frame(u, x, F), Frame(u, a, G), Frame(x, b, G),
           \A f \in (F \cup G) \ H : b[f] = a[f]
    PROVE  Frame(a, b, H)
BY DEF Frame

\* A call does not look at the log.
LEMMA LogBlind ==
    ASSUME NEW u, World(u), Tame(u), NEW x, World(x), Frame(u, x, {"log"}),
           NEW c, Sendable(c), c.kind \in HookCalls
    PROVE  LET r == Assets!Nested(u, c)
               s == Assets!Nested(x, c)
           IN  /\ r.ok \in BOOLEAN /\ s.ok \in BOOLEAN /\ (r.ok <=> s.ok)
               /\ Frame(r.w, s.w, {"log"})
<1> DEFINE r == Assets!Nested(u, c)
           s == Assets!Nested(x, c)
<1>1. Frame(u, x, {"log", "asset"}) /\ x.asset = u.asset
  BY FrameGrows DEF Frame, WorldFields
<1>2. /\ Assets!MaySpend(x, c) = Assets!MaySpend(u, c)
      /\ Assets!SpendNonce(x, c.nonce).nonces = Assets!SpendNonce(u, c.nonce).nonces
      /\ Assets!Matured(x) = Assets!Matured(u)
      /\ \A to : Unfrozen(x, to) = Unfrozen(u, to)
      /\ Tame(x)
  BY <1>1, FramedAlike DEF SeenAlike
<1>3. CASE c.kind = "SPEND"
  <2>1. MaySettle(x, c) <=> MaySettle(u, c)
    BY <1>1, <1>2 DEF MaySettle
  <2>2. /\ r.ok \in BOOLEAN /\ (r.ok <=> MaySettle(u, c))
        /\ (r.ok => Settles(u, c, r.w)) /\ (~r.ok => r.w = u)
    BY <1>3, TameSpends
  <2>3. /\ s.ok \in BOOLEAN /\ (s.ok <=> MaySettle(x, c))
        /\ (s.ok => Settles(x, c, s.w)) /\ (~s.ok => s.w = x)
    BY <1>2, <1>3, TameSpends
  <2> HIDE DEF r, s
  <2>4. CASE r.ok
    <3>1. Settles(u, c, r.w) /\ Settles(x, c, s.w)
      BY <2>1, <2>2, <2>3, <2>4
    <3>2. s.w.asset = r.w.asset /\ s.w.nonces = r.w.nonces
      BY <1>1, <1>2, <3>1 DEF Settles
    <3>3. Frame(r.w, s.w, {"log"})
      BY <3>1, <3>2, FramesMeet DEF Settles
    <3> QED
      BY <2>1, <2>2, <2>3, <3>3 DEF r, s
  <2>5. CASE ~r.ok
    BY <2>1, <2>2, <2>3, <2>5 DEF r, s
  <2> QED
    BY <2>4, <2>5
<1>4. CASE c.kind = "EGRESS_TOKEN"
  <2>1. MayEmpty(x) <=> MayEmpty(u)
    BY <1>1, <1>2 DEF MayEmpty
  <2>2. /\ r.ok \in BOOLEAN /\ (r.ok <=> MayEmpty(u)) /\ (~r.ok => r.w = u)
        /\ (r.ok => Passed(u, r.w, "destination", u.asset["vault"]))
    BY <1>4, TameEgresses
  <2>3. /\ s.ok \in BOOLEAN /\ (s.ok <=> MayEmpty(x)) /\ (~s.ok => s.w = x)
        /\ (s.ok => Passed(x, s.w, "destination", x.asset["vault"]))
    BY <1>2, <1>4, TameEgresses
  <2> HIDE DEF r, s
  <2>4. CASE r.ok
    <3>1. Passed(u, r.w, "destination", u.asset["vault"])
          /\ Passed(x, s.w, "destination", u.asset["vault"])
      BY <1>1, <2>1, <2>2, <2>3, <2>4
    <3>2. s.w.asset = r.w.asset
      BY <1>1, <3>1 DEF Passed
    <3>3. Frame(r.w, s.w, {"log"})
      BY <3>1, <3>2, FramesMeet DEF Passed
    <3> QED
      BY <2>1, <2>2, <2>3, <3>3 DEF r, s
  <2>5. CASE ~r.ok
    BY <2>1, <2>2, <2>3, <2>5 DEF r, s
  <2> QED
    BY <2>4, <2>5
<1>5. CASE c.kind \in HookCalls \ {"SPEND", "EGRESS_TOKEN"}
  <2>1. Agree(r, s) /\ r.w.asset = u.asset /\ s.w.asset = x.asset
    BY <1>1, <1>5, OthersAgree DEF HookCalls
  <2> HIDE DEF r, s
  <2>2. Frame(r.w, s.w, {"log"})
    BY <1>1, <2>1 DEF Agree, Frame
  <2> QED
    BY <2>1, <2>2 DEF Agree, r, s
<1> QED
  BY <1>3, <1>4, <1>5

\* A call that left the vault what it held does the same after a transfer as before it.
LEMMA CallsAgain ==
    ASSUME NEW u, World(u), Tame(u), NEW x, World(x), Frame(u, x, {"log", "asset"}),
           x.asset["vault"] <= u.asset["vault"], NEW c, Sendable(c), c.kind \in HookCalls,
           Assets!Nested(u, c).w.asset["vault"] = u.asset["vault"]
    PROVE  LET r == Assets!Nested(u, c)
               s == Assets!Nested(x, c)
           IN  /\ r.ok \in BOOLEAN /\ r.w.asset = u.asset /\ (~r.ok => Frame(u, r.w, {"log"}))
               /\ r.ok => s.ok /\ s.w.asset = x.asset /\ Frame(r.w, s.w, {"log", "asset"})
<1> DEFINE r == Assets!Nested(u, c)
           s == Assets!Nested(x, c)
<1>1. /\ Assets!MaySpend(x, c) = Assets!MaySpend(u, c)
      /\ Assets!SpendNonce(x, c.nonce).nonces = Assets!SpendNonce(u, c.nonce).nonces
      /\ Assets!Matured(x) = Assets!Matured(u)
      /\ \A to : Unfrozen(x, to) = Unfrozen(u, to)
      /\ Tame(x)
  BY FramedAlike DEF SeenAlike
<1>2. /\ u.asset \in [Holders -> Nat] /\ u.asset["vault"] \in Nat
      /\ x.asset \in [Holders -> Nat] /\ x.asset["vault"] \in Nat
      /\ Frame(u, u, {"log"}) /\ "destination" \in Payees
  BY DEF World, Holders, Frame, Payees
<1>3. CASE c.kind = "SPEND"
  <2>0. c.amount \in Nat /\ c.to \in Payees
    BY <1>3 DEF Sendable, Payees
  <2>1. /\ r.ok \in BOOLEAN /\ (r.ok <=> MaySettle(u, c))
        /\ (r.ok => Settles(u, c, r.w)) /\ (~r.ok => r.w = u)
    BY <1>3, TameSpends
  <2>2. /\ s.ok \in BOOLEAN /\ (s.ok <=> MaySettle(x, c))
        /\ (s.ok => Settles(x, c, s.w)) /\ (~s.ok => s.w = x)
    BY <1>1, <1>3, TameSpends
  <2>3. r.w.asset["vault"] = u.asset["vault"]
    OBVIOUS
  <2> HIDE DEF r, s
  <2>4. CASE r.ok
    <3>1. MaySettle(u, c) /\ Settles(u, c, r.w)
      BY <2>1, <2>4
    <3>2. r.w.asset["vault"] = IF c.to = "vault" THEN u.asset["vault"]
                               ELSE u.asset["vault"] - c.amount
      <4>1. Assets!Settled(u.asset, c.to, c.amount, c.amount)["vault"]
              = IF c.to = "vault" THEN u.asset["vault"] ELSE u.asset["vault"] - c.amount
        BY <1>2, <2>0, SettledVault
      <4> QED
        BY <3>1, <4>1 DEF Settles
    <3>3. c.to # "vault" => c.amount = 0
      BY <1>2, <2>0, <2>3, <3>2
    <3>4. c.amount = 0
      BY <3>1, <3>3 DEF MaySettle
    <3>5. c.amount <= x.asset["vault"]
      BY <1>2, <3>4
    <3>6. MaySettle(x, c)
      BY <1>1, <3>1, <3>5 DEF MaySettle
    <3>7. s.ok /\ Settles(x, c, s.w)
      BY <2>2, <3>6
    <3>8. r.w.asset = u.asset /\ s.w.asset = x.asset
      BY <1>2, <2>0, <3>1, <3>4, <3>7, SettledVault DEF Settles
    <3>9. s.w.nonces = r.w.nonces
      BY <1>1, <3>1, <3>7 DEF Settles
    <3>10. Frame(r.w, s.w, {"log", "asset"})
      BY <3>1, <3>7, <3>9, FramesMeet DEF Settles
    <3> QED
      BY <2>1, <2>4, <3>7, <3>8, <3>10 DEF r, s
  <2>5. CASE ~r.ok
    BY <1>2, <2>1, <2>5 DEF r
  <2> QED
    BY <2>4, <2>5
<1>4. CASE c.kind = "EGRESS_TOKEN"
  <2>1. /\ r.ok \in BOOLEAN /\ (r.ok <=> MayEmpty(u)) /\ (~r.ok => r.w = u)
        /\ (r.ok => Passed(u, r.w, "destination", u.asset["vault"]))
    BY <1>4, TameEgresses
  <2>2. /\ s.ok \in BOOLEAN /\ (s.ok <=> MayEmpty(x)) /\ (~s.ok => s.w = x)
        /\ (s.ok => Passed(x, s.w, "destination", x.asset["vault"]))
    BY <1>1, <1>4, TameEgresses
  <2>3. r.w.asset["vault"] = u.asset["vault"]
    OBVIOUS
  <2> HIDE DEF r, s
  <2>4. CASE r.ok
    <3>1. MayEmpty(u) /\ Passed(u, r.w, "destination", u.asset["vault"])
      BY <2>1, <2>4
    <3>2. r.w.asset["vault"] = u.asset["vault"] - u.asset["vault"]
      BY <1>2, <3>1, SettledVault DEF Passed
    <3>3. u.asset["vault"] = 0 /\ x.asset["vault"] = 0
      BY <1>2, <2>3, <3>2
    <3>4. MayEmpty(x)
      BY <1>1, <3>1, <3>3 DEF MayEmpty
    <3>5. s.ok /\ Passed(x, s.w, "destination", 0) /\ Passed(u, r.w, "destination", 0)
      BY <2>2, <3>1, <3>3, <3>4
    <3>6. r.w.asset = u.asset /\ s.w.asset = x.asset
      BY <1>2, <3>5, SettledVault DEF Passed
    <3>7. Frame(r.w, s.w, {"log", "asset"})
      BY <3>5, FramesMeet DEF Passed
    <3> QED
      BY <2>1, <2>4, <3>5, <3>6, <3>7 DEF r, s
  <2>5. CASE ~r.ok
    BY <1>2, <2>1, <2>5 DEF r
  <2> QED
    BY <2>4, <2>5
<1>5. CASE c.kind \in HookCalls \ {"SPEND", "EGRESS_TOKEN"}
  <2>1. Agree(r, s) /\ r.w.asset = u.asset /\ s.w.asset = x.asset
    BY <1>5, OthersAgree DEF HookCalls
  <2>2. ~r.ok => Frame(u, r.w, {"log"})
    <3>1. NestedEffect(u, c, r)
      BY <1>5, OthersNest DEF HookCalls
    <3> HIDE DEF r
    <3> QED
      BY <1>2, <3>1 DEF NestedEffect
  <2> HIDE DEF r, s
  <2> QED
    BY <2>1, <2>2 DEF Agree, r, s
<1> QED
  BY <1>3, <1>4, <1>5

\* No call puts anything into the vault.
LEMMA NothingComesIn ==
    ASSUME NEW u, World(u), Tame(u), NEW c, Sendable(c), c.kind \in HookCalls
    PROVE  LET r == Assets!Nested(u, c) IN
           /\ World(r.w) /\ Tame(r.w) /\ r.w.hook = u.hook /\ r.ok \in BOOLEAN
           /\ r.w.asset["vault"] <= u.asset["vault"]
<1> DEFINE r == Assets!Nested(u, c)
<1>1. NestedEffect(u, c, r)
  BY SpendNests, EgressNests, OthersNest DEF HookCalls
<1>2. /\ u.asset \in [Holders -> Nat] /\ u.asset["vault"] \in Nat /\ "destination" \in Payees
  BY DEF World, Holders, Payees
<1>3. r.w.asset["vault"] <= u.asset["vault"]
  <2>1. CASE c.kind = "SPEND"
    <3>0. c.amount \in Nat /\ c.to \in Payees
      BY <2>1 DEF Sendable, Payees
    <3>1. /\ r.ok \in BOOLEAN /\ (r.ok => Settles(u, c, r.w)) /\ (~r.ok => r.w = u)
      BY <2>1, TameSpends
    <3> HIDE DEF r
    <3>2. Assets!Settled(u.asset, c.to, c.amount, c.amount)["vault"]
            = IF c.to = "vault" THEN u.asset["vault"] ELSE u.asset["vault"] - c.amount
      BY <1>2, <3>0, SettledVault
    <3>3. Assets!Settled(u.asset, c.to, c.amount, c.amount)["vault"] <= u.asset["vault"]
      BY <1>2, <3>0, <3>2
    <3>4. CASE r.ok
      BY <3>1, <3>3, <3>4 DEF Settles
    <3>5. CASE ~r.ok
      BY <1>2, <3>1, <3>5
    <3> QED
      BY <3>4, <3>5
  <2>2. CASE c.kind = "EGRESS_TOKEN"
    <3>1. /\ r.ok \in BOOLEAN /\ (~r.ok => r.w = u)
          /\ (r.ok => Passed(u, r.w, "destination", u.asset["vault"]))
      BY <2>2, TameEgresses
    <3> HIDE DEF r
    <3> DEFINE held == u.asset["vault"]
    <3>2. Assets!Settled(u.asset, "destination", held, held)["vault"] = u.asset["vault"] - held
      BY <1>2, SettledVault
    <3>3. Assets!Settled(u.asset, "destination", held, held)["vault"] <= u.asset["vault"]
      BY <1>2, <3>2
    <3>4. CASE r.ok
      BY <3>1, <3>3, <3>4 DEF Passed
    <3>5. CASE ~r.ok
      BY <1>2, <3>1, <3>5
    <3> QED
      BY <3>4, <3>5
  <2>3. CASE c.kind \in HookCalls \ {"SPEND", "EGRESS_TOKEN"}
    <3>1. Frame(u, u, {"log", "asset"})
      BY DEF World, Frame
    <3>2. r.w.asset = u.asset
      BY <2>3, <3>1, OthersAgree DEF HookCalls
    <3> HIDE DEF r
    <3> QED
      BY <1>2, <3>2
  <2> QED
    BY <2>1, <2>2, <2>3
<1> HIDE DEF r
<1>4. World(r.w) /\ Frame(u, r.w, NestedFields) /\ r.w.poison = u.poison /\ r.ok \in BOOLEAN
  BY <1>1 DEF NestedEffect, Effect
<1>5. Tame(r.w) /\ r.w.hook = u.hook
  BY <1>4 DEF Tame, Frame, NestedFields, WorldFields
<1> QED
  BY <1>3, <1>4, <1>5 DEF r

\* The hook's call as it is made: of the world without the hook.
LEMMA HookCalled ==
    ASSUME NEW w, World(w), Tame(w), IsArmed(w), w.hook.call.kind \in HookCalls
    PROVE  LET u == [w EXCEPT !.hook = Assets!NoHook]
               r == Assets!Nested(u, w.hook.call)
               f == Assets!Fired(w)
           IN  /\ Sendable(w.hook.call)
               /\ World(u) /\ Tame(u) /\ Frame(w, u, {"hook"}) /\ u.hook = Assets!NoHook
               /\ World(f) /\ Tame(f) /\ Frame(r.w, f, {"log"}) /\ f.hook = Assets!NoHook
               /\ f.log.fired = w.hook.kind /\ f.log.succeeded = r.ok
<1> DEFINE u == [w EXCEPT !.hook = Assets!NoHook]
           c == w.hook.call
           r == Assets!Nested(u, c)
           f == Assets!Fired(w)
<1>1. World(u) /\ Frame(w, u, {"hook"}) /\ u.hook = Assets!NoHook
  BY NoHookLeft DEF World, WorldFields
<1>2. f = Assets!Logged(w, r)
  BY DEF Assets!Fired
<1>3. Sendable(c) /\ c.kind \in HookCalls
  BY DEF World, IsArmed
<1> HIDE DEF u, c
<1>4. Tame(u)
  BY <1>1 DEF Tame, Frame, WorldFields
<1>5. World(r.w) /\ Tame(r.w) /\ r.w.hook = u.hook /\ r.ok \in BOOLEAN
  BY <1>1, <1>3, <1>4, NothingComesIn
<1> HIDE DEF r, f
<1>6. World(f) /\ Frame(r.w, f, {"log"}) /\ Reports(w, f) /\ f.log.succeeded = r.ok
  BY <1>2, <1>5, LogsWell, LoggedFields
<1>7. Tame(f) /\ f.hook = r.w.hook
  BY <1>5, <1>6 DEF Tame, Frame, WorldFields
<1> QED
  BY <1>1, <1>3, <1>4, <1>5, <1>6, <1>7 DEF Reports, r, f, u, c

\* x is what is left of y by the call, or y if the call was refused.
Explains(y, c, x) ==
    LET s == Assets!Nested(y, c) IN
    IF x.log.succeeded THEN s.ok /\ Frame(s.w, x, {"log"}) ELSE Frame(y, x, {"log"})

\* The hook has called before the debit: it left the vault what it held, so that its
\* call does the same once the amount is gone.
LEMMA CalledBefore ==
    ASSUME NEW w, World(w), Tame(w), IsArmed(w), w.hook.call.kind \in HookCalls,
           NEW to \in {"recipient", "destination"}, NEW amount \in Nat,
           NEW n, n = Assets!Moved(Assets!Fired(w), to, amount), n.ok,
           amount = w.asset["vault"] \/ n.w.asset["vault"] = w.asset["vault"] - amount
    PROVE  /\ Assets!Left(n) = n /\ World(n.w) /\ amount <= w.asset["vault"]
           /\ n.w.log.fired = w.hook.kind /\ n.w.log.succeeded \in BOOLEAN
           /\ \A y : /\ World(y) /\ Frame(w, y, {"hook", "log", "asset"})
                     /\ y.hook = Assets!NoHook
                     /\ y.asset = Assets!Settled(w.asset, to, amount, amount)
                     => Explains(y, w.hook.call, n.w)
<1> DEFINE u == [w EXCEPT !.hook = Assets!NoHook]
           c == w.hook.call
           r == Assets!Nested(u, c)
           f == Assets!Fired(w)
           x == n.w
<1>1. /\ Sendable(c) /\ World(u) /\ Tame(u) /\ Frame(w, u, {"hook"}) /\ u.hook = Assets!NoHook
      /\ World(f) /\ Tame(f) /\ Frame(r.w, f, {"log"}) /\ f.hook = Assets!NoHook
      /\ f.log.fired = w.hook.kind /\ f.log.succeeded = r.ok
  BY HookCalled
<1>2. n = Assets!Moved(f, to, amount) /\ to \in Payees /\ to # "vault" /\ c.kind \in HookCalls
  BY DEF Payees
<1> HIDE DEF u, c, f
<1>3. World(r.w) /\ r.ok \in BOOLEAN /\ r.w.asset["vault"] <= u.asset["vault"]
  BY <1>1, <1>2, NothingComesIn
<1>4. amount <= f.asset["vault"] /\ Passed(f, x, to, amount) /\ Moves(f, n, to, amount)
  BY <1>1, <1>2, TameMoves, TransferMoves
<1>5. x.log = f.log /\ x.hook = f.hook /\ World(x)
  BY <1>4 DEF Moves, Passed, Frame, WorldFields
<1>6. u.asset = w.asset /\ f.asset = r.w.asset
  BY <1>1 DEF Frame, WorldFields
<1>7. /\ w.asset \in [Holders -> Nat] /\ w.asset["vault"] \in Nat
      /\ f.asset \in [Holders -> Nat] /\ f.asset["vault"] \in Nat
  BY <1>1 DEF World, Holders
<1>8. r.w.asset["vault"] = u.asset["vault"] /\ amount <= w.asset["vault"]
  <2>1. Assets!Settled(f.asset, to, amount, amount)["vault"] = f.asset["vault"] - amount
    BY <1>2, <1>7, SettledVault
  <2>2. x.asset["vault"] = f.asset["vault"] - amount
    BY <1>4, <2>1 DEF Passed
  <2>3. amount = w.asset["vault"] \/ x.asset["vault"] = w.asset["vault"] - amount
    OBVIOUS
  <2>4. f.asset["vault"] = w.asset["vault"]
    BY <1>3, <1>4, <1>6, <1>7, <2>2, <2>3
  <2> QED
    BY <1>4, <1>6, <1>7, <2>4
<1>9. Assets!Left(n) = n
  <2>1. x.hook.kind = "none"
    BY <1>1, <1>5 DEF Assets!NoHook, Assets!None
  <2> QED
    BY <2>1 DEF Assets!Left, Assets!None
<1>10. x.log.fired = w.hook.kind /\ x.log.succeeded = r.ok
  BY <1>1, <1>5
<1>11. ASSUME NEW y, World(y), Frame(w, y, {"hook", "log", "asset"}), y.hook = Assets!NoHook,
              y.asset = Assets!Settled(w.asset, to, amount, amount)
       PROVE  Explains(y, c, x)
  <2> DEFINE s == Assets!Nested(y, c)
  <2>1. Frame(u, y, {"log", "asset"})
    BY <1>1, <1>11 DEF Frame
  <2>2. y.asset["vault"] <= u.asset["vault"]
    <3>1. Assets!Settled(w.asset, to, amount, amount)["vault"] = w.asset["vault"] - amount
      BY <1>2, <1>7, SettledVault
    <3>2. y.asset["vault"] = w.asset["vault"] - amount
      BY <1>11, <3>1
    <3> QED
      BY <1>6, <1>7, <3>2
  <2>3. /\ r.w.asset = u.asset /\ (~r.ok => Frame(u, r.w, {"log"}))
        /\ r.ok => s.ok /\ s.w.asset = y.asset /\ Frame(r.w, s.w, {"log", "asset"})
    BY <1>1, <1>2, <1>8, <1>11, <2>1, <2>2, CallsAgain
  <2> HIDE DEF s, r
  <2>4. Frame(r.w, x, {"log", "asset"}) /\ x.asset = y.asset
    <3>1. Frame(r.w, x, {"log"} \cup {"log", "asset"})
      BY <1>1, <1>4, FramesJoin DEF Passed
    <3>2. Frame(r.w, x, {"log", "asset"})
      BY <3>1, FrameGrows
    <3>3. x.asset = Assets!Settled(f.asset, to, amount, amount) /\ f.asset = w.asset
      BY <1>4, <1>6, <2>3 DEF Passed
    <3> QED
      BY <1>11, <3>2, <3>3
  <2>5. CASE r.ok
    <3>1. Frame(s.w, x, {"log"})
      BY <2>3, <2>4, <2>5 DEF Frame
    <3> QED
      BY <1>10, <2>3, <2>5, <3>1 DEF Explains, s
  <2>6. CASE ~r.ok
    <3>1. Frame(y, x, {"log"})
      BY <2>1, <2>3, <2>4, <2>6 DEF Frame
    <3> QED
      BY <1>3, <1>10, <2>6, <3>1 DEF Explains
  <2> QED
    BY <2>5, <2>6
<1> QED
  BY <1>3, <1>5, <1>8, <1>9, <1>10, <1>11 DEF c, x

\* The hook has called after the debit: its call finds what it would find after the call.
LEMMA CalledAfter ==
    ASSUME NEW w, World(w), Tame(w), IsArmed(w), w.hook.call.kind \in HookCalls,
           NEW to \in Payees, NEW amount \in Nat, Assets!Moved(w, to, amount).ok
    PROVE  LET n == Assets!Moved(w, to, amount)
               x == Assets!Left(n).w
           IN  /\ Assets!Left(n).ok /\ World(x) /\ amount <= w.asset["vault"]
               /\ x.log.fired = w.hook.kind /\ x.log.succeeded \in BOOLEAN
               /\ \A y : /\ World(y) /\ Frame(w, y, {"hook", "log", "asset"})
                         /\ y.hook = Assets!NoHook
                         /\ y.asset = Assets!Settled(w.asset, to, amount, amount)
                         => Explains(y, w.hook.call, x)
<1> DEFINE n == Assets!Moved(w, to, amount)
           m == n.w
           x == Assets!Left(n).w
           u == [m EXCEPT !.hook = Assets!NoHook]
           c == w.hook.call
           r == Assets!Nested(u, c)
           f == Assets!Fired(m)
<1>1. amount <= w.asset["vault"] /\ Passed(w, m, to, amount) /\ Moves(w, n, to, amount) /\ n.ok
  BY TameMoves, TransferMoves
<1> HIDE DEF n
<1>2. World(m) /\ m.hook = w.hook /\ m.mode = w.mode /\ m.poison = w.poison
  BY <1>1 DEF Moves, Passed, Frame, WorldFields
<1>3. Tame(m) /\ IsArmed(m) /\ m.hook.call = c /\ c.kind \in HookCalls
  BY <1>2 DEF Tame, IsArmed
<1>4. x = f /\ Assets!Left(n).ok = TRUE
  <2>1. Assets!Left(n) = Assets!Done(f)
    BY <1>1, <1>3 DEF Assets!Left, Assets!None, IsArmed
  <2> QED
    BY <2>1, Outcomes
<1> HIDE DEF x, m
<1>5. /\ Sendable(c) /\ World(u) /\ Tame(u) /\ Frame(m, u, {"hook"}) /\ u.hook = Assets!NoHook
      /\ World(f) /\ Frame(r.w, f, {"log"}) /\ f.log.fired = m.hook.kind
      /\ f.log.succeeded = r.ok
  BY <1>2, <1>3, HookCalled
<1> HIDE DEF u, c, f
<1>6. r.ok \in BOOLEAN
  BY <1>3, <1>5, NothingComesIn
<1>7. ASSUME NEW y, World(y), Frame(w, y, {"hook", "log", "asset"}), y.hook = Assets!NoHook,
             y.asset = Assets!Settled(w.asset, to, amount, amount)
      PROVE  Explains(y, c, x)
  <2> DEFINE s == Assets!Nested(y, c)
  <2>1. Frame(u, y, {"log"})
    BY <1>1, <1>5, <1>7 DEF Passed, Frame
  <2>2. /\ s.ok \in BOOLEAN /\ (r.ok <=> s.ok) /\ Frame(r.w, s.w, {"log"})
    BY <1>3, <1>5, <1>7, <2>1, LogBlind
  <2>3. ~r.ok => r.w = u
    <3>1. NestedEffect(u, c, r)
      BY <1>3, <1>5, SpendNests, EgressNests, OthersNest DEF HookCalls
    <3> QED
      BY <3>1 DEF NestedEffect
  <2> HIDE DEF s, r
  <2>4. CASE r.ok
    <3>1. Frame(s.w, x, {"log"})
      BY <1>4, <1>5, <2>2 DEF Frame
    <3> QED
      BY <1>4, <1>5, <2>2, <2>4, <3>1 DEF Explains, s
  <2>5. CASE ~r.ok
    <3>1. Frame(y, x, {"log"})
      BY <1>4, <1>5, <2>1, <2>3, <2>5 DEF Frame
    <3> QED
      BY <1>4, <1>5, <1>6, <2>5, <3>1 DEF Explains
  <2> QED
    BY <2>4, <2>5
<1> QED
  BY <1>1, <1>2, <1>4, <1>5, <1>6, <1>7 DEF c, x, n

\* A transfer with a call in it, and the call after the same transfer without: a
\* payer that sees the amount leave cannot tell them apart.
LEMMA SerialTransfer ==
    ASSUME NEW w, World(w), Tame(w), IsArmed(w), w.hook.call.kind \in HookCalls,
           NEW to \in {"recipient", "destination"}, NEW amount \in Nat,
           NEW r, r = Assets!Transfer(w, to, amount), r.ok,
           amount = w.asset["vault"] \/ r.w.asset["vault"] = w.asset["vault"] - amount
    PROVE  /\ Unfrozen(w, to) /\ amount <= w.asset["vault"] /\ World(r.w)
           /\ r.w.log.fired = w.hook.kind /\ r.w.log.succeeded \in BOOLEAN
           /\ \A y : /\ World(y) /\ Frame(w, y, {"hook", "log", "asset"})
                     /\ y.hook = Assets!NoHook
                     /\ y.asset = Assets!Settled(w.asset, to, amount, amount)
                     => Explains(y, w.hook.call, r.w)
<1> DEFINE v == [w EXCEPT !.log.transfers = w.log.transfers + 1]
           e == Assets!Entered(v)
           n == Assets!Moved(e, to, amount)
<1>1. World(v) /\ Frame(w, v, {"log"})
  BY OneMoreTransfer
<1>2. /\ (~Unfrozen(w, to) \/ w.mode = "REVERTS" => r = Assets!Refused(w))
      /\ (Unfrozen(w, to) /\ w.mode # "REVERTS" => r = Assets!Left(n))
  BY DEF Assets!Transfer, Unfrozen
<1>3. Unfrozen(w, to) /\ r = Assets!Left(n)
  BY <1>2, Outcomes
<1> HIDE DEF v
<1>4. /\ v.hook = w.hook /\ v.asset = w.asset /\ v.mode = w.mode /\ v.poison = w.poison
  BY <1>1 DEF Frame, WorldFields
<1>5. Tame(v) /\ IsArmed(v) /\ v.hook.call.kind \in HookCalls
  BY <1>4 DEF Tame, IsArmed
<1>6. ASSUME NEW y, Frame(w, y, {"hook", "log", "asset"})
      PROVE  Frame(v, y, {"hook", "log", "asset"})
  BY <1>1, <1>6 DEF Frame
<1>7. to \in Payees
  BY DEF Payees
<1>8. CASE ~v.hook.after
  <2>1. e = Assets!Fired(v)
    BY <1>5, <1>8 DEF Assets!Entered, Assets!None, IsArmed
  <2>2. n = Assets!Moved(Assets!Fired(v), to, amount)
    BY <2>1
  <2> HIDE DEF n, e
  <2>3. n.ok /\ r = n
    <3>1. Assets!Left(n) = Assets!Done(Assets!Fired(n.w)) \/ Assets!Left(n) = n
      BY DEF Assets!Left
    <3>2. Moves(Assets!Fired(v), n, to, amount)
      <4>1. World(Assets!Fired(v))
        BY <1>1, <1>5, HookCalled
      <4> QED
        BY <1>7, <2>2, <4>1, TransferMoves
    <3>3. n.w.hook.kind = "none"
      <4>1. Assets!Fired(v).hook = Assets!NoHook
        BY <1>1, <1>5, HookCalled
      <4>2. n.w.hook = Assets!NoHook
        BY <3>2, <4>1 DEF Moves, Frame, WorldFields
      <4> QED
        BY <4>2 DEF Assets!NoHook, Assets!None
    <3>4. Assets!Left(n) = n
      BY <3>3 DEF Assets!Left, Assets!None
    <3> QED
      BY <1>3, <3>4
  <2>4. amount = v.asset["vault"] \/ n.w.asset["vault"] = v.asset["vault"] - amount
    BY <1>4, <2>3
  <2>5. /\ World(n.w) /\ amount <= v.asset["vault"]
        /\ n.w.log.fired = v.hook.kind /\ n.w.log.succeeded \in BOOLEAN
        /\ \A y : /\ World(y) /\ Frame(v, y, {"hook", "log", "asset"})
                  /\ y.hook = Assets!NoHook
                  /\ y.asset = Assets!Settled(v.asset, to, amount, amount)
                  => Explains(y, v.hook.call, n.w)
    BY <1>1, <1>5, <2>2, <2>3, <2>4, CalledBefore
  <2> QED
    BY <1>3, <1>4, <1>6, <2>3, <2>5
<1>9. CASE v.hook.after
  <2>1. e = v
    BY <1>9 DEF Assets!Entered
  <2>2. n = Assets!Moved(v, to, amount)
    BY <2>1
  <2> HIDE DEF n, e
  <2>3. n.ok
    <3>1. ~n.ok => Assets!Left(n) = n
      BY DEF Assets!Left
    <3> QED
      BY <1>3, <3>1
  <2>4. /\ World(r.w) /\ amount <= v.asset["vault"]
        /\ r.w.log.fired = v.hook.kind /\ r.w.log.succeeded \in BOOLEAN
        /\ \A y : /\ World(y) /\ Frame(v, y, {"hook", "log", "asset"})
                  /\ y.hook = Assets!NoHook
                  /\ y.asset = Assets!Settled(v.asset, to, amount, amount)
                  => Explains(y, v.hook.call, r.w)
    BY <1>1, <1>3, <1>5, <1>7, <2>2, <2>3, CalledAfter
  <2> QED
    BY <1>3, <1>4, <1>6, <2>4
<1> QED
  BY <1>8, <1>9

-----------------------------------------------------------------------------
(* Every call that pays outward, and the call in it                         *)

LEMMA SameButLog ==
    ASSUME NEW w, World(w), NEW v, World(v), Frame(w, v, {"log"})
    PROVE  Assets!Same(w) = Assets!Same(v)
<1> DEFINE a == Assets!Same(w)
           b == Assets!Same(v)
<1>1. Frame(w, a, {"log"}) /\ Frame(v, b, {"log"})
  BY KeptAsSame
<1>2. a.log = Assets!Quiet /\ b.log = Assets!Quiet
  BY DEF World, WorldFields, Assets!Same
<1> HIDE DEF a, b
<1>3. \A f \in WorldFields : a[f] = b[f]
  BY <1>1, <1>2 DEF Frame, WorldFields
<1>4. a = [f \in WorldFields |-> a[f]] /\ b = [f \in WorldFields |-> b[f]]
  BY <1>1 DEF Frame
<1>5. a = b
  BY <1>3, <1>4
<1> QED
  BY <1>5 DEF a, b

\* The world before a call, with nobody to call.
Silent(before) == [before EXCEPT !.hook = Assets!NoHook]

LEMMA SilentWorld ==
    ASSUME NEW w, World(w), Tame(w)
    PROVE  LET v == Silent(w) IN
           /\ World(v) /\ Tame(v) /\ ~IsArmed(v) /\ Frame(w, v, {"hook"})
           /\ v.hook = Assets!NoHook
<1> DEFINE v == Silent(w)
<1>1. World(v) /\ Frame(w, v, {"hook"}) /\ v.hook = Assets!NoHook
  BY NoHookLeft DEF World, WorldFields, Silent
<1> HIDE DEF v
<1>2. Tame(v) /\ ~IsArmed(v)
  BY <1>1 DEF Tame, Frame, WorldFields, IsArmed, Assets!NoHook, Assets!None
<1> QED
  BY <1>1, <1>2 DEF v

\* The call, then the hook's call, explain what a transaction has left.
LEMMA InTurn ==
    ASSUME NEW before, World(before), Tame(before), IsArmed(before),
           before.hook.call.kind \in HookCalls,
           NEW call, Sendable(call), call.kind \in HookCalls, NEW r, World(r.w),
           r.w.log.succeeded \in BOOLEAN,
           Assets!Nested(Silent(before), call).ok,
           World(Assets!Nested(Silent(before), call).w),
           Assets!Nested(Silent(before), call).w.hook = Assets!NoHook,
           Explains(Assets!Nested(Silent(before), call).w, before.hook.call, r.w)
    PROVE  Assets!SerialFor(before, call, r)
<1> DEFINE silent == Silent(before)
           inner == before.hook.call
           first == Assets!Exec(silent, call)
           y == first.w
           last == Assets!Exec(y, inner)
<1>1. World(silent) /\ ~IsArmed(silent) /\ Sendable(inner)
  <2>1. Sendable(inner)
    BY DEF World, IsArmed
  <2> QED
    BY <2>1, SilentWorld
<1>2. first = Assets!Nested(silent, call)
  BY <1>1, Unhooked
<1>3. first.ok /\ World(y) /\ y.hook = Assets!NoHook /\ Explains(y, inner, r.w)
  BY <1>2
<1>4. silent = [before EXCEPT !.hook = Assets!NoHook]
  BY DEF Silent
<1>5. /\ (r.w.log.succeeded /\ first.ok /\ last.ok /\ Assets!Same(last.w) = Assets!Same(r.w)
            => Assets!SerialFor(before, call, r))
      /\ (~r.w.log.succeeded /\ first.ok /\ Assets!Same(y) = Assets!Same(r.w)
            => Assets!SerialFor(before, call, r))
  BY <1>4 DEF Assets!SerialFor, Assets!None
<1> HIDE DEF silent, first, inner
<1>6. ~IsArmed(y)
  BY <1>3 DEF IsArmed, Assets!NoHook, Assets!None
<1> HIDE DEF y
<1>7. last = Assets!Nested(y, inner) /\ World(last.w)
  <2>1. inner.kind \in HookCalls
    BY DEF inner
  <2>2. last = Assets!Nested(y, inner)
    BY <1>1, <1>3, <1>6, <2>1, Unhooked
  <2> QED
    BY <1>1, <1>3, <2>2, NestsWell
<1> HIDE DEF last
<1>8. CASE r.w.log.succeeded
  <2>1. last.ok /\ Frame(last.w, r.w, {"log"})
    BY <1>3, <1>7, <1>8 DEF Explains
  <2>2. Assets!Same(last.w) = Assets!Same(r.w)
    BY <1>7, <2>1, SameButLog
  <2> QED
    BY <1>3, <1>5, <1>8, <2>1, <2>2
<1>9. CASE ~r.w.log.succeeded
  <2>1. Frame(y, r.w, {"log"})
    BY <1>3, <1>9 DEF Explains
  <2>2. Assets!Same(y) = Assets!Same(r.w)
    BY <1>3, <2>1, SameButLog
  <2> QED
    BY <1>3, <1>5, <1>9, <2>2
<1> QED
  BY <1>8, <1>9

LEMMA SerialSpend ==
    ASSUME NEW w, World(w), Ready(w), w.log.fired = "none",
           NEW c, Sendable(c), c.kind = "SPEND", c.to = "recipient"
    PROVE  Assets!SerialFor(w, c, Assets!Exec(w, c))
<1> DEFINE v == Assets!SpendNonce(w, c.nonce)
           paid == Assets!Transfer(v, c.to, c.amount)
           r == Assets!Exec(w, c)
           x == paid.w
           s == Assets!Nested(Silent(w), c)
<1>1. (r.ok /\ r.w.log.fired # "none") \/ Assets!SerialFor(w, c, r)
  BY DEF Assets!SerialFor, Assets!None
<1> SUFFICES ASSUME r.ok, r.w.log.fired # "none"
             PROVE  Assets!SerialFor(w, c, r)
  BY <1>1
<1>2. SpendEffect(w, c, r.w)
  BY SpendGoesThrough
<1>3. c.amount \in Nat /\ c.to \in {"recipient", "destination"} /\ c.nonce \in Nat
  BY DEF Sendable
<1>4. World(v) /\ Frame(w, v, {"nonces"}) /\ v.nonces = [w.nonces EXCEPT !["spend"] = c.nonce + 1]
  <2>1. v.nonces = [w.nonces EXCEPT !["spend"] = c.nonce + 1]
    BY DEF Assets!SpendNonce, World, WorldFields
  <2> QED
    BY <1>3, <2>1, OtherNonces
<1>5. r = Assets!Spend(w, c, paid)
  BY DEF Assets!Exec, Assets!Call, Assets!Egresses
<1>6. paid = Assets!Transfer(v, c.to, c.amount)
  OBVIOUS
<1> HIDE DEF paid, r
<1>7. /\ paid.ok /\ Assets!balanceOf(w) - Assets!balanceOf(x) = c.amount /\ r.w = x
  BY <1>5, Outcomes DEF Assets!Spend, Assets!Exactly
<1>8. Assets!MaySpend(w, c) /\ TransferEffect(v, x)
  BY <1>2, <1>7 DEF SpendEffect
<1> HIDE DEF v
<1>9. /\ v.hook = w.hook /\ v.asset = w.asset /\ v.log = w.log /\ v.mode = w.mode
      /\ v.poison = w.poison /\ v.frozen = w.frozen
  BY <1>4 DEF Frame, WorldFields
<1>10. IsArmed(w)
  <2>1. x.log.fired # v.log.fired
    BY <1>7, <1>9
  <2>2. IsArmed(v)
    BY <1>8, <2>1 DEF TransferEffect, HookEffect
  <2> QED
    BY <1>9, <2>2 DEF IsArmed
<1>11. Tame(w) /\ w.hook.call.kind \in HookCalls
  BY <1>10 DEF Ready, IsArmed, HookCallOf, HookCalls, Hooks
<1>12. Tame(v) /\ IsArmed(v) /\ v.hook.call.kind \in HookCalls
  BY <1>9, <1>10, <1>11 DEF Tame, IsArmed
<1>13. x.asset["vault"] = v.asset["vault"] - c.amount
  <2>1. World(x) /\ x.poison = w.poison
    BY <1>8, <1>9, <1>11 DEF TransferEffect, Tame
  <2>2. /\ Assets!balanceOf(w) = w.asset["vault"] /\ Assets!balanceOf(x) = x.asset["vault"]
    BY <1>11, <2>1, TameBalance DEF Tame
  <2>3. w.asset["vault"] \in Nat /\ x.asset["vault"] \in Nat
    BY <2>1 DEF World, Holders
  <2> QED
    BY <1>3, <1>7, <1>9, <2>2, <2>3
<1>14. /\ Unfrozen(v, c.to) /\ c.amount <= v.asset["vault"] /\ World(x)
       /\ x.log.succeeded \in BOOLEAN
       /\ \A y : /\ World(y) /\ Frame(v, y, {"hook", "log", "asset"})
                 /\ y.hook = Assets!NoHook
                 /\ y.asset = Assets!Settled(v.asset, c.to, c.amount, c.amount)
                 => Explains(y, v.hook.call, x)
  BY <1>3, <1>4, <1>6, <1>7, <1>12, <1>13, SerialTransfer
<1> DEFINE silent == Silent(w)
<1>15. /\ World(silent) /\ Tame(silent) /\ ~IsArmed(silent) /\ Frame(w, silent, {"hook"})
       /\ silent.hook = Assets!NoHook
  BY <1>11, SilentWorld
<1>16. s = Assets!Nested(silent, c)
  OBVIOUS
<1> HIDE DEF silent, s
<1>17. silent.asset = w.asset /\ silent.frozen = w.frozen /\ silent.nonces = w.nonces
  BY <1>15 DEF Frame, WorldFields
<1>18. MaySettle(silent, c)
  <2>1. Frame(w, silent, {"hook", "log", "asset"})
    BY <1>15, FrameGrows
  <2>2. Assets!MaySpend(silent, c)
    BY <1>8, <2>1, SameMaySpend
  <2> QED
    BY <1>9, <1>14, <1>17, <2>2 DEF MaySettle, Unfrozen
<1>19. s.ok /\ Settles(silent, c, s.w)
  BY <1>15, <1>16, <1>18, TameSpends
<1>20. World(s.w) /\ s.w.hook = Assets!NoHook
  BY <1>15, <1>19 DEF Settles, Frame, WorldFields
<1>21. Explains(s.w, v.hook.call, x)
  <2>1. s.w.nonces = v.nonces
    <3>1. Assets!SpendNonce(silent, c.nonce).nonces
            = [silent.nonces EXCEPT !["spend"] = c.nonce + 1]
      BY <1>15 DEF Assets!SpendNonce, World, WorldFields
    <3> QED
      BY <1>4, <1>17, <1>19, <3>1 DEF Settles
  <2>2. Frame(v, s.w, {"hook", "log", "asset"})
    BY <1>4, <1>15, <1>19, <2>1 DEF Settles, Frame
  <2>3. s.w.asset = Assets!Settled(v.asset, c.to, c.amount, c.amount)
    BY <1>9, <1>17, <1>19 DEF Settles
  <2> QED
    BY <1>14, <1>20, <2>2, <2>3
<1>22. Explains(s.w, w.hook.call, r.w) /\ World(r.w) /\ r.w.log.succeeded \in BOOLEAN
  BY <1>7, <1>9, <1>14, <1>21
<1>23. c.kind \in HookCalls
  BY DEF HookCalls
<1>24. Assets!SerialFor(w, c, r)
  BY <1>10, <1>11, <1>16, <1>19, <1>20, <1>22, <1>23, InTurn DEF silent
<1> QED
  BY <1>24 DEF r

LEMMA SerialEgress ==
    ASSUME NEW w, World(w), Ready(w), w.log.fired = "none",
           NEW c, c.kind = "EGRESS_TOKEN"
    PROVE  Assets!SerialFor(w, c, Assets!Exec(w, c))
<1> DEFINE held == Assets!balanceOf(w)
           paid == Assets!Transfer(w, "destination", held)
           r == Assets!Exec(w, c)
           x == paid.w
           gone == held - Assets!balanceOf(x)
           s == Assets!Nested(Silent(w), c)
<1>1. (r.ok /\ r.w.log.fired # "none") \/ Assets!SerialFor(w, c, r)
  BY DEF Assets!SerialFor, Assets!None
<1> SUFFICES ASSUME r.ok, r.w.log.fired # "none"
             PROVE  Assets!SerialFor(w, c, r)
  BY <1>1
<1>2. r = IF ~Assets!Matured(w) THEN Assets!Refused(w) ELSE Assets!EgressToken(w, paid)
  BY DEF Assets!Exec, Assets!Call, Assets!Egresses, Assets!Egress
<1>3. /\ paid = Assets!Transfer(w, "destination", held) /\ held = Assets!balanceOf(w)
      /\ held \in Nat
  BY Balances
<1> HIDE DEF paid, r, held
<1>4. Assets!Matured(w) /\ r = Assets!EgressToken(w, paid)
  BY <1>2, Outcomes
<1>5. HookEffect(w, r.w)
  BY <1>3, <1>4, TokenEgresses DEF EgressEffect
<1>6. IsArmed(w)
  BY <1>5 DEF HookEffect
<1>7. Tame(w) /\ w.hook.call.kind \in HookCalls
  BY <1>6 DEF Ready, IsArmed, HookCallOf, HookCalls, Hooks
<1>8. held = w.asset["vault"] /\ ~Assets!BalanceFails(w)
  BY <1>3, <1>7, TameBalance DEF Tame
<1>9. r # Assets!Published(w, 0)
  <2>1. SameLog(w, Assets!Published(w, 0).w, {"published"})
    BY Publishes
  <2>2. Assets!Published(w, 0).w.log.fired = "none"
    BY <2>1 DEF SameLog, LogFields
  <2> QED
    BY <2>2
<1>10. paid.ok /\ Assets!balanceOf(x) < held /\ r = Assets!Published(x, gone)
  <2>1. r = Assets!Emptied(w, paid)
    BY <1>3, <1>4, <1>8, <1>9 DEF Assets!EgressToken
  <2> QED
    BY <1>3, <2>1, Outcomes DEF Assets!Emptied
<1>11. /\ Unfrozen(w, "destination") /\ World(x) /\ x.log.succeeded \in BOOLEAN
       /\ \A y : /\ World(y) /\ Frame(w, y, {"hook", "log", "asset"})
                 /\ y.hook = Assets!NoHook
                 /\ y.asset = Assets!Settled(w.asset, "destination", held, held)
                 => Explains(y, w.hook.call, x)
  BY <1>3, <1>6, <1>7, <1>8, <1>10, SerialTransfer
<1> HIDE DEF x
<1>12. gone \in Nat
  BY <1>3, <1>10, <1>11, Balances
<1> HIDE DEF gone
<1>13. World(r.w) /\ Frame(x, r.w, {"log"}) /\ r.w.log.succeeded = x.log.succeeded
  <2>1. World(r.w) /\ Frame(x, r.w, {"log"}) /\ SameLog(x, r.w, {"published"})
    BY <1>10, <1>11, <1>12, Publishes
  <2> QED
    BY <2>1 DEF SameLog, LogFields
<1> DEFINE silent == Silent(w)
<1>14. /\ World(silent) /\ Tame(silent) /\ ~IsArmed(silent) /\ Frame(w, silent, {"hook"})
       /\ silent.hook = Assets!NoHook
  BY <1>7, SilentWorld
<1>15. s = Assets!Nested(silent, c)
  OBVIOUS
<1> HIDE DEF silent, s
<1>16. /\ silent.asset = w.asset /\ silent.frozen = w.frozen /\ silent.boundAt = w.boundAt
       /\ silent.now = w.now
  BY <1>14 DEF Frame, WorldFields
<1>17. MayEmpty(silent)
  BY <1>4, <1>11, <1>16 DEF MayEmpty, Unfrozen, Assets!Matured
<1>18. s.ok /\ Passed(silent, s.w, "destination", held)
  BY <1>8, <1>14, <1>15, <1>16, <1>17, TameEgresses
<1>19. World(s.w) /\ s.w.hook = Assets!NoHook
  BY <1>14, <1>18 DEF Passed, Frame, WorldFields
<1>20. Explains(s.w, w.hook.call, x)
  <2>1. Frame(w, s.w, {"hook", "log", "asset"})
    BY <1>14, <1>18 DEF Passed, Frame
  <2>2. s.w.asset = Assets!Settled(w.asset, "destination", held, held)
    BY <1>16, <1>18 DEF Passed
  <2> QED
    BY <1>11, <1>19, <2>1, <2>2
<1>21. Explains(s.w, w.hook.call, r.w)
  <2> DEFINE t == Assets!Nested(s.w, w.hook.call)
  <2>1. Explains(s.w, w.hook.call, x)
          <=> IF x.log.succeeded THEN t.ok /\ Frame(t.w, x, {"log"}) ELSE Frame(s.w, x, {"log"})
    BY DEF Explains
  <2>2. Explains(s.w, w.hook.call, r.w)
          <=> IF x.log.succeeded THEN t.ok /\ Frame(t.w, r.w, {"log"})
                                 ELSE Frame(s.w, r.w, {"log"})
    BY <1>13 DEF Explains
  <2> HIDE DEF t
  <2>3. Frame(t.w, x, {"log"}) => Frame(t.w, r.w, {"log"})
    BY <1>13 DEF Frame
  <2>4. Frame(s.w, x, {"log"}) => Frame(s.w, r.w, {"log"})
    BY <1>13 DEF Frame
  <2> QED
    BY <1>20, <2>1, <2>2, <2>3, <2>4
<1>22. Sendable(c) /\ c.kind \in HookCalls
  BY DEF Sendable, HookCalls
<1>23. Assets!SerialFor(w, c, r)
  BY <1>6, <1>7, <1>11, <1>13, <1>15, <1>18, <1>19, <1>21, <1>22, InTurn DEF silent
<1> QED
  BY <1>23 DEF r

\* No other call makes the token call anybody.
LEMMA NobodyCalled ==
    ASSUME NEW w, World(w), NEW c, c.kind \notin {"SPEND", "EGRESS_TOKEN"}
    PROVE  Assets!Exec(w, c).w.log.fired = w.log.fired
<1> DEFINE r == Assets!Exec(w, c)
           paid == Assets!Transfer(Assets!SpendNonce(w, c.nonce), c.to, c.amount)
           emptied == Assets!Transfer(w, "destination", Assets!balanceOf(w))
<1>1. r = Assets!Call(w, c, paid, emptied)
  BY DEF Assets!Exec
<1> HIDE DEF paid, emptied, r
<1>2. CASE c.kind \in {"EGRESS_NATIVE", "EGRESS_OTHER"}
  <2>1. r = IF ~Assets!Matured(w) THEN Assets!Refused(w)
            ELSE IF c.kind = "EGRESS_NATIVE" THEN Assets!EgressNative(w) ELSE Assets!EgressOther(w)
    BY <1>1, <1>2 DEF Assets!Call, Assets!Egresses, Assets!Egress
  <2>2. r = Assets!Refused(w) \/ SameLog(w, r.w, {"published"})
    BY <2>1, NativeEgresses, OtherEgresses
  <2>3. r.w = w \/ SameLog(w, r.w, {"published"})
    BY <2>2, Outcomes
  <2> QED
    BY <2>3 DEF SameLog, LogFields, r
<1>3. CASE c.kind \in {"ENTER_CONTAINMENT", "BIND_MIGRATION", "SET_POLICY"}
  <2>1. r \in {Assets!EnterContainment(w, c), Assets!BindMigration(w, c), Assets!SetPolicy(w, c)}
    BY <1>1, <1>3 DEF Assets!Call, Assets!Egresses
  <2>2. \/ Frame(w, r.w, {"nonces", "safeState", "containedUntil"})
        \/ Frame(w, r.w, {"nonces", "boundAt", "safeState"})
        \/ Frame(w, r.w, {"nonces", "policy"})
    BY <2>1, ContainsWell, BindsWell, SetsWell
  <2>3. r.w.log = w.log
    BY <2>2 DEF Frame, WorldFields
  <2> QED
    BY <2>3 DEF r
<1>4. CASE c.kind = "RETIRE"
  <2> DEFINE v == [w EXCEPT !.safeState = "RETIRED"]
  <2>1. IF Assets!Matured(w) THEN r = Assets!Done(v) ELSE r = Assets!Refused(w)
    BY <1>1, <1>4 DEF Assets!Call, Assets!Egresses
  <2>2. v.log = w.log
    BY DEF World, WorldFields
  <2> HIDE DEF v
  <2>3. r.w \in {v, w}
    BY <2>1, Outcomes
  <2> QED
    BY <2>2, <2>3 DEF r
<1>5. CASE c.kind \notin Assets!Egresses \cup Others
  <2>1. r = Assets!Done(w)
    BY <1>1, <1>5 DEF Assets!Call, Assets!Egresses, Others
  <2>2. r.w = w
    BY <2>1, Outcomes
  <2> QED
    BY <2>2 DEF r
<1> QED
  BY <1>2, <1>3, <1>4, <1>5 DEF Others, Assets!Egresses

\* A call that does not pay the vault itself does, with a call in it, what the two do
\* one after the other.
LEMMA SerialOutside ==
    ASSUME NEW w, World(w), Ready(w), w.log.fired = "none", NEW c, Sendable(c)
    PROVE  "outward" \notin Assets!Unserial(w, c, Assets!Exec(w, c))
<1> DEFINE r == Assets!Exec(w, c)
<1>1. \/ Assets!SerialFor(w, c, r)
      \/ c.kind = "SPEND" /\ c.to = "vault"
  <2>1. CASE c.kind = "SPEND"
    <3>1. c.to \in {"recipient", "vault"}
      BY <2>1 DEF Sendable
    <3> QED
      BY <2>1, <3>1, SerialSpend
  <2>2. CASE c.kind = "EGRESS_TOKEN"
    BY <2>2, SerialEgress
  <2>3. CASE c.kind \notin {"SPEND", "EGRESS_TOKEN"}
    <3>1. r.w.log.fired = "none"
      BY <2>3, NobodyCalled
    <3> QED
      BY <3>1 DEF Assets!SerialFor, Assets!None
  <2> QED
    BY <2>1, <2>2, <2>3
<1> HIDE DEF r
<1>2. "outward" \notin Assets!Unserial(w, c, r)
  BY <1>1 DEF Assets!Unserial
<1> QED
  BY <1>2 DEF r

-----------------------------------------------------------------------------
(* Whom the harness charges                                                 *)

Counts(roots) == roots.credential \in Nat /\ roots.guardians \in Nat

\* A hook's call is of those who armed it; a replay is of nobody, and never settles.
HookMade(w, roots) ==
    /\ Ready(w)
    /\ IsArmed(w) /\ w.hook.kind # "replaySpend" => Backed(w.hook.call, roots)

AtLeast(held, roots) ==
    held.credential >= roots.credential /\ held.guardians >= roots.guardians

LEMMA JoinedHolds ==
    ASSUME NEW r, Counts(r), NEW s, Counts(s)
    PROVE  /\ Counts(Assets!Joined(r, s))
           /\ AtLeast(Assets!Joined(r, s), r) /\ AtLeast(Assets!Joined(r, s), s)
<1>1. /\ Assets!Joined(r, s).credential
           = IF r["credential"] > s["credential"] THEN r["credential"] ELSE s["credential"]
      /\ Assets!Joined(r, s).guardians
           = IF r["guardians"] > s["guardians"] THEN r["guardians"] ELSE s["guardians"]
  BY DEF Assets!Joined
<1> QED
  BY <1>1 DEF Counts, AtLeast

LEMMA ChargesHold ==
    ASSUME NEW roots, Counts(roots), Counts(aCtx.hookRoots), NEW log
    PROVE  LET charged == Assets!ChargedWith(roots, log) IN
           /\ Counts(charged) /\ AtLeast(charged, roots)
           /\ log.succeeded /\ log.fired \in Assets!SIGNED_HOOKS
                => AtLeast(charged, aCtx.hookRoots)
<1> DEFINE charged == Assets!ChargedWith(roots, log)
<1>1. CASE log.succeeded /\ log.fired \in Assets!SIGNED_HOOKS
  <2>1. charged = Assets!Joined(roots, aCtx.hookRoots)
    BY <1>1 DEF Assets!ChargedWith
  <2> HIDE DEF charged
  <2>2. Counts(charged) /\ AtLeast(charged, roots) /\ AtLeast(charged, aCtx.hookRoots)
    BY <2>1, JoinedHolds
  <2> QED
    BY <2>2 DEF charged
<1>2. CASE ~(log.succeeded /\ log.fired \in Assets!SIGNED_HOOKS)
  <2>1. charged = roots
    BY <1>2 DEF Assets!ChargedWith
  <2> HIDE DEF charged
  <2>2. Counts(charged) /\ AtLeast(charged, roots)
    BY <2>1 DEF Counts, AtLeast
  <2> QED
    BY <1>2, <2>2 DEF charged
<1> QED
  BY <1>1, <1>2

\* The hook's call that bound or contained: its signers are charged.
LEMMA HookCharged ==
    ASSUME NEW w, NEW x, HookSucceeded(w, x), NEW roots, HookMade(w, roots),
           w.hook.call.kind \in {"BIND_MIGRATION", "ENTER_CONTAINMENT"}
    PROVE  x.log.succeeded /\ x.log.fired \in Assets!SIGNED_HOOKS /\ Backed(w.hook.call, roots)
<1>1. IsArmed(w) /\ x.log.fired = w.hook.kind /\ x.log.succeeded
  BY DEF HookSucceeded
<1>2. HookCallOf(w.hook.kind, w.hook.call)
  BY <1>1 DEF HookMade, Ready
<1>3. w.hook.kind \in {"contain", "bindMigration"}
  BY <1>2 DEF HookCallOf, Hooks
<1> QED
  BY <1>1, <1>3 DEF HookMade, Assets!SIGNED_HOOKS

LEMMA ChargedEnough ==
    ASSUME NEW w, World(w), HookMade(w, aCtx.hookRoots), NEW c, NEW x, CallEffect(w, c, x),
           NEW roots, Counts(roots), Counts(aCtx.hookRoots), Backed(c, roots),
           c.kind \in Assets!Egresses /\ w.boundAt # 0 => roots.credential >= 1
    PROVE  LET charged == Assets!ChargedWith(roots, x.log) IN
           /\ Counts(charged)
           /\ Leaves(w, x) \/ x.policy # w.policy => charged.credential >= 1
           /\ x.boundAt # w.boundAt =>
                 /\ w.boundAt = 0 /\ x.boundAt = w.now
                 /\ charged.credential >= 1 /\ charged.guardians >= 2
           /\ w.safeState # "CONTAINED" /\ x.safeState = "CONTAINED" => charged.guardians >= 2
<1> DEFINE charged == Assets!ChargedWith(roots, x.log)
           h == w.hook.call
<1>1. /\ Counts(charged) /\ AtLeast(charged, roots)
      /\ x.log.succeeded /\ x.log.fired \in Assets!SIGNED_HOOKS
           => AtLeast(charged, aCtx.hookRoots)
  BY ChargesHold
<1> HIDE DEF charged
<1>2. ASSUME Leaves(w, x) \/ x.policy # w.policy
      PROVE  charged.credential >= 1
  <2>1. roots.credential >= 1
    <3>1. CASE c.kind = "SPEND" /\ Assets!MaySpend(w, c)
      BY <3>1 DEF Backed, Assets!MaySpend, Assets!Authorised
    <3>2. CASE c.kind \in Assets!Egresses /\ Assets!Matured(w)
      BY <3>2 DEF Assets!Matured
    <3>3. CASE c.kind = "SET_POLICY" /\ c.signed
      BY <3>3 DEF Backed
    <3> QED
      BY <1>2, <3>1, <3>2, <3>3 DEF CallEffect
  <2> QED
    BY <1>1, <2>1 DEF AtLeast, Counts
<1>3. ASSUME x.boundAt # w.boundAt
      PROVE  /\ w.boundAt = 0 /\ x.boundAt = w.now
             /\ charged.credential >= 1 /\ charged.guardians >= 2
  <2>1. BindsInside(w, x, c)
    BY DEF CallEffect
  <2>2. CASE Binds(w, x, c)
    <3>1. w.boundAt = 0 /\ x.boundAt = w.now /\ c.kind = "BIND_MIGRATION" /\ c.signed /\ c.quorum
      BY <1>3, <2>2 DEF Binds
    <3>2. roots.credential >= 1 /\ roots.guardians >= 2
      BY <3>1 DEF Backed
    <3> QED
      BY <1>1, <3>1, <3>2 DEF AtLeast, Counts
  <2>3. CASE HookSucceeded(w, x) /\ Binds(w, x, h)
    <3>1. w.boundAt = 0 /\ x.boundAt = w.now /\ h.kind = "BIND_MIGRATION" /\ h.signed /\ h.quorum
      BY <1>3, <2>3 DEF Binds
    <3>2. AtLeast(charged, aCtx.hookRoots) /\ Backed(h, aCtx.hookRoots)
      BY <1>1, <2>3, <3>1, HookCharged
    <3>3. aCtx.hookRoots.credential >= 1 /\ aCtx.hookRoots.guardians >= 2
      BY <3>1, <3>2 DEF Backed
    <3> QED
      BY <1>1, <3>1, <3>2, <3>3 DEF AtLeast, Counts
  <2> QED
    BY <2>1, <2>2, <2>3 DEF BindsInside
<1>4. ASSUME w.safeState # "CONTAINED", x.safeState = "CONTAINED"
      PROVE  charged.guardians >= 2
  <2>1. ContainsInside(w, x, c)
    BY DEF CallEffect
  <2>2. CASE Contains(w, x, c)
    <3>1. c.kind = "ENTER_CONTAINMENT" /\ c.quorum
      BY <1>4, <2>2 DEF Contains
    <3>2. roots.guardians >= 2
      BY <3>1 DEF Backed
    <3> QED
      BY <1>1, <3>2 DEF AtLeast, Counts
  <2>3. CASE HookSucceeded(w, x) /\ Contains(w, x, h)
    <3>1. h.kind = "ENTER_CONTAINMENT" /\ h.quorum
      BY <1>4, <2>3 DEF Contains
    <3>2. AtLeast(charged, aCtx.hookRoots) /\ Backed(h, aCtx.hookRoots)
      BY <1>1, <2>3, <3>1, HookCharged
    <3>3. aCtx.hookRoots.guardians >= 2
      BY <3>1, <3>2 DEF Backed
    <3> QED
      BY <1>1, <3>2, <3>3 DEF AtLeast, Counts
  <2> QED
    BY <2>1, <2>2, <2>3 DEF ContainsInside
<1>5. /\ Counts(charged)
      /\ Leaves(w, x) \/ x.policy # w.policy => charged.credential >= 1
      /\ x.boundAt # w.boundAt =>
            /\ w.boundAt = 0 /\ x.boundAt = w.now
            /\ charged.credential >= 1 /\ charged.guardians >= 2
      /\ w.safeState # "CONTAINED" /\ x.safeState = "CONTAINED" => charged.guardians >= 2
  BY <1>1, <1>2, <1>3, <1>4
<1> QED
  BY <1>5 DEF charged

-----------------------------------------------------------------------------
(* What the harness reports of a step                                       *)

LEMMA CutHeld ==
    ASSUME NEW held, Counts(held), NEW outcome,
           \/ outcome \in {"ASSET_MOVEMENT", "POLICY_CHANGE"} /\ held.credential >= 1
           \/ outcome = "MIGRATION_BINDING" /\ held.credential >= 1 /\ held.guardians >= 2
           \/ outcome = "CONTAINMENT" /\ held.guardians >= 2
    PROVE  Assets!Model!judgeCut(held, outcome, 1, 2)
<1>1. CASE outcome \in {"ASSET_MOVEMENT", "POLICY_CHANGE"} /\ held.credential >= 1
  <2> DEFINE path == [credential |-> 1, guardians |-> 0]
  <2>1. path \in Assets!Model!authorityPaths(outcome, 1, 2)
    BY <1>1 DEF Assets!Model!authorityPaths, Assets!Model!CredentialGated
  <2>2. held.credential >= path.credential /\ held.guardians >= path.guardians
    BY <1>1 DEF Counts
  <2> QED
    BY <2>1, <2>2 DEF Assets!Model!judgeCut
<1>2. CASE outcome = "MIGRATION_BINDING" /\ held.credential >= 1 /\ held.guardians >= 2
  <2> DEFINE path == [credential |-> 1, guardians |-> 2]
  <2>1. path \in Assets!Model!authorityPaths(outcome, 1, 2)
    BY <1>2 DEF Assets!Model!authorityPaths, Assets!Model!CredentialGated
  <2>2. held.credential >= path.credential /\ held.guardians >= path.guardians
    BY <1>2
  <2> QED
    BY <2>1, <2>2 DEF Assets!Model!judgeCut
<1>3. CASE outcome = "CONTAINMENT" /\ held.guardians >= 2
  <2> DEFINE path == [credential |-> 0, guardians |-> 2]
  <2>1. path \in Assets!Model!authorityPaths(outcome, 1, 2)
    BY <1>3 DEF Assets!Model!authorityPaths, Assets!Model!CredentialGated
  <2>2. held.credential >= path.credential /\ held.guardians >= path.guardians
    BY <1>3 DEF Counts
  <2> QED
    BY <2>1, <2>2 DEF Assets!Model!judgeCut
<1> QED
  BY <1>1, <1>2, <1>3

\* Everything observed was paid for, and nothing left a bound vault early.
Explained(kind, charged) ==
    /\ Assets!LeftTheVault /\ kind # "TOKEN_REBASE" =>
          /\ charged.credential >= 1
          /\ aChain.boundAt # 0 => aChain'.now >= aCtx'.boundAt + AssetBindDelay
    /\ aChain'.policy # aChain.policy => charged.credential >= 1
    /\ aChain.boundAt = 0 /\ aChain'.boundAt # 0 =>
          charged.credential >= 1 /\ charged.guardians >= 2
    /\ aChain.safeState # "CONTAINED" /\ aChain'.safeState = "CONTAINED" =>
          charged.guardians >= 2

LEMMA StepQuiet ==
    ASSUME NEW kind, NEW charged, Counts(charged), World(aChain'),
           aChain'.sibling = aChain.sibling, Explained(kind, charged),
           aCtx'.boundAt \in Nat, AssetBindDelay \in Nat
    PROVE  Assets!StepAlarms(kind, charged) = {}
<1>1. \A o \in Assets!observed(kind) : Assets!Model!judgeCut(charged, o, 1, 2)
  <2> SUFFICES ASSUME NEW o \in Assets!observed(kind)
               PROVE  Assets!Model!judgeCut(charged, o, 1, 2)
    OBVIOUS
  <2>1. CASE o = "ASSET_MOVEMENT" /\ Assets!LeftTheVault /\ kind # "TOKEN_REBASE"
    BY <2>1, CutHeld DEF Explained
  <2>2. CASE o = "POLICY_CHANGE" /\ aChain'.policy # aChain.policy
    BY <2>2, CutHeld DEF Explained
  <2>3. CASE o = "MIGRATION_BINDING" /\ aChain.boundAt = 0 /\ aChain'.boundAt # 0
    BY <2>3, CutHeld DEF Explained
  <2>4. CASE /\ o = "CONTAINMENT"
             /\ aChain.safeState # "CONTAINED" /\ aChain'.safeState = "CONTAINED"
    BY <2>4, CutHeld DEF Explained
  <2> QED
    BY <2>1, <2>2, <2>3, <2>4 DEF Assets!observed
<1>2. UNION {Assets!Violated("P-CUT", ~Assets!Model!judgeCut(charged, o, 1, 2)) :
                o \in Assets!observed(kind)} = {}
  BY <1>1 DEF Assets!Violated
<1>3. aChain'.asset.vault + aChain'.asset.recipient + aChain'.asset.destination
        + aChain'.asset.sink = aChain'.supply
  BY DEF World, Balanced
<1>4. ~(/\ Assets!LeftTheVault /\ kind # "TOKEN_REBASE" /\ aChain.boundAt # 0
        /\ aCtx'.boundAt # 0 /\ aChain'.now < aCtx'.boundAt + AssetBindDelay)
  BY DEF Explained, World
<1>5. /\ Assets!Violated("P-CONSERVATION",
            aChain'.asset.vault + aChain'.asset.recipient + aChain'.asset.destination
              + aChain'.asset.sink # aChain'.supply) = {}
      /\ Assets!Violated("P-CROSS-ASSET", aChain'.sibling # aChain.sibling) = {}
      /\ Assets!Violated("P-MIGRATION-TIME",
            /\ Assets!LeftTheVault /\ kind # "TOKEN_REBASE" /\ aChain.boundAt # 0
            /\ aCtx'.boundAt # 0 /\ aChain'.now < aCtx'.boundAt + AssetBindDelay) = {}
  BY <1>3, <1>4 DEF Assets!Violated
<1> QED
  BY <1>2, <1>5 DEF Assets!StepAlarms

LEMMA SpendQuiet ==
    ASSUME World(aChain), NEW w, World(w), Frame(aChain, w, {"hook"}), Ready(w),
           w.log.fired = "none", NEW c, Sendable(c), c.kind = "SPEND",
           NEW x, SpendEffect(w, c, x), Frame(x, aChain', {"log"})
    PROVE  Assets!SpendAlarms(c, x.log) = {}
<1> DEFINE v == Assets!SpendNonce(w, c.nonce)
<1>1. Assets!MaySpend(w, c) /\ TransferEffect(v, x)
  BY DEF SpendEffect
<1>2. c.nonce \in Nat /\ c.nonce = w.nonces["spend"]
  BY <1>1 DEF Sendable, Assets!MaySpend, Assets!Authorised
<1>3. Hooked(v)
  BY <1>2, SpentHooked
<1>4. World(v) /\ Frame(w, v, {"nonces"}) /\ v.nonces["spend"] = c.nonce + 1
  BY <1>2, OtherNonces, NonceOnSpend
<1> HIDE DEF v
<1>5. /\ World(x) /\ Frame(v, x, NestedFields \cup {"hook"}) /\ Onward(v, x) /\ HookEffect(v, x)
      /\ x.log.transfers > v.log.transfers
  BY <1>1 DEF TransferEffect
<1>6. /\ aChain.policy = w.policy /\ aChain.nonces = w.nonces /\ aChain.asset = w.asset
      /\ aChain.mode = w.mode /\ aChain.native = w.native /\ aChain.other = w.other
  BY DEF Frame, WorldFields
<1>7. /\ aChain'.nonces = x.nonces /\ aChain'.asset = x.asset /\ aChain'.native = x.native
      /\ aChain'.other = x.other
  BY DEF Frame, WorldFields
<1>8. x.native = w.native /\ x.other = w.other /\ v.log = w.log /\ v.hook = w.hook
  BY <1>4, <1>5 DEF Frame, NestedFields, WorldFields
<1>9. aChain.policy # "deny"
  BY <1>1, <1>6 DEF Assets!MaySpend
<1>10. ~(aChain'.nonces.spend <= aChain.nonces.spend)
  <2>1. x.nonces["spend"] \in Nat /\ x.nonces["spend"] >= v.nonces["spend"]
    BY <1>5 DEF Onward, World, Authorities
  <2> QED
    BY <1>2, <1>4, <1>6, <1>7, <2>1
<1>11. x.log.transfers # 0
  BY <1>4, <1>5 DEF World, Logs
<1>12. aChain.mode # Lying => aChain.asset.vault - aChain'.asset.vault = c.amount
  BY <1>6, <1>7 DEF SpendEffect
<1>13. aChain.mode \notin {Lying, "RECIPIENT_FEE"} /\ c.to = "recipient"
          /\ ~(x.log.succeeded /\ x.log.fired \in Moving)
        => aChain'.asset.recipient - aChain.asset.recipient = c.amount
  BY <1>6, <1>7 DEF SpendEffect
<1>14. aChain'.other = aChain.other /\ ~(aChain'.native.vault < aChain.native.vault)
  <2>1. aChain.native.vault \in Nat
    BY DEF World
  <2> QED
    BY <1>6, <1>7, <1>8, <2>1
<1>15. \/ x.log.fired = "none"
       \/ /\ x.log.fired = w.hook.kind /\ Reports(v, x) /\ IsArmed(v)
          /\ x.log.succeeded /\ w.hook.call.kind = "SPEND" => Assets!MaySpend(v, w.hook.call)
  BY <1>5, <1>8 DEF HookEffect, Reports
<1>16. ~(x.log.fired = "readNonce" /\ x.log.succeeded /\ x.log.seen <= aChain.nonces.spend)
  <2>1. ASSUME x.log.fired = "readNonce"
        PROVE  x.log.seen = c.nonce + 1
    BY <1>4, <1>8, <1>15, <2>1 DEF Reports
  <2> QED
    BY <1>2, <1>6, <2>1
<1>17. ~(x.log.fired = "replaySpend" /\ x.log.succeeded)
  <2>1. ASSUME x.log.fired = "replaySpend", x.log.succeeded
        PROVE  FALSE
    <3>1. w.hook.kind = "replaySpend" /\ IsArmed(v)
      BY <1>15, <2>1
    <3>2. w.hook.call.kind = "SPEND" /\ ~Assets!MaySpend(v, w.hook.call)
      BY <1>3, <1>8, <3>1 DEF Hooked, HookCallOf
    <3> QED
      BY <1>15, <2>1, <3>2
  <2> QED
    BY <2>1
<1> DEFINE honest == aChain.mode \notin Assets!LYING_TO_THE_SENDER
           nested == x.log.succeeded /\ x.log.fired \in {"secondValidSpend", "egress"}
           debit == aChain.asset.vault - aChain'.asset.vault
<1>18. ~(honest /\ c.to # "vault" /\ ~nested /\ debit # c.amount)
  BY <1>12 DEF Assets!LYING_TO_THE_SENDER, Lying
<1>19. ~(/\ honest /\ aChain.mode \notin Assets!RECIPIENT_LEG_ONLY
         /\ c.to = "recipient" /\ ~nested
         /\ aChain'.asset.recipient - aChain.asset.recipient # c.amount)
  BY <1>13 DEF Assets!LYING_TO_THE_SENDER, Assets!RECIPIENT_LEG_ONLY, Lying, Moving
<1>20. /\ Assets!Violated("P-PLANE-SUBTRACTIVE", aChain.policy = "deny") = {}
       /\ Assets!Violated("P-NONCE-ON-SPEND", aChain'.nonces.spend <= aChain.nonces.spend) = {}
       /\ Assets!Violated("P-SPEND-COMPLETED-TRANSFER", x.log.transfers = 0) = {}
       /\ Assets!Violated("P-SETTLEMENT-EXACT",
             honest /\ c.to # "vault" /\ ~nested /\ debit # c.amount) = {}
  BY <1>9, <1>10, <1>11, <1>18 DEF Assets!Violated
<1>21. Assets!Violated("P-SPEND-PAYS-RECIPIENT",
          /\ honest /\ aChain.mode \notin Assets!RECIPIENT_LEG_ONLY
          /\ c.to = "recipient" /\ ~nested
          /\ aChain'.asset.recipient - aChain.asset.recipient # c.amount) = {}
  BY <1>19 DEF Assets!Violated
<1>22. /\ Assets!Violated("P-SPEND-TOUCHES-ONLY-ASSET",
             aChain'.other.vault # aChain.other.vault
               \/ aChain'.native.vault < aChain.native.vault) = {}
       /\ Assets!Violated("P-NONCE-SPENT-BEFORE-TOKEN-RUNS",
             x.log.fired = "readNonce" /\ x.log.succeeded
               /\ x.log.seen <= aChain.nonces.spend) = {}
       /\ Assets!Violated("P-REENTRY-NO-REPLAY",
             x.log.fired = "replaySpend" /\ x.log.succeeded) = {}
  BY <1>14, <1>16, <1>17 DEF Assets!Violated
<1> QED
  BY <1>20, <1>21, <1>22 DEF Assets!SpendAlarms

LEMMA EgressQuiet ==
    ASSUME World(aChain), NEW w, Frame(aChain, w, {"hook"}), w.log.published = 0,
           NEW c, c.kind \in Assets!Egresses, NEW x, Egressed(w, c, x), World(x),
           Frame(x, aChain', {"log"})
    PROVE  Assets!EgressAlarms(c.kind, x.log) = {}
<1> DEFINE kind == c.kind
           lost == CASE kind = "EGRESS_NATIVE" -> aChain.native.vault - aChain'.native.vault
                     [] kind = "EGRESS_TOKEN" -> aChain.asset.vault - aChain'.asset.vault
                     [] OTHER -> aChain.other.vault - aChain'.other.vault
           gained ==
               CASE kind = "EGRESS_NATIVE" ->
                        aChain'.native.destination - aChain.native.destination
                 [] kind = "EGRESS_TOKEN" ->
                        aChain'.asset.destination - aChain.asset.destination
                 [] OTHER -> aChain'.other.destination - aChain.other.destination
           lying == kind = "EGRESS_TOKEN" /\ aChain.mode \in Assets!LYING_TO_THE_SENDER
           oneLeg == kind = "EGRESS_TOKEN" /\ aChain.mode \in Assets!RECIPIENT_LEG_ONLY
<1>1. /\ aChain.asset = w.asset /\ aChain.mode = w.mode /\ aChain.native = w.native
      /\ aChain.other = w.other
  BY DEF Frame, WorldFields
<1>2. aChain'.asset = x.asset /\ aChain'.native = x.native /\ aChain'.other = x.other
  BY DEF Frame, WorldFields
<1>3. /\ aChain.asset["vault"] \in Nat /\ x.asset["vault"] \in Nat
      /\ aChain.native["vault"] \in Nat /\ x.native["vault"] \in Nat
      /\ aChain.other["vault"] \in Nat /\ x.other["vault"] \in Nat
  BY DEF World, Holders
<1>4. (~oneLeg => gained = lost) /\ (~lying => x.log.published = lost)
  <2>1. CASE kind = "EGRESS_NATIVE"
    <3>1. Accounted(w.native, x.native, w, x)
      BY <2>1 DEF Egressed
    <3>2. gained = lost
      BY <1>1, <1>2, <2>1, <3>1 DEF Accounted
    <3>3. x.log.published = lost
      BY <1>1, <1>2, <1>3, <2>1, <3>1 DEF Accounted
    <3> QED
      BY <3>2, <3>3
  <2>2. CASE kind = "EGRESS_TOKEN"
    <3>1. EgressEffect(w, x)
      BY <2>2 DEF Egressed
    <3>2. ~oneLeg => gained = lost
      BY <1>1, <1>2, <2>2, <3>1 DEF EgressEffect, Assets!RECIPIENT_LEG_ONLY
    <3>3. ~lying => x.log.published = lost
      BY <1>1, <1>2, <1>3, <2>2, <3>1 DEF EgressEffect, Assets!LYING_TO_THE_SENDER, Lying
    <3> QED
      BY <3>2, <3>3
  <2>3. CASE kind = "EGRESS_OTHER"
    <3>1. Accounted(w.other, x.other, w, x)
      BY <2>3 DEF Egressed
    <3>2. gained = lost
      BY <1>1, <1>2, <2>3, <3>1 DEF Accounted
    <3>3. x.log.published = lost
      BY <1>1, <1>2, <1>3, <2>3, <3>1 DEF Accounted
    <3> QED
      BY <3>2, <3>3
  <2> QED
    BY <2>1, <2>2, <2>3 DEF Assets!Egresses
<1>5. /\ Assets!Violated("P-EGRESS-RECIPIENT", ~oneLeg /\ gained # lost) = {}
      /\ Assets!Violated("P-EGRESS-PUBLISHES-THE-TRUTH",
             ~lying /\ x.log.published # lost) = {}
  <2> HIDE DEF lost, gained, lying, oneLeg
  <2> QED
    BY <1>4 DEF Assets!Violated
<1> QED
  BY <1>5 DEF Assets!EgressAlarms

-----------------------------------------------------------------------------
(* The inductive invariant                                                  *)

\* A nonce that a call is signed for is spent.
Spent(w, c) ==
    c.kind \in Assets!NonceBearing => c.nonce \in Nat /\ c.nonce < w.nonces[NonceOf(c.kind)]

\* What the harness keeps of a call: a call that settled settles no more, and the
\* author of one that was refused had what it carries.
Remembered(w, old) ==
    /\ Sendable(old.call) /\ Counts(old.roots) /\ Backed(old.call, old.roots)
    /\ old.ok => Spent(w, old.call)
    /\ old.kind \in Assets!NonceBearing => old.call.kind = old.kind

Notes(x) ==
    x = [hookRoots |-> x.hookRoots, boundAt |-> x.boundAt, migrationBy |-> x.migrationBy]

\* The chain and what the harness noted of it.
Sound(w, x) ==
    /\ World(w) /\ w.log = Assets!Quiet /\ HookMade(w, x.hookRoots)
    /\ aProfile \in AssetProfiles
    /\ aProfile.hooks = {} => ~IsArmed(w)
    /\ aProfile.hooks # {} => Tame(w)
    /\ Notes(x) /\ Counts(x.hookRoots) /\ Counts(x.migrationBy) /\ x.boundAt = w.boundAt
    /\ w.boundAt # 0 => x.migrationBy.credential >= 1 /\ x.migrationBy.guardians >= 2

CampaignSound ==
    /\ Sound(aChain, aCtx)
    /\ \A old \in aHistory : Remembered(aChain, old)
    /\ aAlarms = {} /\ "outward" \notin aUnserial

LEMMA HookMadeKept ==
    ASSUME NEW w, World(w), NEW roots, HookMade(w, roots), NEW x, World(x), Rising(w, x),
           x.hook = w.hook \/ ~IsArmed(x), x.mode = w.mode,
           w.mode \in Exact => x.poison = w.poison
    PROVE  HookMade(x, roots)
<1>1. CASE ~IsArmed(x)
  BY <1>1 DEF HookMade, Ready
<1>2. CASE x.hook = w.hook /\ IsArmed(x)
  <2>1. /\ IsArmed(w) /\ Tame(w) /\ HookCallOf(w.hook.kind, w.hook.call)
        /\ w.hook.kind = "replaySpend" =>
              w.hook.call.nonce \in Nat /\ w.hook.call.nonce <= w.nonces["spend"]
        /\ w.hook.kind # "replaySpend" => Backed(w.hook.call, roots)
    BY <1>2 DEF HookMade, Ready, IsArmed
  <2>2. Tame(x)
    BY <2>1 DEF Tame
  <2>3. /\ w.nonces["spend"] \in Nat /\ x.nonces["spend"] \in Nat
        /\ x.nonces["spend"] >= w.nonces["spend"]
    BY DEF World, Rising, Authorities
  <2>4. x.hook.kind = "replaySpend" =>
           x.hook.call.nonce \in Nat /\ x.hook.call.nonce <= x.nonces["spend"]
    BY <1>2, <2>1, <2>3
  <2> QED
    BY <1>2, <2>1, <2>2, <2>4 DEF HookMade, Ready
<1> QED
  BY <1>1, <1>2

\* The record of a binding follows the chain's.
LEMMA NotedFollows ==
    ASSUME World(aChain), World(aChain'), aCtx.boundAt = aChain.boundAt,
           aChain.boundAt # 0 =>
              aCtx.migrationBy.credential >= 1 /\ aCtx.migrationBy.guardians >= 2,
           Counts(aCtx.migrationBy), Counts(aCtx.hookRoots), aChain'.now = aChain.now,
           NEW charged, Counts(charged),
           aChain'.boundAt # aChain.boundAt =>
              /\ aChain.boundAt = 0 /\ aChain'.boundAt = aChain.now
              /\ charged.credential >= 1 /\ charged.guardians >= 2,
           NEW x, x = Assets!Noted(charged),
           Notes(aCtx)
    PROVE  /\ Notes(x) /\ Counts(x.hookRoots) /\ Counts(x.migrationBy)
           /\ x.boundAt = aChain'.boundAt
           /\ x.hookRoots = aCtx.hookRoots
           /\ aChain'.boundAt # 0 => x.migrationBy.credential >= 1 /\ x.migrationBy.guardians >= 2
           /\ aChain.boundAt # 0 => x.boundAt = aChain.boundAt
<1>1. CASE aChain.boundAt = 0 /\ aChain'.boundAt # 0
  <2>1. x = [aCtx EXCEPT !.boundAt = aChain'.now, !.migrationBy = charged]
    BY <1>1 DEF Assets!Noted
  <2>2. /\ x.boundAt = aChain'.now /\ x.migrationBy = charged /\ x.hookRoots = aCtx.hookRoots
        /\ Notes(x)
    BY <2>1 DEF Notes
  <2> QED
    BY <1>1, <2>2
<1>2. CASE ~(aChain.boundAt = 0 /\ aChain'.boundAt # 0)
  <2>1. x = aCtx
    BY <1>2 DEF Assets!Noted
  <2>2. aChain'.boundAt = aChain.boundAt
    BY <1>2
  <2> QED
    BY <1>2, <2>1, <2>2
<1> QED
  BY <1>1, <1>2

\* A call as the harness sends it: charged to somebody who could have made it, or spent.
Sent(kind, before, call, roots, prior) ==
    /\ World(before) /\ Frame(aChain, before, {"hook"}) /\ HookMade(before, aCtx.hookRoots)
    /\ IsArmed(before) => IsArmed(aChain)
    /\ Sendable(call) /\ Counts(roots)
    /\ call.kind \in Assets!Egresses => roots = aCtx.migrationBy
    /\ Backed(call, roots) \/ (call.kind \in Assets!NonceBearing /\ Spent(aChain, call))
    /\ prior.ok /\ prior.kind \in Assets!NonceBearing =>
          call.kind \in Assets!NonceBearing /\ Spent(aChain, call)
    /\ kind = "SPEND" => call.kind = "SPEND"
    /\ kind \in {"RELAY_TAMPER", "CROSS_ASSET_REPLAY"} =>
          call.kind = "SPEND" /\ ~(call.covers = <<call.to, call.amount>> /\ call.vault = "this")

LEMMA NothingSettles ==
    ASSUME CampaignSound, NEW before, World(before), Frame(aChain, before, {"hook"}),
           HookMade(before, aCtx.hookRoots), IsArmed(before) => IsArmed(aChain)
    PROVE  /\ Assets!Same(before) = before /\ Sound(before, aCtx) /\ Rising(aChain, before)
<1>1. /\ before.log = aChain.log /\ before.mode = aChain.mode /\ before.poison = aChain.poison
      /\ before.nonces = aChain.nonces /\ before.boundAt = aChain.boundAt
  BY DEF Frame, WorldFields
<1>2. Sound(aChain, aCtx)
  BY DEF CampaignSound
<1>3. before.log = Assets!Quiet
  BY <1>1, <1>2 DEF Sound
<1>4. Assets!Same(before) = before
  BY <1>3 DEF Assets!Same, World, WorldFields
<1>5. Sound(before, aCtx)
  BY <1>1, <1>2, <1>3 DEF Sound, Tame
<1>6. Rising(aChain, before)
  BY <1>1, <1>2, UnspentNonces DEF Sound
<1> QED
  BY <1>4, <1>5, <1>6

LEMMA RefusedTransaction ==
    ASSUME CampaignSound, AssetBindDelay \in Nat,
           NEW kind, NEW before, NEW call, NEW roots, NEW prior,
           Sent(kind, before, call, roots, prior),
           Assets!Transact(kind, before, call, roots, prior), ~Assets!Exec(before, call).ok
    PROVE  Sound(aChain', aCtx') /\ Rising(aChain, aChain') /\ aAlarms' = {}
<1> DEFINE r == Assets!Exec(before, call)
           charged == Assets!ChargedWith(roots, r.w.log)
<1>1. /\ aChain' = Assets!Same(r.w) /\ aCtx' = Assets!Noted(charged)
      /\ aAlarms' = aAlarms \cup Assets!StepAlarms(kind, charged)
           \cup (IF r.ok /\ kind = "SPEND" THEN Assets!SpendAlarms(call, r.w.log) ELSE {})
           \cup (IF r.ok /\ call.kind \in Assets!Egresses
                 THEN Assets!EgressAlarms(call.kind, r.w.log) ELSE {})
           \cup Assets!Violated("P-UNAUTHORISED-INPUT-NEVER-SETTLES",
                                r.ok /\ kind = "RELAY_TAMPER")
           \cup Assets!Violated("P-CROSS-ASSET", r.ok /\ kind = "CROSS_ASSET_REPLAY")
           \cup Assets!Violated("P-NO-REPLAY",
                                r.ok /\ prior.ok /\ prior.kind \in Assets!NonceBearing)
  BY DEF Assets!Transact
<1>2. ~r.ok
  OBVIOUS
<1>3. r.w = before
  <2>1. Proceeds(before, call, r)
    BY CallsProceed DEF Sent, HookMade
  <2> QED
    BY <1>2, <2>1 DEF Proceeds, Refusable
<1> HIDE DEF r
<1>4. /\ Assets!Same(before) = before /\ Sound(before, aCtx) /\ Rising(aChain, before)
  BY NothingSettles DEF Sent
<1>5. aChain' = before
  BY <1>1, <1>3, <1>4
<1>6. Counts(charged)
  <2>1. Counts(roots) /\ Counts(aCtx.hookRoots)
    BY DEF Sent, CampaignSound, Sound
  <2> QED
    BY <2>1, ChargesHold
<1> HIDE DEF charged
<1>7. /\ aChain'.sibling = aChain.sibling /\ aChain'.policy = aChain.policy
      /\ aChain'.boundAt = aChain.boundAt /\ aChain'.safeState = aChain.safeState
      /\ aChain'.asset = aChain.asset /\ aChain'.native = aChain.native
      /\ aChain'.other = aChain.other
  BY <1>5 DEF Sent, Frame, WorldFields
<1>8. aCtx' = aCtx
  BY <1>1, <1>7 DEF Assets!Noted
<1>9. ~Assets!LeftTheVault
  BY <1>7 DEF CampaignSound, Sound, World, Holders, Assets!LeftTheVault
<1>10. Assets!StepAlarms(kind, charged) = {}
  <2>1. Explained(kind, charged)
    BY <1>7, <1>9 DEF Explained
  <2>2. World(aChain') /\ aCtx'.boundAt \in Nat
    BY <1>4, <1>5, <1>8 DEF Sound, World
  <2> QED
    BY <1>6, <1>7, <2>1, <2>2, StepQuiet
<1>11. aAlarms' = {}
  BY <1>1, <1>2, <1>10 DEF CampaignSound, Assets!Violated
<1> QED
  BY <1>4, <1>5, <1>8, <1>11

\* What settled was not refused for what it carries, and is spent.
LEMMA SettledIsFresh ==
    ASSUME CampaignSound, NEW kind, NEW before, NEW call, NEW roots, NEW prior,
           Sent(kind, before, call, roots, prior), Assets!Exec(before, call).ok
    PROVE  /\ CallEffect(before, call, Assets!Exec(before, call).w)
           /\ Spent(Assets!Exec(before, call).w, call) /\ Backed(call, roots)
           /\ ~(prior.ok /\ prior.kind \in Assets!NonceBearing)
           /\ kind \notin {"RELAY_TAMPER", "CROSS_ASSET_REPLAY"}
<1> DEFINE r == Assets!Exec(before, call)
           x == r.w
<1>1. CallEffect(before, call, x)
  <2>1. Proceeds(before, call, r)
    BY CallsProceed DEF Sent, HookMade
  <2> QED
    BY <2>1 DEF Proceeds
<1>2. before.nonces = aChain.nonces /\ World(before)
  BY DEF Sent, Frame, WorldFields
<1>3. kind \notin {"RELAY_TAMPER", "CROSS_ASSET_REPLAY"}
  <2>1. call.kind = "SPEND" => SpendEffect(before, call, x)
    BY SpendGoesThrough DEF Sent, HookMade
  <2>2. call.kind = "SPEND" =>
           call.covers = <<call.to, call.amount>> /\ call.vault = "this"
    BY <2>1 DEF SpendEffect, Assets!MaySpend, Assets!Authorised
  <2> QED
    BY <2>2 DEF Sent
<1> HIDE DEF x
<1>4. ASSUME call.kind \in Assets!NonceBearing
      PROVE  /\ call.nonce = before.nonces[NonceOf(call.kind)] /\ call.nonce \in Nat
             /\ call.nonce < x.nonces[NonceOf(call.kind)]
  <2>1. /\ call.nonce = before.nonces[NonceOf(call.kind)]
        /\ x.nonces[NonceOf(call.kind)] >= call.nonce + 1
    BY <1>1, <1>4 DEF CallEffect
  <2>2. NonceOf(call.kind) \in Authorities
    BY DEF NonceOf, Authorities
  <2>3. call.nonce \in Nat /\ x.nonces[NonceOf(call.kind)] \in Nat
    BY <1>1, <1>2, <2>1, <2>2 DEF World, CallEffect
  <2> QED
    BY <2>1, <2>3
<1>5. ~(call.kind \in Assets!NonceBearing /\ Spent(aChain, call))
  BY <1>2, <1>4 DEF Spent
<1>6. Spent(x, call)
  BY <1>4 DEF Spent
<1>7. Backed(call, roots) /\ ~(prior.ok /\ prior.kind \in Assets!NonceBearing)
  BY <1>5 DEF Sent
<1> QED
  BY <1>1, <1>3, <1>6, <1>7 DEF x

LEMMA SettledTransaction ==
    ASSUME CampaignSound, AssetBindDelay \in Nat,
           NEW kind, NEW before, NEW call, NEW roots, NEW prior,
           Sent(kind, before, call, roots, prior),
           Assets!Transact(kind, before, call, roots, prior), Assets!Exec(before, call).ok
    PROVE  /\ Sound(aChain', aCtx') /\ Rising(aChain, aChain') /\ aAlarms' = {}
           /\ Spent(aChain', call)
<1> DEFINE r == Assets!Exec(before, call)
           x == r.w
           charged == Assets!ChargedWith(roots, x.log)
<1>1. /\ aChain' = Assets!Same(x) /\ aCtx' = Assets!Noted(charged)
      /\ aAlarms' = aAlarms \cup Assets!StepAlarms(kind, charged)
           \cup (IF r.ok /\ kind = "SPEND" THEN Assets!SpendAlarms(call, x.log) ELSE {})
           \cup (IF r.ok /\ call.kind \in Assets!Egresses
                 THEN Assets!EgressAlarms(call.kind, x.log) ELSE {})
           \cup Assets!Violated("P-UNAUTHORISED-INPUT-NEVER-SETTLES",
                                r.ok /\ kind = "RELAY_TAMPER")
           \cup Assets!Violated("P-CROSS-ASSET", r.ok /\ kind = "CROSS_ASSET_REPLAY")
           \cup Assets!Violated("P-NO-REPLAY",
                                r.ok /\ prior.ok /\ prior.kind \in Assets!NonceBearing)
  BY DEF Assets!Transact
<1>2. r.ok
  OBVIOUS
<1>3. /\ CallEffect(before, call, x) /\ Spent(x, call) /\ Backed(call, roots)
      /\ ~(prior.ok /\ prior.kind \in Assets!NonceBearing)
      /\ kind \notin {"RELAY_TAMPER", "CROSS_ASSET_REPLAY"}
  BY SettledIsFresh
<1>4. call.kind = "SPEND" => SpendEffect(before, call, x)
  BY SpendGoesThrough DEF Sent, HookMade
<1>5. call.kind \in Assets!Egresses => Egressed(before, call, x)
  BY EgressProceeds DEF Sent, HookMade
<1>6. Sound(aChain, aCtx)
  BY DEF CampaignSound
<1>7. /\ World(before) /\ HookMade(before, aCtx.hookRoots) /\ Ready(before)
      /\ Frame(aChain, before, {"hook"})
      /\ Counts(roots) /\ Counts(aCtx.hookRoots) /\ Sendable(call)
      /\ call.kind \in Assets!Egresses => roots = aCtx.migrationBy
      /\ kind = "SPEND" => call.kind = "SPEND"
  BY <1>6 DEF Sent, Sound, HookMade
<1>8. /\ before.log = Assets!Quiet /\ before.nonces = aChain.nonces
      /\ before.boundAt = aChain.boundAt /\ before.now = aChain.now
      /\ before.mode = aChain.mode /\ before.poison = aChain.poison
      /\ before.policy = aChain.policy /\ before.safeState = aChain.safeState
      /\ before.asset = aChain.asset /\ before.native = aChain.native
      /\ before.other = aChain.other /\ before.sibling = aChain.sibling
  BY <1>6, <1>7 DEF Frame, WorldFields, Sound
<1>9. call.kind \in Assets!Egresses /\ before.boundAt # 0 => roots.credential >= 1
  BY <1>6, <1>7, <1>8 DEF Sound
<1> HIDE DEF r, x
<1>10. /\ Counts(charged)
       /\ Leaves(before, x) \/ x.policy # before.policy => charged.credential >= 1
       /\ x.boundAt # before.boundAt =>
             /\ before.boundAt = 0 /\ x.boundAt = before.now
             /\ charged.credential >= 1 /\ charged.guardians >= 2
       /\ before.safeState # "CONTAINED" /\ x.safeState = "CONTAINED" =>
             charged.guardians >= 2
  BY <1>3, <1>7, <1>9, ChargedEnough
<1> HIDE DEF charged
<1>11. /\ World(x) /\ Frame(before, x, CallFields) /\ Rising(before, x)
       /\ x.hook = before.hook \/ ~IsArmed(x)
       /\ before.mode \in Exact => x.poison = before.poison
       /\ Leaves(before, x) =>
             \/ call.kind = "SPEND" /\ Assets!MaySpend(before, call)
             \/ call.kind \in Assets!Egresses /\ Assets!Matured(before)
  BY <1>3 DEF CallEffect
<1>12. World(aChain') /\ Frame(x, aChain', {"log"}) /\ aChain'.log = Assets!Quiet
  BY <1>1, <1>11, KeptAsSame DEF Assets!Same, World, WorldFields
<1>13. /\ x.now = before.now /\ x.mode = before.mode /\ x.sibling = before.sibling
  BY <1>11 DEF Frame, CallFields, NestedFields, WorldFields
<1>14. /\ aChain'.asset = x.asset /\ aChain'.native = x.native /\ aChain'.other = x.other
       /\ aChain'.policy = x.policy /\ aChain'.boundAt = x.boundAt /\ aChain'.now = x.now
       /\ aChain'.safeState = x.safeState /\ aChain'.sibling = x.sibling
       /\ aChain'.nonces = x.nonces /\ aChain'.mode = x.mode /\ aChain'.hook = x.hook
       /\ aChain'.poison = x.poison
  BY <1>12 DEF Frame, WorldFields
<1>15. Rising(aChain, aChain')
  BY <1>8, <1>11, <1>14 DEF Rising
<1>16. HookMade(aChain', aCtx.hookRoots)
  <2>1. /\ Rising(before, aChain') /\ aChain'.mode = before.mode
        /\ aChain'.hook = before.hook \/ ~IsArmed(aChain')
        /\ before.mode \in Exact => aChain'.poison = before.poison
    BY <1>11, <1>13, <1>14 DEF Rising, IsArmed
  <2> QED
    BY <1>7, <1>12, <2>1, HookMadeKept
<1>17. /\ Notes(aCtx') /\ Counts(aCtx'.hookRoots) /\ Counts(aCtx'.migrationBy)
       /\ aCtx'.boundAt = aChain'.boundAt /\ aCtx'.hookRoots = aCtx.hookRoots
       /\ aChain'.boundAt # 0 =>
             aCtx'.migrationBy.credential >= 1 /\ aCtx'.migrationBy.guardians >= 2
       /\ aChain.boundAt # 0 => aCtx'.boundAt = aChain.boundAt
  <2>1. aChain'.now = aChain.now
    BY <1>8, <1>13, <1>14
  <2>2. aChain'.boundAt # aChain.boundAt =>
           /\ aChain.boundAt = 0 /\ aChain'.boundAt = aChain.now
           /\ charged.credential >= 1 /\ charged.guardians >= 2
    BY <1>8, <1>10, <1>14
  <2> QED
    BY <1>1, <1>6, <1>10, <1>12, <2>1, <2>2, NotedFollows DEF Sound
<1>18. Sound(aChain', aCtx')
  <2>1. /\ aProfile.hooks = {} => ~IsArmed(aChain')
        /\ aProfile.hooks # {} => Tame(aChain')
    <3>1. IsArmed(aChain') => IsArmed(aChain)
      BY <1>11, <1>14 DEF Sent, IsArmed
    <3>2. Tame(aChain) => Tame(aChain')
      BY <1>8, <1>11, <1>13, <1>14 DEF Tame
    <3> QED
      BY <1>6, <3>1, <3>2 DEF Sound
  <2> QED
    BY <1>6, <1>12, <1>16, <1>17, <2>1 DEF Sound
<1>19. Explained(kind, charged)
  <2>1. Assets!LeftTheVault = Leaves(before, x)
    BY <1>8, <1>14 DEF Assets!LeftTheVault, Leaves
  <2>2. ASSUME Leaves(before, x), aChain.boundAt # 0
        PROVE  aChain'.now >= aCtx'.boundAt + AssetBindDelay
    <3>1. ~Assets!MaySpend(before, call)
      BY <1>7, <1>8, <2>2, BoundNeverSpends
    <3>2. Assets!Matured(before)
      BY <1>11, <2>2, <3>1
    <3>3. before.now >= before.boundAt + AssetBindDelay
      BY <3>2 DEF Assets!Matured
    <3> QED
      BY <1>8, <1>13, <1>14, <1>17, <2>2, <3>3
  <2> QED
    BY <1>8, <1>10, <1>14, <2>1, <2>2 DEF Explained
<1>20. Assets!StepAlarms(kind, charged) = {}
  <2>1. aCtx'.boundAt \in Nat /\ aChain'.sibling = aChain.sibling
    BY <1>8, <1>12, <1>13, <1>14, <1>17 DEF World
  <2> QED
    BY <1>10, <1>12, <1>19, <2>1, StepQuiet
<1>21. kind = "SPEND" => Assets!SpendAlarms(call, x.log) = {}
  <2>1. before.log.fired = "none" /\ World(aChain)
    BY <1>6, <1>8 DEF Assets!Quiet, Assets!None, Sound
  <2> QED
    BY <1>4, <1>7, <1>12, <2>1, SpendQuiet
<1>22. call.kind \in Assets!Egresses => Assets!EgressAlarms(call.kind, x.log) = {}
  <2>1. before.log.published = 0 /\ World(aChain)
    BY <1>6, <1>8 DEF Assets!Quiet, Sound
  <2> QED
    BY <1>5, <1>7, <1>11, <1>12, <2>1, EgressQuiet
<1>23. aAlarms' = {}
  BY <1>1, <1>3, <1>20, <1>21, <1>22 DEF CampaignSound, Assets!Violated
<1>24. Spent(aChain', call)
  BY <1>3, <1>14 DEF Spent
<1> QED
  BY <1>15, <1>18, <1>23, <1>24

LEMMA TransactionSound ==
    ASSUME CampaignSound, AssetBindDelay \in Nat,
           NEW kind, NEW before, NEW call, NEW roots, NEW prior,
           Sent(kind, before, call, roots, prior),
           Assets!Transact(kind, before, call, roots, prior)
    PROVE  /\ Sound(aChain', aCtx') /\ Rising(aChain, aChain') /\ aAlarms' = {}
           /\ Assets!Exec(before, call).ok => Spent(aChain', call)
           /\ aProfile' = aProfile /\ "outward" \notin aUnserial'
<1>1. /\ aProfile' = aProfile
      /\ aUnserial' = aUnserial
           \cup Assets!Unserial(before, call, Assets!Exec(before, call))
  BY DEF Assets!Transact
<1>2. World(before) /\ Ready(before) /\ before.log.fired = "none" /\ Sendable(call)
  <2>1. before.log = Assets!Quiet
    BY DEF Sent, CampaignSound, Sound, Frame, WorldFields
  <2> QED
    BY <2>1 DEF Sent, HookMade, Assets!Quiet, Assets!None
<1>3. "outward" \notin aUnserial'
  BY <1>1, <1>2, SerialOutside DEF CampaignSound
<1> QED
  BY <1>1, <1>3, RefusedTransaction, SettledTransaction

LEMMA SoundOnward ==
    ASSUME Sound(aChain', aCtx'), aProfile' = aProfile
    PROVE  Sound(aChain, aCtx)'
BY DEF Sound

LEMMA RememberedOnward ==
    ASSUME NEW w, World(w), NEW x, World(x), Rising(w, x), NEW old, Remembered(w, old)
    PROVE  Remembered(x, old)
<1>1. ASSUME Spent(w, old.call)
      PROVE  Spent(x, old.call)
  <2>1. NonceOf(old.call.kind) \in Authorities
    BY DEF NonceOf, Authorities
  <2>2. /\ w.nonces[NonceOf(old.call.kind)] \in Nat /\ x.nonces[NonceOf(old.call.kind)] \in Nat
        /\ x.nonces[NonceOf(old.call.kind)] >= w.nonces[NonceOf(old.call.kind)]
    BY <2>1 DEF World, Rising
  <2> QED
    BY <1>1, <2>2 DEF Spent
<1> QED
  BY <1>1 DEF Remembered

LEMMA ActorsCounted ==
    ASSUME NEW actor
    PROVE  Counts(Assets!rootsNow(actor))
BY DEF Counts, Assets!rootsNow, Assets!Model!NoRoots

LEMMA AttemptSound ==
    ASSUME CampaignSound, AssetBindDelay \in Nat,
           NEW kind, NEW actor, NEW before, NEW call, NEW roots,
           Sent(kind, before, call, roots, Assets!NotReplayed),
           Backed(call, Assets!rootsNow(actor)),
           kind \in Assets!NonceBearing => call.kind = kind,
           Assets!Attempt(kind, actor, before, call, roots)
    PROVE  CampaignSound'
<1> DEFINE kept(ok) == [kind |-> kind, call |-> call, roots |-> Assets!rootsNow(actor), ok |-> ok]
<1>1. /\ Sound(aChain', aCtx') /\ Rising(aChain, aChain') /\ aAlarms' = {}
      /\ Assets!Exec(before, call).ok => Spent(aChain', call)
      /\ aProfile' = aProfile /\ "outward" \notin aUnserial'
  BY TransactionSound DEF Assets!Attempt
<1>2. \/ aHistory' = aHistory
      \/ aHistory' = aHistory \cup {kept(Assets!Exec(before, call).ok)}
  BY DEF Assets!Attempt
<1>3. World(aChain) /\ World(aChain')
  BY <1>1 DEF CampaignSound, Sound
<1>4. \A old \in aHistory : Remembered(aChain', old)
  BY <1>1, <1>3, RememberedOnward DEF CampaignSound
<1>5. Remembered(aChain', kept(Assets!Exec(before, call).ok))
  <2> DEFINE ok == Assets!Exec(before, call).ok
             old == kept(ok)
  <2>1. Sendable(call) /\ Counts(Assets!rootsNow(actor)) /\ (ok => Spent(aChain', call))
    BY <1>1, ActorsCounted DEF Sent
  <2> HIDE DEF ok
  <2>2. /\ old.kind = kind /\ old.call = call /\ old.roots = Assets!rootsNow(actor)
        /\ old.ok = ok
    OBVIOUS
  <2> HIDE DEF old
  <2>3. Remembered(aChain', old)
    BY <2>1, <2>2 DEF Remembered
  <2> QED
    BY <2>3 DEF old, ok
<1>6. \A old \in aHistory' : Remembered(aChain', old)
  <2> HIDE DEF kept
  <2> QED
    BY <1>2, <1>4, <1>5
<1>7. Sound(aChain, aCtx)'
  BY <1>1, SoundOnward
<1> QED
  BY <1>1, <1>6, <1>7 DEF CampaignSound

-----------------------------------------------------------------------------
(* The actions                                                              *)

LEMMA Present ==
    ASSUME CampaignSound
    PROVE  /\ World(aChain) /\ Frame(aChain, aChain, {"hook"})
           /\ HookMade(aChain, aCtx.hookRoots) /\ Counts(aCtx.migrationBy)
           /\ aChain.nonces.spend \in Nat /\ aChain.asset.vault \in Nat
<1>1. World(aChain) /\ HookMade(aChain, aCtx.hookRoots) /\ Counts(aCtx.migrationBy)
  BY DEF CampaignSound, Sound
<1> QED
  BY <1>1 DEF World, Frame, Authorities, Holders

\* The spend that its own token will replay.
LEMMA ArmedSound ==
    ASSUME CampaignSound, NEW call, Sendable(call), call.kind = "SPEND",
           call.nonce = aChain.nonces.spend
    PROVE  LET v == Assets!ArmedFor(call) IN
           /\ World(v) /\ Frame(aChain, v, {"hook"}) /\ HookMade(v, aCtx.hookRoots)
           /\ IsArmed(v) => IsArmed(aChain)
<1> DEFINE h == [aChain.hook EXCEPT !.call = call]
           v == [aChain EXCEPT !.hook = h]
           r == Assets!ArmedFor(call)
<1>1. /\ World(aChain) /\ Frame(aChain, aChain, {"hook"})
      /\ HookMade(aChain, aCtx.hookRoots) /\ aChain.nonces["spend"] \in Nat
  BY Present
<1>2. World(r)
  BY <1>1, ArmedKeeps
<1>3. IF aChain.hook.kind = "replaySpend" THEN r = v ELSE r = aChain
  BY DEF Assets!ArmedFor
<1> HIDE DEF r
<1>4. CASE r = aChain
  <2>1. World(r) /\ Frame(aChain, r, {"hook"}) /\ HookMade(r, aCtx.hookRoots)
    BY <1>1, <1>4
  <2> QED
    BY <1>4, <2>1 DEF r
<1>5. CASE r = v /\ aChain.hook.kind = "replaySpend"
  <2>1. /\ Frame(aChain, v, {"hook"}) /\ v.hook = h /\ v.mode = aChain.mode
        /\ v.poison = aChain.poison /\ v.nonces = aChain.nonces
    BY <1>1 DEF World, Frame, WorldFields
  <2>2. h.kind = "replaySpend" /\ (h.call = call \/ h.call = aChain.hook.call)
    BY <1>5
  <2>3. IsArmed(aChain)
    BY <1>5 DEF IsArmed
  <2>4. /\ Tame(aChain) /\ HookCallOf(aChain.hook.kind, aChain.hook.call)
        /\ aChain.hook.call.nonce \in Nat
        /\ aChain.hook.call.nonce <= aChain.nonces["spend"]
    BY <1>1, <1>5, <2>3 DEF HookMade, Ready
  <2> HIDE DEF h, v
  <2>5. HookCallOf(h.kind, h.call)
    BY <1>5, <2>2, <2>4 DEF HookCallOf, Hooks
  <2>6. h.call.nonce \in Nat /\ h.call.nonce <= aChain.nonces["spend"]
    BY <1>1, <2>2, <2>4
  <2>7. HookMade(v, aCtx.hookRoots)
    BY <2>1, <2>2, <2>4, <2>5, <2>6 DEF HookMade, Ready, Tame
  <2> QED
    BY <1>2, <1>5, <2>1, <2>3, <2>7 DEF r
<1> QED
  BY <1>3, <1>4, <1>5

LEMMA OwnCallSound ==
    ASSUME CampaignSound, AssetBindDelay \in Nat, NEW kind, NEW actor, NEW call,
           Sendable(call), Backed(call, Assets!rootsNow(actor)), OwnCall(kind, call),
           Assets!Attempt(kind, actor, aChain, call, Assets!rootsNow(actor))
    PROVE  CampaignSound'
<1>1. /\ World(aChain) /\ Frame(aChain, aChain, {"hook"}) /\ HookMade(aChain, aCtx.hookRoots)
  BY Present
<1>2. call.kind \notin Assets!Egresses
  BY DEF OwnCall, Assets!NonceBearing, Assets!Egresses
<1>3. ~Assets!NotReplayed.ok
  BY DEF Assets!NotReplayed
<1>4. /\ kind = "SPEND" => call.kind = "SPEND"
      /\ kind \in {"RELAY_TAMPER", "CROSS_ASSET_REPLAY"} =>
            call.kind = "SPEND" /\ ~(call.covers = <<call.to, call.amount>> /\ call.vault = "this")
      /\ kind \in Assets!NonceBearing => call.kind = kind
  BY DEF OwnCall, Assets!NonceBearing
<1>5. Sent(kind, aChain, call, Assets!rootsNow(actor), Assets!NotReplayed)
  BY <1>1, <1>2, <1>3, <1>4, ActorsCounted DEF Sent
<1> QED
  BY <1>4, <1>5, AttemptSound

\* What anybody may finish is charged to those who bound it.
LEMMA FinishSound ==
    ASSUME CampaignSound, AssetBindDelay \in Nat, NEW actor, NEW call,
           call.kind \in Assets!Egresses \cup {"RETIRE"},
           Assets!Attempt(call.kind, actor, aChain, call, aCtx.migrationBy)
    PROVE  CampaignSound'
<1>1. /\ World(aChain) /\ Frame(aChain, aChain, {"hook"}) /\ HookMade(aChain, aCtx.hookRoots)
      /\ Counts(aCtx.migrationBy)
  BY Present
<1>2. /\ call.kind \notin {"SPEND", "SET_POLICY", "ENTER_CONTAINMENT", "BIND_MIGRATION"}
      /\ call.kind \notin {"RELAY_TAMPER", "CROSS_ASSET_REPLAY"}
      /\ call.kind \notin Assets!NonceBearing
  BY DEF Assets!Egresses, Assets!NonceBearing
<1>3. ~Assets!NotReplayed.ok
  BY DEF Assets!NotReplayed
<1>4. /\ Sendable(call) /\ Backed(call, aCtx.migrationBy)
      /\ Backed(call, Assets!rootsNow(actor))
  BY <1>2 DEF Sendable, Backed
<1>5. Sent(call.kind, aChain, call, aCtx.migrationBy, Assets!NotReplayed)
  BY <1>1, <1>2, <1>3, <1>4 DEF Sent
<1> QED
  BY <1>2, <1>4, <1>5, AttemptSound

LEMMA CallActionsSound ==
    ASSUME CampaignSound, AssetBindDelay \in Nat,
           NEW actor, NEW kind, NEW before, NEW call, NEW roots,
           Makes(actor, kind, before, call, roots)
    PROVE  CampaignSound'
<1>1. /\ Sendable(call) /\ Backed(call, Assets!rootsNow(actor))
      /\ Assets!Attempt(kind, actor, before, call, roots)
  BY DEF Makes
<1>2. CASE /\ kind = "SPEND" /\ call.kind = "SPEND" /\ call.nonce = aChain.nonces.spend
           /\ before = Assets!ArmedFor(call) /\ roots = Assets!rootsNow(actor)
  <2>1. /\ World(before) /\ Frame(aChain, before, {"hook"})
        /\ HookMade(before, aCtx.hookRoots) /\ (IsArmed(before) => IsArmed(aChain))
    BY <1>1, <1>2, ArmedSound
  <2>2. ~Assets!NotReplayed.ok /\ call.kind \notin Assets!Egresses
    BY <1>2 DEF Assets!NotReplayed, Assets!Egresses
  <2>3. Sent("SPEND", before, call, roots, Assets!NotReplayed)
    BY <1>1, <1>2, <2>1, <2>2, ActorsCounted DEF Sent
  <2> QED
    BY <1>1, <1>2, <2>3, AttemptSound
<1>3. CASE before = aChain /\ roots = Assets!rootsNow(actor) /\ OwnCall(kind, call)
  BY <1>1, <1>3, OwnCallSound
<1>4. CASE /\ before = aChain /\ roots = aCtx.migrationBy
           /\ kind = call.kind /\ call.kind \in Assets!Egresses \cup {"RETIRE"}
  BY <1>1, <1>4, FinishSound
<1> QED
  BY <1>2, <1>3, <1>4 DEF Makes

\* A signature for the vault of the other asset is not accepted there either.
LEMMA SiblingRefuses ==
    ASSUME NEW actor, NEW to, NEW amount, NEW nonce
    PROVE  ~Assets!SiblingAccepts(Assets!SpendCall(actor, to, amount, nonce))
<1> DEFINE call == Assets!SpendCall(actor, to, amount, nonce)
           moved == [call EXCEPT !.vault = IF call.vault = "sibling" THEN "this" ELSE "sibling"]
<1>1. moved.vault = "sibling"
  BY DEF Assets!SpendCall
<1> HIDE DEF moved
<1>2. \A w : ~Assets!Authorised(w, moved)
  BY <1>1 DEF Assets!Authorised
<1> QED
  BY <1>2 DEF Assets!SiblingAccepts, moved

\* Nothing but the hook and who armed it, or nothing at all.
LEMMA IdleStep ==
    ASSUME CampaignSound, NEW x, Sound(x, aCtx'), x = aChain', aHistory' = aHistory,
           aProfile' = aProfile, aAlarms' = aAlarms, aUnserial' = aUnserial,
           x.nonces = aChain.nonces
    PROVE  CampaignSound'
<1>1. Rising(aChain, x) /\ World(aChain) /\ World(x)
  BY UnspentNonces DEF CampaignSound, Sound
<1>2. \A old \in aHistory : Remembered(x, old)
  BY <1>1, RememberedOnward DEF CampaignSound
<1>3. Sound(aChain, aCtx)'
  BY SoundOnward
<1> QED
  BY <1>2, <1>3 DEF CampaignSound

LEMMA CrossingSound ==
    ASSUME CampaignSound, AssetBindDelay \in Nat, NEW actor, Assets!CROSS_ASSET_REPLAY(actor)
    PROVE  CampaignSound'
<1> DEFINE call == Assets!SpendCall("honest", "recipient", 1, aChain.nonces.spend)
           a == [call EXCEPT !.vault = "sibling"]
<1>0. aChain.nonces.spend \in Nat /\ 1 \in Nat /\ World(aChain)
  BY Present
<1>1. ~Assets!SiblingAccepts(call)
  BY SiblingRefuses
<1>2. \/ /\ aChain' = aChain
         /\ aAlarms' = aAlarms
              \cup Assets!StepAlarms("CROSS_ASSET_REPLAY", Assets!Model!NoRoots)
              \cup Assets!Violated("P-CROSS-ASSET", Assets!SiblingAccepts(call))
         /\ aProfile' = aProfile /\ aCtx' = aCtx /\ aHistory' = aHistory
         /\ aUnserial' = aUnserial
      \/ Assets!Attempt("CROSS_ASSET_REPLAY", actor, aChain, a, Assets!rootsNow(actor))
  BY <1>1 DEF Assets!CROSS_ASSET_REPLAY
<1>3. Sendable(a) /\ a.kind = "SPEND" /\ a.vault = "sibling"
  BY <1>0 DEF Sendable, Assets!SpendCall
<1> HIDE DEF a, call
<1>4. CASE Assets!Attempt("CROSS_ASSET_REPLAY", actor, aChain, a, Assets!rootsNow(actor))
  <2>1. Backed(a, Assets!rootsNow(actor))
    BY <1>3 DEF Backed
  <2> QED
    BY <1>3, <1>4, <2>1, OwnCallSound DEF OwnCall
<1>5. CASE /\ aChain' = aChain
           /\ aAlarms' = aAlarms
                \cup Assets!StepAlarms("CROSS_ASSET_REPLAY", Assets!Model!NoRoots)
                \cup Assets!Violated("P-CROSS-ASSET", Assets!SiblingAccepts(call))
           /\ aProfile' = aProfile /\ aCtx' = aCtx /\ aHistory' = aHistory
           /\ aUnserial' = aUnserial
  <2>1. Sound(aChain, aCtx)
    BY DEF CampaignSound
  <2>2. ~Assets!LeftTheVault
    BY <1>0, <1>5 DEF World, Holders, Assets!LeftTheVault
  <2>3. Explained("CROSS_ASSET_REPLAY", Assets!Model!NoRoots)
    BY <1>5, <2>2 DEF Explained
  <2>4. Counts(Assets!Model!NoRoots) /\ aCtx'.boundAt \in Nat
    BY <1>0, <1>5, <2>1 DEF Counts, Assets!Model!NoRoots, Sound, World
  <2>5. Assets!StepAlarms("CROSS_ASSET_REPLAY", Assets!Model!NoRoots) = {}
    BY <1>0, <1>5, <2>3, <2>4, StepQuiet
  <2>6. aAlarms' = aAlarms
    BY <1>1, <1>5, <2>5 DEF Assets!Violated
  <2> QED
    BY <1>5, <2>1, <2>6, IdleStep
<1> QED
  BY <1>2, <1>4, <1>5

\* A hook is of its kind, made of what its armer has.
LEMMA HookCallMade ==
    ASSUME NEW actor, NEW kind, World(aChain)
    PROVE  LET call == Assets!HookCall(actor, kind) IN
           /\ Sendable(call) /\ HookCallOf(kind, call)
           /\ kind = "replaySpend" => call.nonce = aChain.nonces.spend
           /\ Backed(call, Assets!rootsNow(actor))
<1> DEFINE roots == Assets!rootsNow(actor)
           n == aChain.nonces.spend
           a == Assets!SpendCall(actor, "recipient", 1, n)
           b == Assets!SpendCall(actor, "recipient", 1, n + 1)
           c == Assets!ContainCall(actor)
           d == Assets!BindCall(actor, "bound")
           call == Assets!HookCall(actor, kind)
<1>1. Backed(a, roots) /\ Backed(b, roots) /\ Backed(c, roots) /\ Backed(d, roots)
  BY SpendBacked, ContainBacked, BindBacked
<1>2. /\ a.kind = "SPEND" /\ a.nonce = n /\ b.kind = "SPEND"
      /\ c.kind = "ENTER_CONTAINMENT" /\ d.kind = "BIND_MIGRATION"
  BY DEF Assets!SpendCall, Assets!ContainCall, Assets!BindCall
<1>3. Sendable(call)
  BY HookCallsSent
<1> HIDE DEF roots, a, b, c, d
<1>4. /\ kind = "readNonce" => call.kind = "NONCES"
      /\ kind = "replaySpend" => call = a
      /\ kind = "secondValidSpend" => call = b
      /\ kind = "egress" => call.kind = "EGRESS_TOKEN"
      /\ kind = "contain" => call = c
      /\ kind = "bindMigration" => call = d
      /\ kind \notin {"readNonce", "replaySpend", "secondValidSpend", "egress", "contain",
                      "bindMigration"} => call.kind = "RETIRE"
  BY DEF Assets!HookCall, a, b, c, d
<1> HIDE DEF call, n
<1>5. HookCallOf(kind, call)
  BY <1>2, <1>4 DEF HookCallOf, Hooks
<1>6. kind = "replaySpend" => call.nonce = n
  BY <1>2, <1>4
<1>7. Backed(call, roots)
  <2>1. call.kind \in {"NONCES", "EGRESS_TOKEN", "RETIRE"} => Backed(call, roots)
    BY DEF Backed
  <2> QED
    BY <1>1, <1>4, <2>1
<1> QED
  BY <1>3, <1>5, <1>6, <1>7 DEF call, roots, n

LEMMA ArmingSound ==
    ASSUME CampaignSound, NEW actor, Assets!ARM_HOOK(actor)
    PROVE  CampaignSound'
<1>1. PICK kind \in aProfile.hooks, after \in BOOLEAN :
          aChain' = [aChain EXCEPT !.hook = [kind |-> kind, call |-> Assets!HookCall(actor, kind),
                                             after |-> after]]
  BY DEF Assets!ARM_HOOK
<1>2. /\ aCtx' = [aCtx EXCEPT !.hookRoots = Assets!rootsNow(actor)]
      /\ aHistory' = aHistory /\ aProfile' = aProfile /\ aAlarms' = aAlarms
      /\ aUnserial' = aUnserial
  BY DEF Assets!ARM_HOOK
<1> DEFINE call == Assets!HookCall(actor, kind)
           h == [kind |-> kind, call |-> call, after |-> after]
           v == [aChain EXCEPT !.hook = h]
           roots == Assets!rootsNow(actor)
<1>3. /\ World(aChain) /\ aChain.nonces["spend"] \in Nat
  BY Present
<1>4. /\ Sendable(call) /\ HookCallOf(kind, call)
      /\ (kind = "replaySpend" => call.nonce = aChain.nonces["spend"]) /\ Backed(call, roots)
  BY <1>3, HookCallMade
<1>5. Counts(roots)
  BY ActorsCounted
<1> HIDE DEF call, roots
<1>6. h.kind = kind /\ h.call = call
  OBVIOUS
<1> HIDE DEF h
<1>7. Frame(aChain, v, {"hook"}) /\ v.hook = h
  BY <1>3 DEF World, Frame, WorldFields
<1>8. aChain' = v
  BY <1>1 DEF v, h, call
<1> HIDE DEF v
<1>9. World(v)
  BY <1>3, <1>4, <1>6, <1>7 DEF World, Frame, WorldFields
<1>10. /\ v.mode = aChain.mode /\ v.poison = aChain.poison /\ v.nonces = aChain.nonces
       /\ v.log = aChain.log /\ v.boundAt = aChain.boundAt
  BY <1>7 DEF Frame, WorldFields
<1>11. Sound(aChain, aCtx) /\ aProfile.hooks # {}
  BY DEF CampaignSound
<1>12. Tame(v)
  BY <1>10, <1>11 DEF Sound, Tame
<1>13. HookMade(v, roots)
  <2>1. kind = "replaySpend" =>
           call.nonce \in Nat /\ call.nonce <= aChain.nonces["spend"]
    BY <1>3, <1>4
  <2> QED
    BY <1>4, <1>6, <1>7, <1>10, <1>12, <2>1 DEF HookMade, Ready, IsArmed
<1>14. /\ Notes(aCtx') /\ aCtx'.hookRoots = roots /\ aCtx'.boundAt = aCtx.boundAt
       /\ aCtx'.migrationBy = aCtx.migrationBy
  <2>1. Notes(aCtx) /\ aCtx' = [aCtx EXCEPT !.hookRoots = roots]
    BY <1>2, <1>11 DEF Sound, roots
  <2> QED
    BY <2>1 DEF Notes
<1>15. Sound(v, aCtx')
  BY <1>5, <1>9, <1>10, <1>11, <1>12, <1>13, <1>14 DEF Sound
<1> QED
  BY <1>2, <1>8, <1>10, <1>15, IdleStep

\* What is sent again is spent, or of those who first sent it, or anybody's to finish.
LEMMA ReplaySound ==
    ASSUME CampaignSound, AssetBindDelay \in Nat, NEW actor, Assets!REPLAY_PAST_CALL(actor)
    PROVE  CampaignSound'
<1>1. PICK old \in aHistory :
          Assets!Transact("REPLAY_PAST_CALL", aChain, old.call,
                          Assets!ReplayAttribution(actor, old),
                          [kind |-> old.kind, ok |-> old.ok])
  BY DEF Assets!REPLAY_PAST_CALL
<1> DEFINE call == old.call
           roots == Assets!ReplayAttribution(actor, old)
           prior == [kind |-> old.kind, ok |-> old.ok]
<1>2. /\ World(aChain) /\ Frame(aChain, aChain, {"hook"}) /\ HookMade(aChain, aCtx.hookRoots)
      /\ Counts(aCtx.migrationBy)
  BY Present
<1>3. Remembered(aChain, old)
  BY DEF CampaignSound
<1>4. prior.kind = old.kind /\ prior.ok = old.ok
  OBVIOUS
<1>5. /\ call.kind \in Assets!Egresses \cup {"RETIRE"} => roots = aCtx.migrationBy
      /\ call.kind \notin Assets!Egresses \cup {"RETIRE"} =>
            roots = IF old.ok THEN Assets!rootsNow(actor) ELSE old.roots
  BY DEF Assets!ReplayAttribution
<1>6. Assets!Transact("REPLAY_PAST_CALL", aChain, call, roots, prior)
  BY <1>1
<1> HIDE DEF roots, prior
<1>7. Counts(roots)
  BY <1>2, <1>3, <1>5, ActorsCounted DEF Remembered
<1>8. Backed(call, roots) \/ (call.kind \in Assets!NonceBearing /\ Spent(aChain, call))
  <2>1. call.kind \notin Assets!NonceBearing => Backed(call, roots)
    BY DEF Backed, Assets!NonceBearing
  <2>2. call.kind \in Assets!NonceBearing => call.kind \notin Assets!Egresses \cup {"RETIRE"}
    BY DEF Assets!NonceBearing, Assets!Egresses
  <2>3. CASE old.ok
    BY <1>3, <2>1, <2>3 DEF Remembered
  <2>4. CASE ~old.ok
    BY <1>3, <1>5, <2>1, <2>2, <2>4 DEF Remembered
  <2> QED
    BY <2>3, <2>4
<1>9. prior.ok /\ prior.kind \in Assets!NonceBearing =>
         call.kind \in Assets!NonceBearing /\ Spent(aChain, call)
  BY <1>3, <1>4 DEF Remembered
<1>10. Sent("REPLAY_PAST_CALL", aChain, call, roots, prior)
  BY <1>2, <1>3, <1>5, <1>7, <1>8, <1>9 DEF Sent, Remembered
<1>11. /\ Sound(aChain', aCtx') /\ Rising(aChain, aChain') /\ aAlarms' = {}
       /\ aProfile' = aProfile /\ "outward" \notin aUnserial'
  BY <1>6, <1>10, TransactionSound
<1>12. aHistory' = aHistory
  BY DEF Assets!REPLAY_PAST_CALL
<1>13. World(aChain')
  BY <1>11 DEF Sound
<1>14. \A past \in aHistory' : Remembered(aChain', past)
  BY <1>2, <1>11, <1>12, <1>13, RememberedOnward DEF CampaignSound
<1>15. Sound(aChain, aCtx)'
  BY <1>11, SoundOnward
<1> QED
  BY <1>11, <1>14, <1>15 DEF CampaignSound

LEMMA LeverSound ==
    ASSUME CampaignSound, NEW kind, NEW v, Pulls(kind, v)
    PROVE  CampaignSound'
<1>1. /\ aChain' = v /\ aCtx' = aCtx /\ aHistory' = aHistory /\ aProfile' = aProfile
      /\ aUnserial' = aUnserial
      /\ aAlarms' = aAlarms \cup Assets!StepAlarms(kind, Assets!Model!NoRoots)
  BY DEF Pulls, Assets!Lever
<1>2. /\ v.hook = aChain.hook /\ v.nonces = aChain.nonces /\ v.log = aChain.log
      /\ v.boundAt = aChain.boundAt /\ v.policy = aChain.policy
      /\ v.safeState = aChain.safeState /\ v.sibling = aChain.sibling
  BY DEF Pulls, Frame, WorldFields, LeverFields
<1>3. Sound(aChain, aCtx) /\ World(v) /\ aProfile \in AssetProfiles
  BY DEF CampaignSound, Pulls, Sound
<1>4. aProfile.hooks # {} => Tame(v)
  BY <1>3, AssetsAssumption DEF Pulls, Sound, Tame, Exact
<1>5. HookMade(v, aCtx.hookRoots)
  BY <1>2, <1>3, <1>4 DEF Sound, HookMade, Ready, IsArmed
<1>6. Sound(v, aCtx')
  BY <1>1, <1>2, <1>3, <1>4, <1>5 DEF Sound, IsArmed
<1>7. Explained(kind, Assets!Model!NoRoots)
  <2>1. Assets!LeftTheVault => Leaves(aChain, v)
    BY <1>1 DEF Assets!LeftTheVault, Leaves
  <2> QED
    BY <1>1, <1>2, <2>1 DEF Explained, Pulls
<1>8. /\ Counts(Assets!Model!NoRoots) /\ aCtx'.boundAt \in Nat /\ AssetBindDelay \in Nat
  BY <1>1, <1>3, AssetsAssumption DEF Counts, Assets!Model!NoRoots, Sound, World
<1>9. Assets!StepAlarms(kind, Assets!Model!NoRoots) = {}
  BY <1>1, <1>2, <1>3, <1>7, <1>8, StepQuiet
<1> QED
  BY <1>1, <1>2, <1>6, <1>9, IdleStep

LEMMA GenesisSound ==
    ASSUME Init
    PROVE  CampaignSound
<1> DEFINE w == Assets!deployGen2World
           x == Assets!freshCtx
<1>1. /\ aChain = w /\ aCtx = x /\ aHistory = {} /\ aAlarms = {} /\ aUnserial = {}
      /\ aProfile \in AssetProfiles
  BY DEF Init, Assets!Init
<1>2. /\ World(w) /\ w.boundAt = 0 /\ w.mode = "VANILLA" /\ w.poison.kind = "none"
      /\ w.log = Assets!Quiet /\ w.hook = Assets!NoHook
  BY GenesisWorld DEF Assets!deployGen2World, Assets!None
<1>3. Notes(x) /\ Counts(x.hookRoots) /\ Counts(x.migrationBy) /\ x.boundAt = 0
  BY DEF Assets!freshCtx, Notes, Counts, Assets!Model!NoRoots
<1> HIDE DEF w, x
<1>4. ~IsArmed(w) /\ Tame(w)
  BY <1>2 DEF IsArmed, Tame, Exact, Assets!NoHook, Assets!None
<1>5. HookMade(w, x.hookRoots)
  BY <1>4 DEF HookMade, Ready
<1>6. Sound(aChain, aCtx)
  BY <1>1, <1>2, <1>3, <1>4, <1>5 DEF Sound
<1> QED
  BY <1>1, <1>6 DEF CampaignSound

\* The inductive invariant of the campaign of generation 2: what the harness keeps is what
\* the chain says, and what its calls and hooks carry is of those whom it charges
\* (attempt and StepContext, generation-2/stateful/actions.ts).
THEOREM AssetCampaignSound == Spec => []CampaignSound
<1>1. Init => CampaignSound
  BY GenesisSound
<1>2. CampaignSound /\ [Next]_<<part, campaign, assets>> => CampaignSound'
  <2> SUFFICES ASSUME CampaignSound, [Next]_<<part, campaign, assets>>
               PROVE  CampaignSound'
    OBVIOUS
  <2>0. AssetBindDelay \in Nat
    BY AssetsAssumption
  <2>1. CASE UNCHANGED assets
    BY <2>1 DEF assets, CampaignSound, Sound
  <2>2. CASE Assets!Next
    BY <2>0, <2>2, Present, CallActionsMake, CallActionsSound, CrossingSound, ArmingSound,
       ReplaySound, BalanceLevers, OtherLevers, LeverSound DEF Assets!Next
  <2> QED
    BY <2>1, <2>2 DEF Next
<1> QED
  BY <1>1, <1>2, PTL DEF Spec

\* Whatever its token does and whatever is sent again, the campaign reports nothing of the
\* real candidate (generation-2/stateful/campaign.ts:1144-1150).
THEOREM NoAlarmRaised == Spec => []NoAssetAlarm
<1>1. CampaignSound => NoAssetAlarm
  BY DEF CampaignSound, NoAssetAlarm, Assets!NoAssetAlarm
<1> QED
  BY <1>1, AssetCampaignSound, PTL

\* A spend that leaves the vault and an egress do, with a token's callback in them, what
\* they and the call in it do one after the other
\* (VaultKernelGen2Prototype.sol:1001-1071, the hooks of actions.ts:544-647).
THEOREM OutwardCallsSerial == Spec => []SerialOutward
<1>1. CampaignSound => SerialOutward
  BY DEF CampaignSound, SerialOutward, Assets!SerialOutward
<1> QED
  BY <1>1, AssetCampaignSound, PTL
=============================================================================
