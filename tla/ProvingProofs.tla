--------------------------- MODULE ProvingProofs ---------------------------
(***************************************************************************)
(* The properties of MCProving's registries, of the verifier to trust, of  *)
(* the advisories and of the tracing evidence, for every value of the      *)
(* constants.  The registries are those of WrapperRegistryProofs, each     *)
(* alone while it moves.                                                   *)
(***************************************************************************)
EXTENDS MCProving, FiniteSetTheorems, SequenceTheorems, WellFoundedInduction, TLAPS

-----------------------------------------------------------------------------
(* Egress attribution: what is true of a capture at any time *)

Attempts == eDerived.attempts
Refusals == eDerived.socketless

\* The source port an attempt of a socket is known to use once it returned.
SportOf(s) == IF EgressProbe[s] \in {"udp", "tcp"} THEN EgressPort[s] ELSE Egress!NoPort

EgressHome == {EgressNetns[s] : s \in EgressSocket} \cup {"host"}
EgressSport == {EgressPort[s] : s \in EgressSocket} \cup {Egress!NoPort}

EgressAttempt ==
    [kind : {"send", "connect"}, probe : {"udp", "ping", "tcp", "pkt", "udp4"},
     sk : EgressSocket, netns : EgressHome, dest : EgressDest \cup {Egress!None}, len : Nat,
     ret : Int, sport : EgressSport, packets : Nat, delegated : BOOLEAN, inWindow : BOOLEAN,
     established : BOOLEAN, closedInSynSent : BOOLEAN, closed : BOOLEAN]

EgressPacket ==
    [proto : {"udp", "echo", "tcp", "response"}, src : EgressHome,
     dst : EgressDest \cup {"host"}, sport : EgressSport, len : Nat]

EgressRefusal == [packet : EgressPacket, by : Int, place : Nat, closed : SUBSET Nat]

EgressDerived ==
    [attempts : Seq(EgressAttempt), open : [EgressSocket -> Seq(Nat)],
     sessions : [EgressSocket -> Nat], socketless : Seq(EgressRefusal),
     drops : SUBSET [class : {"ATTEMPT_PACKET", "BOUNDARY_RESPONSE", "KERNEL_RESPONSE",
                              "UNATTRIBUTED"}, attempt : Nat, by : Int],
     crafted : BOOLEAN, xsk : BOOLEAN, leaked : BOOLEAN, consistent : BOOLEAN]

EgressCall ==
    [n : Nat, probe : {"udp", "ping", "tcp", "pkt", "udp4"}, dest : EgressDest, len : Nat,
     out : {"nothing", "left", "passed", "refused"}]

EgressFlight == [by : Int, from : EgressHome, packet : EgressPacket, copies : {1, 2}]

EgressTyped ==
    /\ eDerived \in EgressDerived
    /\ eWindow \in {"before", "open", "after", "stopped"}
    /\ eCalls \in [EgressSocket -> Seq(EgressCall)]
    /\ eAir \subseteq EgressFlight
    /\ eSession \in [EgressSocket -> {"none", "connecting", "open", "closed"}]
    /\ eCrossed \subseteq Int
    /\ eCast \subseteq EgressSocket /\ eCast # {}

\* What an attempt says of its socket.
AttemptMade(n) ==
    LET a == Attempts[n] IN
    /\ a.netns = EgressNetns[a.sk]
    /\ a.kind = "connect" <=> a.probe = "tcp"
    /\ IF a.delegated THEN a.netns = "host" /\ EgressProbe[a.sk] = "udp" /\ a.probe = "udp4"
       ELSE a.probe = EgressProbe[a.sk]
    /\ a.probe = "pkt" => eDerived.crafted
    /\ a.probe # "pkt" => a.dest \in EgressDest
    /\ a.probe \in {"ping", "tcp", "pkt"} => a.len = 1
    /\ a.ret # Egress!NoReturn => a.sport = SportOf(a.sk)
    /\ a.netns # "host" => a.packets = 0
    /\ a.closed => a.kind = "connect" /\ a.ret = 0
    /\ a.inWindow => eWindow # "before"

AttemptsMade == \A n \in DOMAIN Attempts : AttemptMade(n)

\* The derivation holds the same calls open that the threads are in.
CallMirrored(s) ==
    LET c == eCalls[s]
        o == eDerived.open[s]
    IN /\ Len(c) \in 0..2 /\ Len(o) = Len(c)
       /\ Len(c) # 0 => s \in eCast /\ eSession[s] = "none"
       /\ \A k \in 1..Len(c) :
             /\ o[k] \in DOMAIN Attempts
             /\ c[k].n = o[1] /\ c[k].out = c[1].out
             /\ LET a == Attempts[o[k]] IN
                /\ a.sk = s /\ a.ret = Egress!NoReturn
                /\ a.probe = c[k].probe /\ a.len = c[k].len
                /\ a.delegated <=> k = 2
                /\ a.probe # "pkt" => a.dest = c[k].dest

ReturnAwaited(n) ==
    LET s == Attempts[n].sk IN
    Attempts[n].ret = Egress!NoReturn =>
        \E k \in 1..Len(eCalls[s]) : eDerived.open[s][k] = n

CallsMirrored ==
    /\ \A s \in EgressSocket : CallMirrored(s)
    /\ \A n \in DOMAIN Attempts : ReturnAwaited(n)

\* A connection is of the attempt that opened it.
Opened(s, m) ==
    Attempts[m].sk = s /\ Attempts[m].kind = "connect" /\ Attempts[m].ret = 0

SessionHeld(s) ==
    LET n == eDerived.sessions[s] IN
    /\ eSession[s] \in {"connecting", "open"} <=> n # 0
    /\ eSession[s] # "none" => EgressProbe[s] = "tcp"
    /\ n # 0 => n \in DOMAIN Attempts /\ Opened(s, n) /\ ~ Attempts[n].closed
    /\ \A m \in DOMAIN Attempts :
          Opened(s, m) => eSession[s] # "none" /\ (n # 0 => m = n)

SessionsHeld == \A s \in EgressSocket : SessionHeld(s)

OfAttempt(n, packet) ==
    /\ n \in DOMAIN Attempts
    /\ LET a == Attempts[n] IN
       /\ ~ a.delegated /\ a.netns # "host" /\ a.probe # "pkt"
       /\ \/ packet = Egress!PacketOf(a.sk, a.dest, a.len)
          \/ a.len = 2 /\ packet = Egress!PacketOf(a.sk, a.dest, 1)

\* The packets of containers, in the air and refused.
PacketInAir(p) ==
    /\ p.by <= Len(Attempts) /\ p.from # "host"
    /\ p.by > 0 => p.from = Attempts[p.by].netns
    /\ ~ eDerived.crafted =>
          /\ OfAttempt(p.by, p.packet)
          /\ ~ Attempts[p.by].closed
          /\ p.copies = 2 => p.packet.len # Attempts[p.by].len

PacketRefused(r) ==
    /\ r.by <= Len(Attempts) /\ r.place <= Len(Attempts)
    /\ ~ eDerived.crafted =>
          \/ /\ r.by = Egress!Kernel
             /\ r.packet.proto = "response" /\ r.packet.src = "host"
          \/ OfAttempt(r.by, r.packet) /\ r.by <= r.place /\ r.by \notin r.closed

PacketsKnown ==
    /\ \A p \in eAir : PacketInAir(p)
    /\ \A i \in DOMAIN Refusals : PacketRefused(Refusals[i])
    /\ \A i, j \in DOMAIN Refusals : i <= j => Refusals[i].place <= Refusals[j].place
    /\ \A n \in eCrossed : n <= Len(Attempts)

\* A datagram that is sent whole is one packet, and is refused once.
WholeInAir(n) ==
    \A p \in eAir : p.by = n /\ p.packet.len = Attempts[n].len =>
        /\ \A q \in eAir : q.by = n => q = p
        /\ \A i \in DOMAIN Refusals : Refusals[i].by # n

WholeRefused(n) ==
    \A i \in DOMAIN Refusals :
        Refusals[i].by = n /\ Refusals[i].packet.len = Attempts[n].len =>
            /\ \A p \in eAir : p.by # n
            /\ \A j \in DOMAIN Refusals : Refusals[j].by = n => j = i

WholeOnce ==
    ~ eDerived.crafted =>
        \A n \in DOMAIN Attempts :
            Attempts[n].kind = "send" => WholeInAir(n) /\ WholeRefused(n)

\* Nothing is seen of an attempt before its packet is made.
Unseen(n) ==
    /\ \A p \in eAir : p.by # n
    /\ \A i \in DOMAIN Refusals : Refusals[i].by # n
    /\ n \notin eCrossed
    /\ Attempts[n].packets = 0

FreshUnseen ==
    \A s \in EgressSocket :
        Len(eCalls[s]) # 0 /\ eCalls[s][1].out = "nothing" => Unseen(eCalls[s][1].n)

\* Who sent a datagram is not told of a failure.
SentWell(n) ==
    /\ n \in DOMAIN Attempts /\ ~ Attempts[n].delegated
    /\ Attempts[n].kind = "send" =>
          \/ Attempts[n].ret = 0
          \/ /\ Attempts[n].ret = Egress!NoReturn
             /\ Len(eCalls[Attempts[n].sk]) # 0
             /\ eCalls[Attempts[n].sk][1].out \in {"passed", "left"}

\* What the host lets past it does not refuse.
PassedWell(n) ==
    Attempts[n].kind = "send" /\ Attempts[n].netns = "host" => Attempts[n].packets = 0

SentReturnsWell ==
    /\ \A p \in eAir : p.by > 0 => SentWell(p.by)
    /\ \A n \in eCrossed : n > 0 => SentWell(n) /\ PassedWell(n)
    /\ \A p \in eAir : p.by = Egress!Unsent => eDerived.xsk
    /\ Egress!Unsent \in eCrossed => eDerived.xsk
    /\ CallsReturn /\ eWindow = "stopped" => \A s \in EgressSocket : Len(eCalls[s]) = 0

OfWindow(n) == Attempts[n].kind = "send" /\ Attempts[n].inWindow

\* A datagram of the window may still meet the boundary.
StillSent ==
    \/ \E n \in DOMAIN Attempts : OfWindow(n) /\ Attempts[n].ret = Egress!NoReturn
    \/ \E p \in eAir : p.by > 0 /\ OfWindow(p.by)

\* The boundary is the same for all datagrams of the window.
BoundaryHolds ==
    /\ eWindow = "before" => eCrossed = {}
    /\ eWindow = "open" =>
          \A i \in DOMAIN Refusals : Refusals[i].by > 0 /\ OfWindow(Refusals[i].by) =>
              Attempts[Refusals[i].by].netns \notin ePast
    /\ eWindow = "open" \/ StillSent =>
          \A n \in eCrossed : n > 0 => Attempts[n].netns \in ePast
    /\ \A n \in eCrossed, i \in DOMAIN Refusals :
          n > 0 /\ Refusals[i].by > 0 /\ OfWindow(Refusals[i].by) =>
              Attempts[n].netns # Attempts[Refusals[i].by].netns

\* What is judged already is judged by its sender.
BySender(drop) ==
    /\ drop.class = "ATTEMPT_PACKET" =>
          /\ drop.by \in DOMAIN Attempts /\ drop.attempt \in DOMAIN Attempts
          /\ Attempts[drop.by].sk = Attempts[drop.attempt].sk
    /\ drop.class \in {"KERNEL_RESPONSE", "BOUNDARY_RESPONSE"} => drop.by = Egress!Kernel

JudgedHonestly == \A drop \in eDerived.drops : BySender(drop)

EgressInv ==
    /\ EgressTyped /\ AttemptsMade /\ CallsMirrored /\ SessionsHeld
    /\ PacketsKnown /\ WholeOnce /\ FreshUnseen /\ SentReturnsWell
    /\ BoundaryHolds /\ JudgedHonestly

-----------------------------------------------------------------------------
(* What an event does to the derivation *)

LEMMA EgressAssumed ==
    /\ Egress!None \notin EgressSocket /\ Egress!None \notin EgressDest
    /\ \A s \in EgressSocket :
          /\ EgressProbe[s] \in {"udp", "ping", "tcp", "pkt"}
          /\ EgressProbe[s] = "pkt" => EgressNetns[s] # "host"
    /\ EgressLength \subseteq Nat
    /\ EgressCasts \subseteq (SUBSET EgressSocket) \ {{}}
BY EgressAssumption DEF Egress!EgressAssumption, Egress!None

LEMMA EgressFacts ==
    ASSUME EgressTyped
    PROVE  /\ Attempts \in Seq(EgressAttempt) /\ Len(Attempts) \in Nat
           /\ DOMAIN Attempts = 1..Len(Attempts)
           /\ \A n \in DOMAIN Attempts : Attempts[n] \in EgressAttempt
           /\ Refusals \in Seq(EgressRefusal) /\ Len(Refusals) \in Nat
           /\ DOMAIN Refusals = 1..Len(Refusals)
           /\ \A i \in DOMAIN Refusals : Refusals[i] \in EgressRefusal
           /\ eDerived.open \in [EgressSocket -> Seq(Nat)]
           /\ eDerived.sessions \in [EgressSocket -> Nat]
           /\ \A s \in EgressSocket :
                 /\ eCalls[s] \in Seq(EgressCall) /\ Len(eCalls[s]) \in Nat
                 /\ eDerived.open[s] \in Seq(Nat) /\ Len(eDerived.open[s]) \in Nat
                 /\ \A k \in 1..Len(eCalls[s]) : eCalls[s][k] \in EgressCall
                 /\ \A k \in 1..Len(eDerived.open[s]) : eDerived.open[s][k] \in Nat
<1>1. eDerived \in EgressDerived /\ eCalls \in [EgressSocket -> Seq(EgressCall)]
  BY DEF EgressTyped
<1>2. /\ eDerived.attempts \in Seq(EgressAttempt)
      /\ eDerived.socketless \in Seq(EgressRefusal)
      /\ eDerived.open \in [EgressSocket -> Seq(Nat)]
      /\ eDerived.sessions \in [EgressSocket -> Nat]
  BY <1>1 DEF EgressDerived
<1>3. \A s \in EgressSocket : eCalls[s] \in Seq(EgressCall) /\ eDerived.open[s] \in Seq(Nat)
  BY <1>1, <1>2
<1> QED
  BY <1>2, <1>3 DEF Attempts, Refusals

\* An attempt as its entry records it.
EnteredAs(s, probe, dest, len, nested) ==
    [kind |-> IF probe = "tcp" THEN "connect" ELSE "send", probe |-> probe, sk |-> s,
     netns |-> EgressNetns[s], dest |-> IF probe = "pkt" THEN Egress!None ELSE dest,
     len |-> len, ret |-> Egress!NoReturn, sport |-> Egress!NoPort, packets |-> 0,
     delegated |-> nested, inWindow |-> eWindow = "open", established |-> FALSE,
     closedInSynSent |-> FALSE, closed |-> FALSE]

LEMMA EntryFields ==
    ASSUME EgressTyped, NEW s \in EgressSocket,
           NEW probe \in {"udp", "ping", "tcp", "pkt", "udp4"}, NEW dest \in EgressDest,
           NEW len \in Nat,
           eDerived' = Egress!Entry(eDerived, Egress!EntryOf(s, probe, dest, len))
    PROVE  /\ eDerived' \in EgressDerived
           /\ Attempts' = Append(Attempts, EnteredAs(s, probe, dest, len,
                                              Egress!Top(eDerived.open[s]) # 0))
           /\ eDerived'.open = [eDerived.open EXCEPT ![s] = Append(@, Len(Attempts) + 1)]
           /\ eDerived'.crafted <=> (eDerived.crafted \/ (probe = "pkt" /\ EgressNetns[s] # "host"))
           /\ eDerived'.sessions = eDerived.sessions /\ Refusals' = Refusals
           /\ eDerived'.drops = eDerived.drops /\ eDerived'.xsk = eDerived.xsk
<1> DEFINE e == Egress!EntryOf(s, probe, dest, len)
           at == EnteredAs(s, probe, dest, len, Egress!Top(eDerived.open[s]) # 0)
<1>1. e.k = (IF probe = "tcp" THEN "connect" ELSE "send") /\ e.sk = s /\ e.probe = probe
      /\ e.dest = (IF probe = "pkt" THEN Egress!None ELSE dest) /\ e.len = len
  BY DEF Egress!EntryOf
<1>2. eDerived' = [eDerived EXCEPT
                     !.attempts = Append(@, at),
                     !.open[s] = Append(@, Len(Attempts) + 1),
                     !.crafted = @ \/ (probe = "pkt" /\ EgressNetns[s] # "host")]
  BY <1>1 DEF Egress!Entry, Egress!inWindow, EnteredAs, Attempts
<1>3. at \in EgressAttempt
  <2>1. EgressNetns[s] \in EgressHome
    BY DEF EgressHome
  <2>2. Egress!NoPort \in EgressSport /\ Egress!NoReturn \in Int
    BY DEF EgressSport, Egress!NoReturn
  <2> QED
    BY <2>1, <2>2 DEF EnteredAs, EgressAttempt
<1> HIDE DEF at
<1>4. eDerived \in EgressDerived /\ Attempts \in Seq(EgressAttempt) /\ Len(Attempts) \in Nat
      /\ eDerived.open \in [EgressSocket -> Seq(Nat)]
  BY EgressFacts DEF EgressTyped
<1>5. /\ Append(Attempts, at) \in Seq(EgressAttempt)
      /\ [eDerived.open EXCEPT ![s] = Append(@, Len(Attempts) + 1)] \in [EgressSocket -> Seq(Nat)]
  BY <1>3, <1>4
<1>6. /\ eDerived'.attempts = Append(eDerived.attempts, at)
      /\ eDerived'.open = [eDerived.open EXCEPT ![s] = Append(@, Len(Attempts) + 1)]
      /\ eDerived'.crafted = (eDerived.crafted \/ (probe = "pkt" /\ EgressNetns[s] # "host"))
      /\ eDerived'.sessions = eDerived.sessions
      /\ eDerived'.socketless = eDerived.socketless
      /\ eDerived'.drops = eDerived.drops /\ eDerived'.xsk = eDerived.xsk
      /\ eDerived'.leaked = eDerived.leaked /\ eDerived'.consistent = eDerived.consistent
      /\ DOMAIN eDerived' = DOMAIN eDerived
  BY <1>2, <1>4 DEF EgressDerived
<1>7. eDerived' \in EgressDerived
  BY <1>2, <1>4, <1>5 DEF EgressDerived, Attempts
<1> QED
  <2>1. eDerived'.crafted <=> (eDerived.crafted \/ (probe = "pkt" /\ EgressNetns[s] # "host"))
    BY <1>6, Zenon
  <2> QED
    BY <1>6, <1>7, <2>1 DEF at, Attempts, Refusals

LEMMA StackEnds ==
    ASSUME NEW S, NEW stack \in Seq(S), stack # <<>>
    PROVE  /\ Egress!Last(stack) = stack[Len(stack)]
           /\ Egress!Front(stack) \in Seq(S)
           /\ Len(Egress!Front(stack)) = Len(stack) - 1
           /\ \A k \in 1..(Len(stack) - 1) : Egress!Front(stack)[k] = stack[k]
<1>1. Len(stack) \in Nat \ {0}
  OBVIOUS
<1>2. 1 \in 1..(Len(stack) + 1) /\ Len(stack) - 1 \in 0..Len(stack)
  BY <1>1
<1> DEFINE m == Len(stack) - 1
<1>3. /\ SubSeq(stack, 1, m) \in Seq(S)
      /\ Len(SubSeq(stack, 1, m)) = IF 1 <= m THEN m - 1 + 1 ELSE 0
      /\ \A k \in 1..(m - 1 + 1) : SubSeq(stack, 1, m)[k] = stack[1 + k - 1]
  <2>1. m \in Int /\ 1 \in Int /\ \A k \in 1..m : stack[k] \in S
    BY <1>1
  <2> HIDE DEF m
  <2> QED
    BY <2>1, SubSeqProperties
<1>4. /\ SubSeq(stack, 1, m) \in Seq(S) /\ Len(SubSeq(stack, 1, m)) = m
      /\ \A k \in 1..m : SubSeq(stack, 1, m)[k] = stack[k]
  <2>1. m \in Nat
    BY <1>1
  <2> HIDE DEF m
  <2> QED
    BY <1>3, <2>1
<1> QED
  BY <1>4 DEF Egress!Last, Egress!Front

LEMMA StackStart ==
    ASSUME NEW S, NEW stack \in Seq(S), Len(stack) \in 1..2
    PROVE  stack # <<>> /\ Head(stack) = stack[1]
OBVIOUS

\* What a return writes of an attempt, and what a state of its connection does.
Returned(a, ret, sport) == [a EXCEPT !.ret = ret, !.sport = sport]

Connected(a, from, to) ==
    [a EXCEPT !.established = a.established \/ (from = "SYN_SENT" /\ to = "ESTABLISHED"),
              !.closedInSynSent = a.closedInSynSent \/ (from = "SYN_SENT" /\ to = "CLOSE"),
              !.closed = (to = "CLOSE")]

LEMMA ReturnFields ==
    ASSUME EgressTyped, NEW s \in EgressSocket, NEW ret \in Int, NEW sport \in EgressSport,
           NEW probe, eDerived.open[s] # <<>>,
           NEW top \in DOMAIN Attempts, top = eDerived.open[s][Len(eDerived.open[s])],
           Attempts[top].probe = probe,
           eDerived' = Egress!Return(eDerived, [sk |-> s, probe |-> probe, ret |-> ret,
                                                sport |-> sport])
    PROVE  /\ eDerived' \in EgressDerived
           /\ Attempts' = [Attempts EXCEPT ![top] = Returned(Attempts[top], ret, sport)]
           /\ eDerived'.open = [eDerived.open EXCEPT ![s] = Egress!Front(@)]
           /\ \A t \in EgressSocket \ {s} : eDerived'.sessions[t] = eDerived.sessions[t]
           /\ eDerived'.sessions[s] =
                 IF probe = "tcp" /\ ret >= 0 /\ ~ Attempts[top].delegated
                 THEN top ELSE eDerived.sessions[s]
           /\ Refusals' = Refusals /\ eDerived'.drops = eDerived.drops
           /\ eDerived'.crafted = eDerived.crafted /\ eDerived'.xsk = eDerived.xsk
<1> DEFINE at == [Attempts[top] EXCEPT !.ret = ret, !.sport = sport]
           to == IF probe = "tcp" /\ ret >= 0 /\ ~ Attempts[top].delegated
                 THEN top ELSE eDerived.sessions[s]
<1>1. /\ eDerived \in EgressDerived /\ Attempts \in Seq(EgressAttempt)
      /\ eDerived.open \in [EgressSocket -> Seq(Nat)]
      /\ eDerived.sessions \in [EgressSocket -> Nat]
      /\ eDerived.open[s] \in Seq(Nat) /\ Attempts[top] \in EgressAttempt
      /\ top \in Nat /\ top # 0
  <2>1. top \in 1..Len(Attempts) /\ Len(Attempts) \in Nat
    BY EgressFacts
  <2>2. top \in Nat /\ top # 0
    BY <2>1
  <2>3. eDerived \in EgressDerived
    BY DEF EgressTyped
  <2> QED
    BY <2>2, <2>3, EgressFacts
<1>2. Egress!Top(eDerived.open[s]) = top
  BY <1>1, StackEnds DEF Egress!Top
<1>3. eDerived' = [eDerived EXCEPT !.open[s] = Egress!Front(@),
                                   !.attempts[top].ret = ret,
                                   !.attempts[top].sport = sport,
                                   !.sessions[s] = to]
  BY <1>1, <1>2 DEF Egress!Return, Attempts
<1>4. /\ at \in EgressAttempt
      /\ [Attempts EXCEPT ![top] = at] \in Seq(EgressAttempt)
      /\ Egress!Front(eDerived.open[s]) \in Seq(Nat)
      /\ [eDerived.open EXCEPT ![s] = Egress!Front(@)] \in [EgressSocket -> Seq(Nat)]
      /\ to \in Nat /\ [eDerived.sessions EXCEPT ![s] = to] \in [EgressSocket -> Nat]
  <2>1. at \in EgressAttempt
    BY <1>1 DEF EgressAttempt
  <2>2. [Attempts EXCEPT ![top] = at] \in Seq(EgressAttempt)
    <3> HIDE DEF at
    <3> QED
      BY <1>1, <2>1
  <2>3. Egress!Front(eDerived.open[s]) \in Seq(Nat)
    BY <1>1, StackEnds
  <2>4. to \in Nat
    BY <1>1
  <2> HIDE DEF to
  <2> QED
    BY <1>1, <2>1, <2>2, <2>3, <2>4
<1>5. /\ eDerived'.attempts = [eDerived.attempts EXCEPT ![top].ret = ret, ![top].sport = sport]
      /\ eDerived'.open = [eDerived.open EXCEPT ![s] = Egress!Front(@)]
      /\ eDerived'.sessions = [eDerived.sessions EXCEPT ![s] = to]
      /\ eDerived'.socketless = eDerived.socketless /\ eDerived'.drops = eDerived.drops
      /\ eDerived'.crafted = eDerived.crafted /\ eDerived'.xsk = eDerived.xsk
      /\ eDerived'.leaked = eDerived.leaked /\ eDerived'.consistent = eDerived.consistent
  <2> DEFINE front == Egress!Front(eDerived.open[s])
             d1 == [eDerived EXCEPT !.open[s] = front]
             d2 == [d1 EXCEPT !.attempts[top].ret = ret]
             d3 == [d2 EXCEPT !.attempts[top].sport = sport]
  <2>1. eDerived' = [d3 EXCEPT !.sessions[s] = to]
    <3> HIDE DEF to
    <3> QED
      BY <1>3
  <2>2. /\ d1 = [eDerived EXCEPT !.open = [eDerived.open EXCEPT ![s] = front]]
        /\ d1.attempts = eDerived.attempts
    <3> HIDE DEF front
    <3> QED
      BY <1>1 DEF EgressDerived
  <2> HIDE DEF d1
  <2>3. d2 = [d1 EXCEPT !.attempts = [eDerived.attempts EXCEPT ![top].ret = ret]]
    BY <2>2
  <2> HIDE DEF d2
  <2>4. /\ d2.attempts = [eDerived.attempts EXCEPT ![top].ret = ret]
        /\ d2.open = [eDerived.open EXCEPT ![s] = front]
        /\ d2.sessions = eDerived.sessions
        /\ d2.socketless = eDerived.socketless /\ d2.drops = eDerived.drops
        /\ d2.crafted = eDerived.crafted /\ d2.xsk = eDerived.xsk
        /\ d2.leaked = eDerived.leaked /\ d2.consistent = eDerived.consistent
        /\ DOMAIN d2 = DOMAIN eDerived
    <3> HIDE DEF front
    <3> QED
      BY <1>1, <2>2, <2>3 DEF EgressDerived
  <2>5. d3 = [d2 EXCEPT !.attempts = [eDerived.attempts EXCEPT ![top].ret = ret,
                                                             ![top].sport = sport]]
    BY <2>4
  <2> HIDE DEF d3, to, front
  <2> QED
    BY <1>1, <2>1, <2>4, <2>5 DEF EgressDerived, front
<1>6. Attempts' = [Attempts EXCEPT ![top] = at]
  BY <1>1, <1>5 DEF Attempts
<1>7. eDerived' \in EgressDerived
  <2>1. eDerived' = [eDerived EXCEPT !.open = [eDerived.open EXCEPT ![s] = Egress!Front(@)],
                                     !.attempts = Attempts',
                                     !.sessions = [eDerived.sessions EXCEPT ![s] = to]]
    <3> HIDE DEF to
    <3> QED
      BY <1>1, <1>3, <1>5 DEF EgressDerived, Attempts
  <2> HIDE DEF to, at
  <2> QED
    BY <1>1, <1>4, <1>6, <2>1 DEF EgressDerived
<1>8. /\ \A t \in EgressSocket \ {s} : eDerived'.sessions[t] = eDerived.sessions[t]
      /\ eDerived'.sessions[s] = to
  <2> HIDE DEF to
  <2> QED
    BY <1>1, <1>5
<1> QED
  BY <1>5, <1>6, <1>7, <1>8 DEF Refusals, Returned

LEMMA TcpFields ==
    ASSUME EgressTyped, NEW s \in EgressSocket, NEW from, NEW to,
           NEW n \in DOMAIN Attempts, n = eDerived.sessions[s],
           eDerived' = Egress!TcpState(eDerived, [sk |-> s, from |-> from, to |-> to])
    PROVE  /\ eDerived' \in EgressDerived
           /\ Attempts' = [Attempts EXCEPT ![n] = Connected(Attempts[n], from, to)]
           /\ \A t \in EgressSocket \ {s} : eDerived'.sessions[t] = eDerived.sessions[t]
           /\ eDerived'.sessions[s] = IF to = "CLOSE" THEN 0 ELSE eDerived.sessions[s]
           /\ eDerived'.open = eDerived.open
           /\ Refusals' = Refusals /\ eDerived'.drops = eDerived.drops
           /\ eDerived'.crafted = eDerived.crafted /\ eDerived'.xsk = eDerived.xsk
<1> DEFINE est == Attempts[n].established \/ (from = "SYN_SENT" /\ to = "ESTABLISHED")
           syn == Attempts[n].closedInSynSent \/ (from = "SYN_SENT" /\ to = "CLOSE")
           shut == to = "CLOSE"
           at == [Attempts[n] EXCEPT !.established = est, !.closedInSynSent = syn, !.closed = shut]
           holds == IF to = "CLOSE" THEN 0 ELSE eDerived.sessions[s]
<1>1. /\ eDerived \in EgressDerived /\ Attempts \in Seq(EgressAttempt)
      /\ eDerived.sessions \in [EgressSocket -> Nat] /\ Attempts[n] \in EgressAttempt
      /\ n \in Nat /\ n # 0
  <2>1. n \in 1..Len(Attempts) /\ Len(Attempts) \in Nat
    BY EgressFacts
  <2> QED
    BY <2>1, EgressFacts DEF EgressTyped
<1>2. eDerived' = [eDerived EXCEPT
            !.attempts[n].established = est, !.attempts[n].closedInSynSent = syn,
            !.attempts[n].closed = shut, !.sessions[s] = holds]
  BY <1>1 DEF Egress!TcpState, Attempts
<1>3. /\ eDerived'.attempts = [eDerived.attempts EXCEPT
            ![n].established = est, ![n].closedInSynSent = syn, ![n].closed = shut]
      /\ eDerived'.open = eDerived.open
      /\ eDerived'.sessions = [eDerived.sessions EXCEPT ![s] = holds]
      /\ eDerived'.socketless = eDerived.socketless /\ eDerived'.drops = eDerived.drops
      /\ eDerived'.crafted = eDerived.crafted /\ eDerived'.xsk = eDerived.xsk
  <2> DEFINE d1 == [eDerived EXCEPT !.attempts[n].established = est]
             d2 == [d1 EXCEPT !.attempts[n].closedInSynSent = syn]
             d3 == [d2 EXCEPT !.attempts[n].closed = shut]
  <2> HIDE DEF holds, est, syn, shut
  <2>1. eDerived' = [d3 EXCEPT !.sessions[s] = holds]
    BY <1>2
  <2>2. /\ d1.attempts = [eDerived.attempts EXCEPT ![n].established = est]
        /\ d1 = [eDerived EXCEPT !.attempts = d1.attempts]
    BY <1>1 DEF EgressDerived
  <2> HIDE DEF d1
  <2>3. d2 = [d1 EXCEPT !.attempts = [eDerived.attempts EXCEPT
                              ![n].established = est, ![n].closedInSynSent = syn]]
    BY <2>2
  <2> HIDE DEF d2
  <2>4. d2 = [eDerived EXCEPT !.attempts = [eDerived.attempts EXCEPT
                              ![n].established = est, ![n].closedInSynSent = syn]]
    <3> DEFINE v == [eDerived.attempts EXCEPT
                              ![n].established = est, ![n].closedInSynSent = syn]
    <3>1. d2 = [d1 EXCEPT !.attempts = v]
      BY <2>3
    <3> HIDE DEF v
    <3>2. d2 = [eDerived EXCEPT !.attempts = v]
      BY <1>1, <2>2, <3>1 DEF EgressDerived
    <3> QED
      BY <3>2 DEF v
  <2>5. d2.attempts = [eDerived.attempts EXCEPT
                              ![n].established = est, ![n].closedInSynSent = syn]
    BY <1>1, <2>4 DEF EgressDerived
  <2>6. d3 = [d2 EXCEPT !.attempts = [eDerived.attempts EXCEPT
            ![n].established = est, ![n].closedInSynSent = syn, ![n].closed = shut]]
    BY <2>5
  <2> HIDE DEF d3
  <2> QED
    BY <1>1, <2>1, <2>4, <2>6 DEF EgressDerived
<1>4. Attempts' = [Attempts EXCEPT ![n] = at]
  <2> HIDE DEF est, syn, shut
  <2> QED
    BY <1>1, <1>3 DEF Attempts
<1>5. at \in EgressAttempt
  <2>1. est \in BOOLEAN /\ syn \in BOOLEAN /\ shut \in BOOLEAN
    BY <1>1, Zenon DEF EgressAttempt
  <2> HIDE DEF est, syn, shut
  <2> QED
    BY <1>1, <2>1 DEF EgressAttempt
<1>6. /\ [Attempts EXCEPT ![n] = at] \in Seq(EgressAttempt)
      /\ holds \in Nat /\ [eDerived.sessions EXCEPT ![s] = holds] \in [EgressSocket -> Nat]
  <2>1. holds \in Nat
    BY <1>1
  <2> HIDE DEF at, holds
  <2> QED
    BY <1>1, <1>5, <2>1
<1>7. eDerived' \in EgressDerived
  <2>1. eDerived' = [eDerived EXCEPT !.attempts = Attempts',
                                     !.sessions = [eDerived.sessions EXCEPT ![s] = holds]]
    <3> HIDE DEF holds, est, syn, shut
    <3> QED
      BY <1>1, <1>2, <1>3 DEF EgressDerived, Attempts
  <2> HIDE DEF holds, at
  <2> QED
    BY <1>1, <1>4, <1>6, <2>1 DEF EgressDerived
<1>8. /\ \A t \in EgressSocket \ {s} : eDerived'.sessions[t] = eDerived.sessions[t]
      /\ eDerived'.sessions[s] = holds
  <2> HIDE DEF holds, est, syn, shut
  <2> QED
    BY <1>1, <1>3
<1> QED
  BY <1>3, <1>4, <1>7, <1>8, Zenon DEF Refusals, Connected

EgressClass == {"ATTEMPT_PACKET", "BOUNDARY_RESPONSE", "KERNEL_RESPONSE", "UNATTRIBUTED"}

\* What a judgement of a packet writes, also when the capture is whole.
LEMMA JudgedOtherwise ==
    ASSUME NEW d \in EgressDerived, NEW class \in EgressClass, class # "ATTEMPT_PACKET",
           NEW a \in Nat, NEW e, e.by \in Int, NEW r, r = Egress!Judged(d, class, a, e)
    PROVE  /\ r \in EgressDerived /\ r.attempts = d.attempts
           /\ r.drops = d.drops \cup {[class |-> class, attempt |-> a, by |-> e.by]}
           /\ r.open = d.open /\ r.sessions = d.sessions /\ r.socketless = d.socketless
           /\ r.crafted = d.crafted /\ r.xsk = d.xsk
           /\ r.leaked = d.leaked /\ r.consistent = d.consistent
<1> DEFINE drops == d.drops \cup {[class |-> class, attempt |-> a, by |-> e.by]}
<1>1. drops \in SUBSET [class : EgressClass, attempt : Nat, by : Int]
  BY DEF EgressDerived, EgressClass
<1>2. r = [d EXCEPT !.drops = drops]
  BY DEF Egress!Judged
<1> HIDE DEF drops
<1>3. /\ r \in EgressDerived /\ r.attempts = d.attempts /\ r.drops = drops
      /\ r.open = d.open /\ r.sessions = d.sessions /\ r.socketless = d.socketless
      /\ r.crafted = d.crafted /\ r.xsk = d.xsk
      /\ r.leaked = d.leaked /\ r.consistent = d.consistent
  BY <1>1, <1>2 DEF EgressDerived, EgressClass
<1> QED
  BY <1>3 DEF drops

LEMMA JudgedPacket ==
    ASSUME NEW d \in EgressDerived, NEW a \in Nat, a \in DOMAIN d.attempts, NEW e, e.by \in Int,
           NEW r, r = Egress!Judged(d, "ATTEMPT_PACKET", a, e)
    PROVE  /\ r \in EgressDerived
           /\ r.attempts = [d.attempts EXCEPT
                 ![a] = [d.attempts[a] EXCEPT !.packets = d.attempts[a].packets + 1]]
           /\ r.drops = d.drops \cup {[class |-> "ATTEMPT_PACKET", attempt |-> a, by |-> e.by]}
           /\ r.open = d.open /\ r.sessions = d.sessions /\ r.socketless = d.socketless
           /\ r.crafted = d.crafted /\ r.xsk = d.xsk
           /\ r.leaked = d.leaked /\ r.consistent = d.consistent
<1> DEFINE drops == d.drops \cup {[class |-> "ATTEMPT_PACKET", attempt |-> a, by |-> e.by]}
           judged == [d EXCEPT !.drops = drops]
           at == [d.attempts[a] EXCEPT !.packets = d.attempts[a].packets + 1]
<1>1. drops \in SUBSET [class : EgressClass, attempt : Nat, by : Int]
  BY DEF EgressDerived, EgressClass
<1>2. /\ judged \in EgressDerived /\ judged.attempts = d.attempts /\ judged.drops = drops
      /\ judged.open = d.open /\ judged.sessions = d.sessions
      /\ judged.socketless = d.socketless
      /\ judged.crafted = d.crafted /\ judged.xsk = d.xsk
      /\ judged.leaked = d.leaked /\ judged.consistent = d.consistent
  <2> HIDE DEF drops
  <2> QED
    BY <1>1 DEF EgressDerived, EgressClass
<1>3. r = [judged EXCEPT !.attempts[a].packets = d.attempts[a].packets + 1]
  BY <1>2 DEF Egress!Judged
<1>4. a \in DOMAIN judged.attempts /\ judged.attempts \in Seq(EgressAttempt)
  BY <1>2 DEF EgressDerived
<1>5. d.attempts[a] \in EgressAttempt
  BY <1>2, <1>4
<1>6. at \in EgressAttempt
  BY <1>5 DEF EgressAttempt
<1> HIDE DEF judged
<1>7. r = [judged EXCEPT !.attempts = [d.attempts EXCEPT ![a] = at]]
  BY <1>2, <1>3
<1> HIDE DEF at
<1>8. [d.attempts EXCEPT ![a] = at] \in Seq(EgressAttempt)
  BY <1>2, <1>4, <1>6
<1>9. r \in EgressDerived
  BY <1>2, <1>7, <1>8 DEF EgressDerived
<1>10. /\ r.attempts = [d.attempts EXCEPT ![a] = at] /\ r.drops = judged.drops
       /\ r.open = judged.open /\ r.sessions = judged.sessions
       /\ r.socketless = judged.socketless
       /\ r.crafted = judged.crafted /\ r.xsk = judged.xsk
       /\ r.leaked = judged.leaked /\ r.consistent = judged.consistent
  BY <1>2, <1>7 DEF EgressDerived
<1> QED
  BY <1>2, <1>9, <1>10 DEF at

LEMMA OwnRefused ==
    ASSUME EgressTyped, CallsMirrored, NEW s \in EgressSocket, Len(eCalls[s]) # 0, NEW e,
           e.ctx = "task" /\ e.tid = s /\ e.sk = s
    PROVE  Egress!Drop(eDerived, e) =
              Egress!Judged(eDerived, "ATTEMPT_PACKET", eDerived.open[s][1], e)
<1> DEFINE stack == eDerived.open[s]
           owners == {a \in Egress!ToSet(stack) :
                        eDerived.attempts[a].sk = s /\ ~ eDerived.attempts[a].delegated}
<1>1. /\ Len(stack) \in 1..2 /\ stack \in Seq(Nat)
      /\ \A k \in 1..Len(stack) : /\ Attempts[stack[k]].sk = s
                                  /\ Attempts[stack[k]].delegated <=> k = 2
  BY EgressFacts DEF CallsMirrored, CallMirrored
<1>2. Egress!ToSet(stack) = {stack[k] : k \in 1..Len(stack)}
  BY <1>1 DEF Egress!ToSet
<1>3. owners = {stack[1]}
  <2> HIDE DEF stack
  <2>1. stack[1] \in owners
    BY <1>1, <1>2 DEF Attempts
  <2>2. \A a \in owners : a = stack[1]
    <3> SUFFICES ASSUME NEW a \in owners  PROVE a = stack[1]
      OBVIOUS
    <3>1. PICK k \in 1..Len(stack) : a = stack[k]
      BY <1>2
    <3>2. ~ Attempts[a].delegated
      BY DEF Attempts
    <3>3. k # 2
      BY <1>1, <3>1, <3>2
    <3>4. k = 1
      BY <1>1, <3>3
    <3> QED
      BY <3>1, <3>4
  <2> HIDE DEF owners
  <2> QED
    BY <2>1, <2>2
<1>4. (CHOOSE a \in owners : TRUE) = stack[1] /\ owners # {}
  <2> HIDE DEF owners, stack
  <2> QED
    BY <1>3
<1>5. Egress!Drop(eDerived, e) =
         Egress!Judged(eDerived, "ATTEMPT_PACKET", CHOOSE a \in owners : TRUE, e)
  BY <1>4 DEF Egress!Drop
<1> HIDE DEF owners, stack
<1> QED
  BY <1>4, <1>5 DEF stack

LEMMA ConnectionRefused ==
    ASSUME EgressTyped, NEW s \in EgressSocket, eDerived.sessions[s] # 0, NEW e,
           e.ctx = "softirq" /\ e.sk = s
    PROVE  Egress!Drop(eDerived, e) =
              Egress!Judged(eDerived, "ATTEMPT_PACKET", eDerived.sessions[s], e)
<1>1. Egress!ToSet(<<>>) = {}
  BY DEF Egress!ToSet
<1>2. s # Egress!None
  BY EgressAssumed
<1> QED
  BY <1>1, <1>2 DEF Egress!Drop

LEMMA AnswerRefused ==
    ASSUME EgressTyped, CallsMirrored, NEW s \in EgressSocket, Len(eCalls[s]) # 0, NEW e,
           e.ctx = "task" /\ e.tid = s /\ e.sk = Egress!None, e.packet.proto = "response"
    PROVE  Egress!Drop(eDerived, e) =
              Egress!Judged(eDerived, "BOUNDARY_RESPONSE", eDerived.open[s][1], e)
<1> DEFINE stack == eDerived.open[s]
           owners == {a \in Egress!ToSet(stack) :
                 eDerived.attempts[a].sk = Egress!None /\ ~ eDerived.attempts[a].delegated}
<1>1. Len(stack) \in 1..2 /\ stack \in Seq(Nat)
  BY EgressFacts DEF CallsMirrored, CallMirrored
<1>2. \A k \in 1..Len(stack) : Attempts[stack[k]].sk = s
  BY EgressFacts DEF CallsMirrored, CallMirrored
<1>3. owners = {}
  <2>1. Egress!ToSet(stack) = {stack[k] : k \in 1..Len(stack)}
    BY <1>1 DEF Egress!ToSet
  <2> HIDE DEF stack
  <2> QED
    BY <1>2, <2>1, EgressAssumed DEF Attempts
<1>4. stack # <<>> /\ Head(stack) = stack[1]
  <2> HIDE DEF stack
  <2> QED
    BY <1>1, StackStart
<1>5. Egress!Drop(eDerived, e) = Egress!Judged(eDerived, "BOUNDARY_RESPONSE", Head(stack), e)
  BY <1>3, <1>4 DEF Egress!Drop, Egress!isResponse
<1> QED
  BY <1>4, <1>5

LEMMA LaterRefused ==
    ASSUME EgressTyped, NEW packet \in EgressPacket, NEW by \in Int, NEW tid,
           eDerived' = Egress!Drop(eDerived, [ctx |-> "softirq", tid |-> tid,
                                    sk |-> Egress!None, by |-> by, packet |-> packet])
    PROVE  /\ eDerived' \in EgressDerived
           /\ Refusals' = Append(Refusals,
                 [packet |-> packet, by |-> by, place |-> Len(Attempts),
                  closed |-> {a \in DOMAIN Attempts : Attempts[a].closed}])
           /\ Attempts' = Attempts /\ eDerived'.open = eDerived.open
           /\ eDerived'.sessions = eDerived.sessions /\ eDerived'.drops = eDerived.drops
           /\ eDerived'.crafted = eDerived.crafted /\ eDerived'.xsk = eDerived.xsk
<1> DEFINE entry == [packet |-> packet, by |-> by, place |-> Len(Attempts),
                     closed |-> {a \in DOMAIN Attempts : Attempts[a].closed}]
<1>1. Egress!ToSet(<<>>) = {}
  BY DEF Egress!ToSet
<1>2. eDerived' = [eDerived EXCEPT !.socketless = Append(@, entry)]
  BY <1>1 DEF Egress!Drop, Attempts
<1>3. entry \in EgressRefusal
  <2>1. DOMAIN Attempts \subseteq Nat /\ Len(Attempts) \in Nat
    BY EgressFacts
  <2> QED
    BY <2>1 DEF EgressRefusal
<1> HIDE DEF entry
<1>4. eDerived \in EgressDerived /\ Append(eDerived.socketless, entry) \in Seq(EgressRefusal)
  BY <1>3, EgressFacts DEF EgressTyped, Refusals
<1>5. eDerived' \in EgressDerived
  BY <1>2, <1>4 DEF EgressDerived
<1> QED
  BY <1>2, <1>4, <1>5 DEF EgressDerived, Attempts, Refusals, entry

-----------------------------------------------------------------------------
(* Each step keeps the invariant *)

LEMMA AppendedAt ==
    ASSUME NEW S, NEW q \in Seq(S), NEW x, NEW r, r = Append(q, x)
    PROVE  /\ Len(r) = Len(q) + 1 /\ DOMAIN r = 1..(Len(q) + 1)
           /\ \A n \in 1..Len(q) : r[n] = q[n]
           /\ r[Len(q) + 1] = x
OBVIOUS

LEMMA AppendedElements ==
    ASSUME NEW S, NEW q \in Seq(S), NEW x \in S, NEW r, r = q \/ r = Append(q, x)
    PROVE  /\ \A i \in DOMAIN r : r[i] \in S
           /\ \A i \in DOMAIN r :
                 \/ i \in DOMAIN q /\ r[i] = q[i]
                 \/ i = Len(q) + 1 /\ r[i] = x
<1>1. CASE r = q
  BY <1>1
<1>2. CASE r = Append(q, x)
  <2>1. /\ DOMAIN r = 1..(Len(q) + 1) /\ DOMAIN q = 1..Len(q) /\ Len(q) \in Nat
        /\ \A n \in 1..Len(q) : r[n] = q[n] /\ q[n] \in S
        /\ r[Len(q) + 1] = x
    BY <1>2, AppendedAt
  <2> QED
    BY <2>1
<1> QED
  BY <1>1, <1>2

\* What never changes of an attempt.
AttemptsStay ==
    /\ DOMAIN Attempts \subseteq DOMAIN Attempts' /\ Len(Attempts) <= Len(Attempts')
    /\ \A n \in DOMAIN Attempts :
          /\ Attempts'[n].kind = Attempts[n].kind
          /\ Attempts'[n].probe = Attempts[n].probe
          /\ Attempts'[n].sk = Attempts[n].sk
          /\ Attempts'[n].netns = Attempts[n].netns
          /\ Attempts'[n].dest = Attempts[n].dest
          /\ Attempts'[n].len = Attempts[n].len
          /\ Attempts'[n].delegated = Attempts[n].delegated
          /\ Attempts'[n].inWindow = Attempts[n].inWindow

LEMMA OfAttemptStays ==
    ASSUME AttemptsStay, NEW n, NEW packet, OfAttempt(n, packet)
    PROVE  OfAttempt(n, packet)'
BY DEF AttemptsStay, OfAttempt, Egress!PacketOf

\* What no step takes back.
Grows ==
    /\ AttemptsStay
    /\ eDerived.crafted => eDerived'.crafted
    /\ eDerived.xsk => eDerived'.xsk
    /\ eWindow' = "before" => eWindow = "before"

LEMMA MadeStays ==
    ASSUME Grows, NEW n \in DOMAIN Attempts, AttemptMade(n),
           \/ Attempts'[n].ret = Attempts[n].ret /\ Attempts'[n].sport = Attempts[n].sport
           \/ Attempts'[n].sport = SportOf(Attempts[n].sk),
           Attempts'[n].packets = Attempts[n].packets \/ Attempts[n].netns = "host",
           \/ Attempts'[n].closed = Attempts[n].closed /\ Attempts'[n].ret = Attempts[n].ret
           \/ Attempts'[n].closed => Attempts[n].kind = "connect" /\ Attempts'[n].ret = 0
    PROVE  AttemptMade(n)'
BY DEF Grows, AttemptsStay, AttemptMade, SportOf

LEMMA MirroredStays ==
    ASSUME Grows, NEW s, CallMirrored(s),
           eCalls'[s] = eCalls[s], eDerived'.open[s] = eDerived.open[s],
           eSession'[s] = eSession[s], eCast' = eCast,
           \A n \in DOMAIN Attempts :
               Attempts[n].sk = s /\ Attempts[n].ret = Egress!NoReturn
                  => Attempts'[n].ret = Egress!NoReturn
    PROVE  CallMirrored(s)'
BY DEF Grows, AttemptsStay, CallMirrored

LEMMA AwaitedStays ==
    ASSUME Grows, NEW n \in DOMAIN Attempts, ReturnAwaited(n),
           Attempts'[n].ret = Egress!NoReturn => Attempts[n].ret = Egress!NoReturn,
           eCalls'[Attempts[n].sk] = eCalls[Attempts[n].sk],
           eDerived'.open[Attempts[n].sk] = eDerived.open[Attempts[n].sk]
    PROVE  ReturnAwaited(n)'
BY DEF Grows, AttemptsStay, ReturnAwaited

LEMMA HeldStays ==
    ASSUME Grows, NEW s, SessionHeld(s),
           eSession'[s] = eSession[s], eDerived'.sessions[s] = eDerived.sessions[s],
           \A m \in DOMAIN Attempts' : Opened(s, m)' => m \in DOMAIN Attempts /\ Opened(s, m),
           \A m \in DOMAIN Attempts : Opened(s, m) =>
               Opened(s, m)' /\ Attempts'[m].closed = Attempts[m].closed
    PROVE  SessionHeld(s)'
BY DEF Grows, AttemptsStay, SessionHeld

LEMMA InAirStays ==
    ASSUME EgressTyped, Grows, NEW p, p.by \in Int, PacketInAir(p),
           p.by > 0 => Attempts'[p.by].closed = Attempts[p.by].closed
    PROVE  PacketInAir(p)'
<1>1. Len(Attempts) \in Nat /\ Len(Attempts) <= Len(Attempts') /\ DOMAIN Attempts = 1..Len(Attempts)
  BY EgressFacts DEF Grows, AttemptsStay
<1>2. Len(Attempts') \in Nat \/ Len(Attempts') \notin Nat
  OBVIOUS
<1>3. p.by > 0 => p.by \in DOMAIN Attempts /\ p.from = Attempts'[p.by].netns
  BY <1>1 DEF PacketInAir, Grows, AttemptsStay
<1>4. ASSUME ~ eDerived'.crafted
      PROVE  /\ OfAttempt(p.by, p.packet)'
             /\ ~ Attempts'[p.by].closed
             /\ p.copies = 2 => p.packet.len # Attempts'[p.by].len
  <2>1. ~ eDerived.crafted
    BY <1>4 DEF Grows
  <2>2. OfAttempt(p.by, p.packet) /\ p.by \in DOMAIN Attempts /\ p.by > 0
    BY <1>1, <2>1 DEF PacketInAir, OfAttempt
  <2>3. Attempts'[p.by].len = Attempts[p.by].len
    BY <2>2 DEF Grows, AttemptsStay
  <2> QED
    BY <2>1, <2>2, <2>3, OfAttemptStays DEF Grows, PacketInAir
<1> QED
  BY <1>1, <1>3, <1>4 DEF PacketInAir

LEMMA RefusedStays ==
    ASSUME EgressTyped, Grows, NEW r \in EgressRefusal, PacketRefused(r),
           Len(Attempts') \in Nat
    PROVE  PacketRefused(r)'
<1>1. Len(Attempts) \in Nat /\ Len(Attempts) <= Len(Attempts') /\ r.by \in Int /\ r.place \in Nat
  BY EgressFacts DEF Grows, AttemptsStay, EgressRefusal
<1>2. r.by <= Len(Attempts') /\ r.place <= Len(Attempts')
  BY <1>1 DEF PacketRefused
<1> QED
  BY <1>2, OfAttemptStays DEF PacketRefused, Grows

\* The packets known stay known, with those that a step adds.
LEMMA KnownKeeps ==
    ASSUME EgressTyped, EgressTyped', Grows, PacketsKnown,
           \A p \in eAir' :
               \/ /\ p \in eAir
                  /\ p.by > 0 => Attempts'[p.by].closed = Attempts[p.by].closed
               \/ PacketInAir(p)',
           NEW r \in EgressRefusal,
           \/ Refusals' = Refusals
           \/ /\ Refusals' = Append(Refusals, r) /\ PacketRefused(r)'
              /\ r.place = Len(Attempts),
           \A n \in eCrossed' : n \in eCrossed \/ n <= Len(Attempts')
    PROVE  PacketsKnown'
<1>1. Len(Attempts') \in Nat /\ Len(Attempts) \in Nat /\ Len(Attempts) <= Len(Attempts')
  BY EgressFacts DEF Grows, AttemptsStay, EgressTyped, EgressDerived, Attempts
<1>2. \A p \in eAir' : PacketInAir(p)'
  <2> SUFFICES ASSUME NEW p \in eAir', p \in eAir,
                      p.by > 0 => Attempts'[p.by].closed = Attempts[p.by].closed
               PROVE  PacketInAir(p)'
    OBVIOUS
  <2>1. p.by \in Int
    BY DEF EgressTyped, EgressFlight
  <2> QED
    BY <2>1, InAirStays DEF PacketsKnown
<1>3. \A n \in eCrossed' : n <= Len(Attempts')
  <2>1. \A n \in eCrossed : n \in Int /\ n <= Len(Attempts)
    BY DEF PacketsKnown, EgressTyped
  <2> QED
    BY <1>1, <2>1
<1>4. /\ Refusals \in Seq(EgressRefusal) /\ DOMAIN Refusals = 1..Len(Refusals)
      /\ Len(Refusals) \in Nat
      /\ \A i \in DOMAIN Refusals : Refusals[i] \in EgressRefusal
  BY EgressFacts
<1>5. \A x \in EgressRefusal : PacketRefused(x) => PacketRefused(x)'
  BY <1>1, RefusedStays
<1>6. \A i \in DOMAIN Refusals : PacketRefused(Refusals[i]) /\ Refusals[i].place <= Len(Attempts)
  BY DEF PacketsKnown, PacketRefused
<1>7. /\ \A i \in DOMAIN Refusals' :
            Refusals'[i] \in EgressRefusal
      /\ \A i \in DOMAIN Refusals' :
            \/ i \in DOMAIN Refusals /\ Refusals'[i] = Refusals[i]
            \/ i = Len(Refusals) + 1 /\ Refusals'[i] = r
  <2>1. Refusals' = Refusals \/ Refusals' = Append(Refusals, r)
    OBVIOUS
  <2> QED
    BY <1>4, <2>1, AppendedElements
<1>8. \A i \in DOMAIN Refusals' : PacketRefused(Refusals[i])'
  <2> SUFFICES ASSUME NEW i \in DOMAIN Refusals'  PROVE PacketRefused(Refusals[i])'
    OBVIOUS
  <2>1. PICK x \in EgressRefusal : x = Refusals'[i]
    BY <1>7
  <2>2. PacketRefused(x)'
    <3>1. CASE i \in DOMAIN Refusals /\ Refusals'[i] = Refusals[i]
      <4>1. PacketRefused(x)
        BY <1>6, <2>1, <3>1
      <4> QED
        BY <1>5, <4>1
    <3>2. CASE i \notin DOMAIN Refusals
      BY <1>7, <2>1, <3>2
    <3> QED
      BY <1>7, <3>1, <3>2
  <2> QED
    BY <2>1, <2>2 DEF PacketRefused
<1>9. \A i, j \in DOMAIN Refusals' : i <= j => Refusals'[i].place <= Refusals'[j].place
  <2> SUFFICES ASSUME NEW i \in DOMAIN Refusals', NEW j \in DOMAIN Refusals', i <= j
               PROVE  Refusals'[i].place <= Refusals'[j].place
    OBVIOUS
  <2>1. \A k, m \in DOMAIN Refusals : k <= m => Refusals[k].place <= Refusals[m].place
    BY DEF PacketsKnown
  <2>2. r.place \in Nat /\ \A k \in DOMAIN Refusals : Refusals[k].place \in Nat
    BY <1>4 DEF EgressRefusal
  <2>3. CASE j \in DOMAIN Refusals
    BY <1>4, <1>7, <2>1, <2>3
  <2>4. CASE j \notin DOMAIN Refusals
    BY <1>4, <1>6, <1>7, <2>2, <2>4
  <2> QED
    BY <2>3, <2>4
<1> QED
  BY <1>2, <1>3, <1>8, <1>9 DEF PacketsKnown

LEMMA MadeKeeps ==
    ASSUME EgressTyped, Grows, AttemptsMade,
           \A n \in DOMAIN Attempts :
               /\ \/ Attempts'[n].ret = Attempts[n].ret /\ Attempts'[n].sport = Attempts[n].sport
                  \/ Attempts'[n].sport = SportOf(Attempts[n].sk)
               /\ Attempts'[n].packets = Attempts[n].packets \/ Attempts[n].netns = "host"
               /\ \/ /\ Attempts'[n].closed = Attempts[n].closed
                     /\ Attempts'[n].ret = Attempts[n].ret
                  \/ Attempts'[n].closed => Attempts[n].kind = "connect" /\ Attempts'[n].ret = 0,
           \A n \in DOMAIN Attempts' : n \in DOMAIN Attempts \/ AttemptMade(n)'
    PROVE  AttemptsMade'
BY MadeStays DEF AttemptsMade

LEMMA WholeStays ==
    ASSUME EgressTyped, Grows, PacketsKnown, WholeOnce, eAir' = eAir, Refusals' = Refusals,
           EgressTyped'
    PROVE  WholeOnce'
<1> SUFFICES ASSUME ~ eDerived'.crafted, NEW n \in DOMAIN Attempts', Attempts'[n].kind = "send"
             PROVE  (WholeInAir(n) /\ WholeRefused(n))'
  BY DEF WholeOnce
<1>1. CASE n \in DOMAIN Attempts
  <2>1. /\ WholeInAir(n) /\ WholeRefused(n)
        /\ Attempts'[n].len = Attempts[n].len
    BY <1>1 DEF WholeOnce, Grows, AttemptsStay
  <2> QED
    BY <2>1 DEF WholeInAir, WholeRefused
<1>2. CASE n \notin DOMAIN Attempts
  <2>1. n \in Nat /\ ~ (n <= Len(Attempts)) /\ n # 0
    <3>1. DOMAIN Attempts' \subseteq Nat \ {0}
      BY DEF EgressTyped, EgressDerived, Attempts
    <3> QED
      BY <1>2, <3>1, EgressFacts
  <2>2. /\ \A p \in eAir : p.by <= Len(Attempts)
        /\ \A i \in DOMAIN Refusals : Refusals[i].by <= Len(Attempts)
    BY DEF PacketsKnown, PacketInAir, PacketRefused
  <2> QED
    BY <2>1, <2>2 DEF WholeInAir, WholeRefused
<1> QED
  BY <1>1, <1>2

LEMMA UnseenStays ==
    ASSUME NEW n, Unseen(n),
           \A p \in eAir' : p \in eAir \/ p.by # n,
           \A i \in DOMAIN Refusals' :
               \/ i \in DOMAIN Refusals /\ Refusals'[i] = Refusals[i]
               \/ Refusals'[i].by # n,
           n \in eCrossed' => n \in eCrossed,
           Attempts'[n].packets = Attempts[n].packets
    PROVE  Unseen(n)'
BY DEF Unseen

\* The thread of an attempt is in a call whose packet is on its way, or went.
Going(n) ==
    LET s == Attempts[n].sk IN
    Len(eCalls[s]) # 0 /\ eCalls[s][1].out \in {"passed", "left"}

LEMMA SentStays ==
    ASSUME Grows, NEW n, SentWell(n),
           Attempts[n].kind = "send" => Attempts'[n].ret \in {Attempts[n].ret, 0},
           Going(n) => Going(n)' \/ Attempts'[n].ret = 0
    PROVE  SentWell(n)'
BY DEF Grows, AttemptsStay, SentWell, Going, Egress!NoReturn

LEMMA SentKeeps ==
    ASSUME EgressTyped, Grows, SentReturnsWell,
           \A n \in DOMAIN Attempts : SentWell(n) => SentWell(n)',
           \A n \in DOMAIN Attempts : n \in eCrossed /\ PassedWell(n) => PassedWell(n)',
           \A p \in eAir' :
               \/ \E q \in eAir : q.by = p.by
               \/ /\ p.by > 0 => SentWell(p.by)'
                  /\ p.by = Egress!Unsent => eDerived'.xsk,
           \A n \in eCrossed' :
               \/ n \in eCrossed
               \/ /\ n > 0 => SentWell(n)' /\ PassedWell(n)'
                  /\ n = Egress!Unsent => eDerived'.xsk,
           eWindow' # "stopped"
    PROVE  SentReturnsWell'
<1>1. /\ \A q \in eAir : q.by > 0 => SentWell(q.by)'
      /\ \A q \in eAir : q.by = Egress!Unsent => eDerived'.xsk
      /\ \A n \in eCrossed : n > 0 => SentWell(n)' /\ PassedWell(n)'
      /\ Egress!Unsent \in eCrossed => eDerived'.xsk
  <2>1. \A n : SentWell(n) => n \in DOMAIN Attempts
    BY DEF SentWell
  <2> QED
    BY <2>1 DEF SentReturnsWell, Grows
<1>2. \A p \in eAir' : p.by > 0 => SentWell(p.by)'
  <2> SUFFICES ASSUME NEW p \in eAir', p.by > 0, NEW b, b = p.by
               PROVE  SentWell(b)'
    OBVIOUS
  <2> QED
    BY <1>1
<1>3. \A p \in eAir' : p.by = Egress!Unsent => eDerived'.xsk
  BY <1>1
<1>4. \A n \in eCrossed' : n > 0 => SentWell(n)' /\ PassedWell(n)'
  BY <1>1
<1>5. Egress!Unsent \in eCrossed' => eDerived'.xsk
  BY <1>1
<1> QED
  BY <1>2, <1>3, <1>4, <1>5 DEF SentReturnsWell

LEMMA JudgedKeeps ==
    ASSUME Grows, JudgedHonestly,
           \A drop \in eDerived'.drops : drop \in eDerived.drops \/ BySender(drop)'
    PROVE  JudgedHonestly'
<1>1. \A drop : BySender(drop) => BySender(drop)'
  BY DEF BySender, Grows, AttemptsStay
<1> QED
  BY <1>1 DEF JudgedHonestly

\* Attempts a step can refer to.
LEMMA KnownAttempts ==
    ASSUME EgressTyped, PacketsKnown
    PROVE  /\ \A n \in eCrossed : n > 0 => n \in DOMAIN Attempts
           /\ \A i \in DOMAIN Refusals :
                 Refusals[i].by > 0 => Refusals[i].by \in DOMAIN Attempts
           /\ \A p \in eAir : p.by > 0 => p.by \in DOMAIN Attempts
<1>1. /\ DOMAIN Attempts = 1..Len(Attempts) /\ Len(Attempts) \in Nat
      /\ \A i \in DOMAIN Refusals : Refusals[i] \in EgressRefusal
  BY EgressFacts
<1>2. /\ \A n \in eCrossed : n \in Int
      /\ \A i \in DOMAIN Refusals : Refusals[i].by \in Int
      /\ \A p \in eAir : p.by \in Int
  BY <1>1 DEF EgressTyped, EgressRefusal, EgressFlight
<1>3. /\ \A n \in eCrossed : n <= Len(Attempts)
      /\ \A i \in DOMAIN Refusals : Refusals[i].by <= Len(Attempts)
      /\ \A p \in eAir : p.by <= Len(Attempts)
  BY DEF PacketsKnown, PacketInAir, PacketRefused
<1> QED
  BY <1>1, <1>2, <1>3

LEMMA BoundaryStays ==
    ASSUME EgressTyped, Grows, PacketsKnown, BoundaryHolds,
           eWindow' = eWindow, ePast' = ePast, Refusals' = Refusals, eCrossed' = eCrossed,
           StillSent' => StillSent \/ eWindow = "open"
    PROVE  BoundaryHolds'
<1>1. \A n \in DOMAIN Attempts :
         /\ Attempts'[n].netns = Attempts[n].netns
         /\ Attempts'[n].kind = Attempts[n].kind /\ Attempts'[n].inWindow = Attempts[n].inWindow
  BY DEF Grows, AttemptsStay
<1> QED
  BY <1>1, KnownAttempts DEF BoundaryHolds, OfWindow

\* The call a thread is in, and the attempt it makes.
LEMMA CallsTop ==
    ASSUME EgressTyped, AttemptsMade, CallsMirrored, NEW s \in EgressSocket, Len(eCalls[s]) # 0,
           NEW n, n = eDerived.open[s][1], NEW c, c = Egress!Call(s)
    PROVE  /\ n \in DOMAIN Attempts /\ n \in Nat /\ n > 0
           /\ eCalls[s][1].n = n /\ c.n = n /\ c.out = eCalls[s][1].out
           /\ Attempts[n].sk = s /\ Attempts[n].ret = Egress!NoReturn /\ ~ Attempts[n].delegated
           /\ Attempts[n].probe = EgressProbe[s] /\ Attempts[n].netns = EgressNetns[s]
           /\ Attempts[n].kind = "connect" <=> EgressProbe[s] = "tcp"
           /\ ~ Attempts[n].closed
           /\ c = eCalls[s][Len(eCalls[s])] /\ c \in EgressCall
           /\ eCalls[s][1] \in EgressCall
           /\ EgressProbe[s] # "udp" \/ EgressNetns[s] # "host" => Len(eCalls[s]) = 1
           /\ Len(eCalls[s]) = 1 =>
                 /\ c = eCalls[s][1] /\ c.probe = EgressProbe[s] /\ c.len = Attempts[n].len
                 /\ EgressProbe[s] # "pkt" => c.dest = Attempts[n].dest
           /\ s \in eCast /\ eSession[s] = "none"
<1> DEFINE stack == eCalls[s]
           o == eDerived.open[s]
<1>1. /\ stack \in Seq(EgressCall) /\ Len(stack) \in 1..2 /\ Len(o) = Len(stack)
      /\ o \in Seq(Nat) /\ \A k \in 1..Len(stack) : stack[k] \in EgressCall
  BY EgressFacts DEF CallsMirrored, CallMirrored
<1>2. \A k \in 1..Len(stack) :
             /\ o[k] \in DOMAIN Attempts
             /\ stack[k].n = n /\ stack[k].out = stack[1].out
             /\ LET a == Attempts[o[k]] IN
                /\ a.sk = s /\ a.ret = Egress!NoReturn
                /\ a.probe = stack[k].probe /\ a.len = stack[k].len
                /\ a.delegated <=> k = 2
                /\ a.probe # "pkt" => a.dest = stack[k].dest
  BY DEF CallsMirrored, CallMirrored
<1>3. s \in eCast /\ eSession[s] = "none"
  BY DEF CallsMirrored, CallMirrored
<1>4. \A m \in DOMAIN Attempts : AttemptMade(m)
  BY DEF AttemptsMade
<1>5. DOMAIN Attempts = 1..Len(Attempts) /\ Len(Attempts) \in Nat
  BY EgressFacts
<1> HIDE DEF stack, o
<1>6. c = stack[Len(stack)]
  BY <1>1, StackStart, StackEnds DEF Egress!Call, stack
<1>7. 1 \in 1..Len(stack) /\ Len(stack) \in 1..Len(stack)
  BY <1>1
<1>8. n = o[1] /\ n \in DOMAIN Attempts /\ n \in Nat /\ n > 0
  BY <1>2, <1>5, <1>7 DEF o
<1>9. ~ Attempts[n].delegated /\ Attempts[n].sk = s /\ Attempts[n].ret = Egress!NoReturn
  BY <1>2, <1>7, <1>8
<1>10. /\ Attempts[n].probe = EgressProbe[s] /\ Attempts[n].netns = EgressNetns[s]
       /\ Attempts[n].kind = "connect" <=> EgressProbe[s] = "tcp"
       /\ ~ Attempts[n].closed
  BY <1>4, <1>8, <1>9 DEF AttemptMade, Egress!NoReturn
<1>11. ASSUME Len(stack) # 1  PROVE EgressProbe[s] = "udp" /\ EgressNetns[s] = "host"
  <2>1. 2 \in 1..Len(stack)
    BY <1>1, <1>11
  <2>2. Attempts[o[2]].delegated /\ Attempts[o[2]].sk = s /\ o[2] \in DOMAIN Attempts
    BY <1>2, <2>1
  <2> QED
    BY <1>4, <2>2 DEF AttemptMade
<1>12. stack[1].n = n /\ c.n = n /\ c.out = stack[1].out /\ c \in EgressCall /\ stack[1] \in EgressCall
  BY <1>1, <1>2, <1>6, <1>7
<1>13. ASSUME Len(stack) = 1
       PROVE  /\ c = stack[1] /\ c.probe = EgressProbe[s] /\ c.len = Attempts[n].len
              /\ EgressProbe[s] # "pkt" => c.dest = Attempts[n].dest
  BY <1>2, <1>6, <1>7, <1>8, <1>10, <1>13
<1> QED
  BY <1>3, <1>6, <1>8, <1>9, <1>10, <1>11, <1>12, <1>13 DEF stack

\* A call is entered, of its own or nested in another on its socket.
EntersCall(s, probe, dest, len, c) ==
    /\ eWindow # "stopped" /\ eSession[s] = "none" /\ s \in eCast
    /\ eDerived' = Egress!Entry(eDerived, Egress!EntryOf(s, probe, dest, len))
    /\ eCalls' = [eCalls EXCEPT ![s] = Append(@, c)]
    /\ c.probe = probe /\ c.dest = dest /\ c.len = len /\ c.out = "nothing"
    /\ probe \in {"ping", "tcp", "pkt"} => len = 1
    /\ \/ /\ Len(eCalls[s]) = 0 /\ probe = EgressProbe[s] /\ c.n = Len(Attempts) + 1
       \/ /\ Len(eCalls[s]) = 1 /\ probe = "udp4" /\ c.n = eCalls[s][1].n
          /\ eCalls[s][1].out = "nothing" /\ EgressNetns[s] = "host" /\ EgressProbe[s] = "udp"
    /\ UNCHANGED <<eWindow, eAir, eSession, eCrossed, eCast, ePast>>

\* What an entry writes.
EntryMade(s, probe, dest, len, new) ==
    /\ EgressTyped' /\ Grows
    /\ Len(Attempts') = new
    /\ DOMAIN Attempts' = DOMAIN Attempts \cup {new}
    /\ new \notin DOMAIN Attempts
    /\ \A n \in DOMAIN Attempts : Attempts'[n] = Attempts[n]
    /\ Attempts'[new] = EnteredAs(s, probe, dest, len, Len(eCalls[s]) = 1)
    /\ eDerived'.open = [eDerived.open EXCEPT ![s] = Append(@, new)]
    /\ eDerived'.crafted <=> (eDerived.crafted \/ (probe = "pkt" /\ EgressNetns[s] # "host"))
    /\ eDerived'.sessions = eDerived.sessions /\ Refusals' = Refusals
    /\ eDerived'.drops = eDerived.drops /\ eDerived'.xsk = eDerived.xsk

LEMMA EntryMakes ==
    ASSUME EgressInv, NEW s \in EgressSocket,
           NEW probe \in {"udp", "ping", "tcp", "pkt", "udp4"}, NEW dest \in EgressDest,
           NEW len \in Nat, NEW c \in EgressCall, EntersCall(s, probe, dest, len, c),
           NEW new \in Nat, new = Len(Attempts) + 1
    PROVE  EntryMade(s, probe, dest, len, new)
<1> USE DEF EgressInv
<1> DEFINE at == EnteredAs(s, probe, dest, len, Len(eCalls[s]) = 1)
<1>1. eDerived' = Egress!Entry(eDerived, Egress!EntryOf(s, probe, dest, len))
  BY DEF EntersCall
<1>2. (Egress!Top(eDerived.open[s]) # 0) = (Len(eCalls[s]) = 1)
  <2>1. /\ eDerived.open[s] \in Seq(Nat) /\ Len(eCalls[s]) \in 0..1
        /\ Len(eDerived.open[s]) = Len(eCalls[s])
        /\ \A k \in 1..Len(eCalls[s]) : eDerived.open[s][k] \in DOMAIN Attempts
    <3>1. Len(eCalls[s]) \in 0..1
      BY DEF EntersCall
    <3>2. CallMirrored(s)
      BY DEF CallsMirrored
    <3> QED
      BY <3>1, <3>2, EgressFacts DEF CallMirrored
  <2>2. 0 \notin DOMAIN Attempts
    BY EgressFacts
  <2>3. CASE Len(eCalls[s]) = 0
    <3>1. eDerived.open[s] = <<>>
      BY <2>1, <2>3
    <3> QED
      BY <2>3, <3>1 DEF Egress!Top
  <2>4. CASE Len(eCalls[s]) = 1
    <3>1. eDerived.open[s] # <<>>
      BY <2>1, <2>4, StackStart
    <3>5. Len(eDerived.open[s]) = 1
      BY <2>1, <2>4
    <3>6. Egress!Last(eDerived.open[s]) = eDerived.open[s][Len(eDerived.open[s])]
      BY <2>1, <3>1, StackEnds
    <3>2. Egress!Last(eDerived.open[s]) = eDerived.open[s][1]
      BY <3>5, <3>6
    <3>4. Egress!Top(eDerived.open[s]) = eDerived.open[s][1]
      BY <3>1, <3>2 DEF Egress!Top
    <3>3. eDerived.open[s][1] \in DOMAIN Attempts
      BY <2>1, <2>4
    <3> QED
      BY <2>2, <2>4, <3>3, <3>4
  <2> QED
    BY <2>1, <2>3, <2>4
<1>3. /\ eDerived' \in EgressDerived
      /\ Attempts' = Append(Attempts, at)
      /\ eDerived'.open = [eDerived.open EXCEPT ![s] = Append(@, Len(Attempts) + 1)]
      /\ eDerived'.crafted <=> (eDerived.crafted \/ (probe = "pkt" /\ EgressNetns[s] # "host"))
      /\ eDerived'.sessions = eDerived.sessions /\ Refusals' = Refusals
      /\ eDerived'.drops = eDerived.drops /\ eDerived'.xsk = eDerived.xsk
  <2>1. EnteredAs(s, probe, dest, len, Egress!Top(eDerived.open[s]) # 0) = at
    BY <1>2, Zenon
  <2>2. /\ eDerived' \in EgressDerived
        /\ Attempts' = Append(Attempts, EnteredAs(s, probe, dest, len,
                                              Egress!Top(eDerived.open[s]) # 0))
        /\ eDerived'.open = [eDerived.open EXCEPT ![s] = Append(@, Len(Attempts) + 1)]
        /\ eDerived'.crafted <=> (eDerived.crafted \/ (probe = "pkt" /\ EgressNetns[s] # "host"))
        /\ eDerived'.sessions = eDerived.sessions /\ Refusals' = Refusals
        /\ eDerived'.drops = eDerived.drops /\ eDerived'.xsk = eDerived.xsk
    BY <1>1, EntryFields
  <2> QED
    BY <2>1, <2>2, Zenon
<1> HIDE DEF at
<1>4. /\ Len(Attempts) \in Nat /\ DOMAIN Attempts = 1..Len(Attempts)
      /\ Attempts \in Seq(EgressAttempt)
  BY EgressFacts
<1>5. /\ Len(Attempts') = Len(Attempts) + 1 /\ DOMAIN Attempts' = 1..(Len(Attempts) + 1)
      /\ \A n \in 1..Len(Attempts) : Attempts'[n] = Attempts[n]
      /\ Attempts'[Len(Attempts) + 1] = at
  BY <1>3, <1>4, AppendedAt
<1>6. EgressTyped'
  <2>1. eCalls \in [EgressSocket -> Seq(EgressCall)]
    BY DEF EgressTyped
  <2>2. eCalls' = [eCalls EXCEPT ![s] = Append(@, c)]
    BY DEF EntersCall
  <2>3. eCalls' \in [EgressSocket -> Seq(EgressCall)]
    BY <2>1, <2>2
  <2> QED
    BY <1>3, <2>3 DEF EgressTyped, EntersCall
<1>7. Grows
  <2>1. (eDerived.crafted => eDerived'.crafted) /\ (eDerived.xsk => eDerived'.xsk)
    BY <1>3, Zenon
  <2>2. AttemptsStay
    BY <1>4, <1>5 DEF AttemptsStay
  <2> QED
    BY <2>1, <2>2 DEF Grows, EntersCall
<1> QED
  BY <1>3, <1>4, <1>5, <1>6, <1>7 DEF at, EntryMade

LEMMA EntryKeeps ==
    ASSUME EgressInv, NEW s \in EgressSocket,
           NEW probe \in {"udp", "ping", "tcp", "pkt", "udp4"}, NEW dest \in EgressDest,
           NEW len \in Nat, NEW c \in EgressCall, EntersCall(s, probe, dest, len, c)
    PROVE  EgressInv'
<1>0. PICK new \in Nat : new = Len(Attempts) + 1
  BY EgressFacts DEF EgressInv
<1> DEFINE at == EnteredAs(s, probe, dest, len, Len(eCalls[s]) = 1)
<1>1. /\ EgressTyped' /\ Grows
      /\ Len(Attempts') = new
      /\ DOMAIN Attempts' = DOMAIN Attempts \cup {new}
      /\ new \notin DOMAIN Attempts
      /\ \A n \in DOMAIN Attempts : Attempts'[n] = Attempts[n]
      /\ Attempts'[new] = at
      /\ eDerived'.open = [eDerived.open EXCEPT ![s] = Append(@, new)]
      /\ eDerived'.crafted <=> (eDerived.crafted \/ (probe = "pkt" /\ EgressNetns[s] # "host"))
      /\ eDerived'.sessions = eDerived.sessions /\ Refusals' = Refusals
      /\ eDerived'.drops = eDerived.drops /\ eDerived'.xsk = eDerived.xsk
  <2>1. EntryMade(s, probe, dest, len, new)
    BY <1>0, EntryMakes
  <2> QED
    BY <2>1 DEF EntryMade
<1> USE DEF EgressInv
<1>2. /\ Len(Attempts) \in Nat /\ DOMAIN Attempts = 1..Len(Attempts)
      /\ new \in Nat /\ new # 0 /\ ~ (new <= Len(Attempts))
  BY <1>0, EgressFacts
<1>3. /\ at.sk = s /\ at.ret = Egress!NoReturn /\ at.probe = probe /\ at.len = len
      /\ at.netns = EgressNetns[s] /\ at.packets = 0 /\ (at.inWindow <=> eWindow = "open")
      /\ at.kind = (IF probe = "tcp" THEN "connect" ELSE "send")
      /\ (at.delegated <=> Len(eCalls[s]) = 1)
      /\ at.dest = (IF probe = "pkt" THEN Egress!None ELSE dest) /\ at.closed = FALSE
  BY DEF EnteredAs
<1> HIDE DEF at
<1>4. UNCHANGED <<eWindow, eAir, eSession, eCrossed, eCast, ePast>>
  BY DEF EntersCall
<1>5. /\ eCalls'[s] = Append(eCalls[s], c)
      /\ \A t \in EgressSocket \ {s} : eCalls'[t] = eCalls[t]
  BY DEF EntersCall, EgressTyped
<1>6. /\ eDerived'.open[s] = Append(eDerived.open[s], new)
      /\ \A t \in EgressSocket \ {s} : eDerived'.open[t] = eDerived.open[t]
  BY <1>1, EgressFacts
<1>7. /\ eCalls[s] \in Seq(EgressCall) /\ eDerived.open[s] \in Seq(Nat)
      /\ Len(eCalls[s]) \in 0..1 /\ Len(eDerived.open[s]) = Len(eCalls[s])
  BY EgressFacts DEF EntersCall, CallsMirrored, CallMirrored
<1>8. /\ Len(eCalls'[s]) = Len(eCalls[s]) + 1 /\ Len(eDerived'.open[s]) = Len(eCalls[s]) + 1
      /\ \A k \in 1..Len(eCalls[s]) : /\ eCalls'[s][k] = eCalls[s][k]
                                      /\ eDerived'.open[s][k] = eDerived.open[s][k]
      /\ eCalls'[s][Len(eCalls[s]) + 1] = c /\ eDerived'.open[s][Len(eCalls[s]) + 1] = new
  BY <1>5, <1>6, <1>7, AppendedAt
<1>9. AttemptsMade'
  <2>1. AttemptMade(new)'
    <3>1. probe = "udp4" => EgressNetns[s] = "host" /\ EgressProbe[s] = "udp" /\ Len(eCalls[s]) = 1
      BY EgressAssumed DEF EntersCall
    <3>2. probe # "udp4" => probe = EgressProbe[s] /\ Len(eCalls[s]) = 0
      BY DEF EntersCall
    <3>3. eDerived'.crafted \/ probe # "pkt"
      BY <1>1, <3>2, EgressAssumed
    <3>4. probe \in {"ping", "tcp", "pkt"} => len = 1
      BY DEF EntersCall
    <3>5. (probe = "udp4") <=> at.delegated
      <4>1. at.delegated <=> Len(eCalls[s]) = 1
        BY <1>3, Zenon
      <4>2. probe = "udp4" <=> Len(eCalls[s]) = 1
        BY <3>1, <3>2, EgressAssumed
      <4> QED
        BY <4>1, <4>2, Zenon
    <3> QED
      BY <1>1, <1>3, <1>4, <3>1, <3>2, <3>3, <3>4, <3>5 DEF AttemptMade
  <2> QED
    BY <1>1, <2>1, MadeKeeps
<1>10. \A t \in EgressSocket : CallMirrored(t)'
  <2>1. ASSUME NEW t \in EgressSocket, t # s  PROVE CallMirrored(t)'
    BY <1>1, <1>4, <1>5, <1>6, <2>1, MirroredStays DEF CallsMirrored
  <2>2. CallMirrored(s)'
    <3>1. CASE Len(eCalls[s]) = 0
      <4>1. /\ Len(eCalls'[s]) = 1 /\ Len(eDerived'.open[s]) = 1
            /\ eCalls'[s][1] = c /\ eDerived'.open[s][1] = new
        BY <1>8, <3>1
      <4>2. /\ c.n = new /\ c.probe = probe /\ c.len = len /\ c.dest = dest /\ s \in eCast
            /\ eSession[s] = "none"
        BY <1>0, <3>1 DEF EntersCall
      <4> QED
        BY <1>1, <1>3, <1>4, <3>1, <4>1, <4>2 DEF CallMirrored
    <3>2. CASE Len(eCalls[s]) = 1
      <4>1. /\ Len(eCalls'[s]) = 2 /\ Len(eDerived'.open[s]) = 2
            /\ eCalls'[s][1] = eCalls[s][1] /\ eDerived'.open[s][1] = eDerived.open[s][1]
            /\ eCalls'[s][2] = c /\ eDerived'.open[s][2] = new
        BY <1>8, <3>2
      <4>2. /\ c.n = eCalls[s][1].n /\ c.probe = probe /\ c.len = len /\ c.dest = dest
            /\ s \in eCast /\ c.out = eCalls[s][1].out /\ eSession[s] = "none"
        BY <3>2 DEF EntersCall
      <4>3. /\ eDerived.open[s][1] \in DOMAIN Attempts
            /\ eCalls[s][1].n = eDerived.open[s][1]
            /\ LET a == Attempts[eDerived.open[s][1]] IN
               /\ a.sk = s /\ a.ret = Egress!NoReturn
               /\ a.probe = eCalls[s][1].probe /\ a.len = eCalls[s][1].len
               /\ ~ a.delegated
               /\ a.probe # "pkt" => a.dest = eCalls[s][1].dest
        BY <3>2 DEF CallsMirrored, CallMirrored
      <4>4. \A k \in 1..2 : k = 1 \/ k = 2
        OBVIOUS
      <4> QED
        BY <1>1, <1>3, <1>4, <3>2, <4>1, <4>2, <4>3, <4>4 DEF CallMirrored
    <3> QED
      BY <1>7, <3>1, <3>2
  <2> QED
    BY <2>1, <2>2
<1>11. \A n \in DOMAIN Attempts' : ReturnAwaited(n)'
  <2> SUFFICES ASSUME NEW n \in DOMAIN Attempts'  PROVE ReturnAwaited(n)'
    OBVIOUS
  <2>1. CASE n = new
    <3>1. Len(eCalls[s]) + 1 \in 1..Len(eCalls'[s])
      BY <1>7, <1>8
    <3>2. Attempts'[n].sk = s /\ eDerived'.open[s][Len(eCalls[s]) + 1] = n
      BY <1>1, <1>3, <1>8, <2>1
    <3> QED
      BY <3>1, <3>2 DEF ReturnAwaited
  <2>2. CASE n \in DOMAIN Attempts /\ Attempts[n].sk # s
    <3>1. Attempts[n].sk \in EgressSocket
      BY <2>2, EgressFacts DEF EgressAttempt
    <3> QED
      BY <1>1, <1>5, <1>6, <2>2, <3>1, AwaitedStays DEF CallsMirrored
  <2>3. CASE n \in DOMAIN Attempts /\ Attempts[n].sk = s
    <3>1. ReturnAwaited(n) /\ Attempts'[n] = Attempts[n]
      BY <1>1, <2>3 DEF CallsMirrored
    <3>2. 1..Len(eCalls[s]) \subseteq 1..Len(eCalls'[s])
      BY <1>7, <1>8
    <3> QED
      BY <1>8, <2>3, <3>1, <3>2 DEF ReturnAwaited
  <2> QED
    BY <1>1, <2>1, <2>2, <2>3
<1>12. SessionsHeld'
  <2> SUFFICES ASSUME NEW t \in EgressSocket  PROVE SessionHeld(t)'
    BY DEF SessionsHeld
  <2>1. \A m \in DOMAIN Attempts' : Opened(t, m)' => m \in DOMAIN Attempts /\ Opened(t, m)
    BY <1>1, <1>3 DEF Opened, Egress!NoReturn
  <2>2. \A m \in DOMAIN Attempts : Opened(t, m) =>
               Opened(t, m)' /\ Attempts'[m].closed = Attempts[m].closed
    BY <1>1 DEF Opened
  <2> QED
    BY <1>1, <1>4, <2>1, <2>2, HeldStays DEF SessionsHeld
<1>13. PacketsKnown'
  <2>1. \A p \in eAir' : p \in eAir /\ (p.by > 0 => Attempts'[p.by].closed = Attempts[p.by].closed)
    BY <1>1, <1>4, KnownAttempts
  <2>2. PICK r : r \in EgressRefusal
    <3>1. EgressHome # {} /\ EgressSport # {}
      BY DEF EgressHome, EgressSport
    <3>2. PICK h \in EgressHome, k \in EgressSport : TRUE
      BY <3>1
    <3>3. [packet |-> [proto |-> "udp", src |-> h, dst |-> "host", sport |-> k, len |-> 0],
           by |-> 0, place |-> 0, closed |-> {}] \in EgressRefusal
      BY DEF EgressRefusal, EgressPacket
    <3> QED
      BY <3>3
  <2> QED
    BY <1>1, <1>4, <2>1, <2>2, KnownKeeps
<1>14. WholeOnce'
  BY <1>1, <1>4, WholeStays
<1>15. FreshUnseen'
  <2> SUFFICES ASSUME NEW t \in EgressSocket, Len(eCalls'[t]) # 0, eCalls'[t][1].out = "nothing",
                      NEW n, n = eCalls'[t][1].n
               PROVE  Unseen(n)'
    BY DEF FreshUnseen, Unseen
  <2>1. CASE Len(eCalls[t]) # 0
    <3>1. eCalls'[t][1] = eCalls[t][1]
      BY <1>5, <1>7, <1>8, <2>1
    <3>2. Unseen(n)
      BY <2>1, <3>1 DEF FreshUnseen
    <3>3. n \in DOMAIN Attempts
      BY <2>1, <3>1, CallsTop
    <3> QED
      BY <1>1, <1>4, <3>2, <3>3, UnseenStays
  <2>2. CASE Len(eCalls[t]) = 0
    <3>1. t = s
      BY <1>5, <2>2
    <3>2. n = new
      BY <1>0, <1>8, <2>2, <3>1 DEF EntersCall
    <3>3. /\ \A p \in eAir : p.by <= Len(Attempts)
          /\ \A i \in DOMAIN Refusals : Refusals[i].by <= Len(Attempts)
          /\ \A m \in eCrossed : m <= Len(Attempts)
      BY DEF PacketsKnown, PacketInAir, PacketRefused
    <3> QED
      BY <1>1, <1>2, <1>3, <1>4, <3>2, <3>3 DEF Unseen
  <2> QED
    BY <2>1, <2>2
<1>16. SentReturnsWell'
  <2>1. \A n \in DOMAIN Attempts : SentWell(n) => SentWell(n)'
    <3> SUFFICES ASSUME NEW n \in DOMAIN Attempts, SentWell(n)  PROVE SentWell(n)'
      OBVIOUS
    <3>1. Attempts[n].sk \in EgressSocket /\ Attempts'[n] = Attempts[n]
      BY <1>1, EgressFacts DEF EgressAttempt
    <3>2. Going(n) => Going(n)'
      <4> SUFFICES ASSUME Going(n), NEW t \in EgressSocket, t = Attempts[n].sk
                   PROVE  Len(eCalls'[t]) # 0 /\ eCalls'[t][1].out \in {"passed", "left"}
        BY <3>1 DEF Going
      <4>1. CASE t # s
        BY <1>5, <4>1 DEF Going
      <4>2. CASE t = s
        BY <1>7, <1>8, <4>2 DEF Going
      <4> QED
        BY <4>1, <4>2
    <3> QED
      BY <1>1, <3>1, <3>2, SentStays
  <2>2. \A n \in DOMAIN Attempts : PassedWell(n) => PassedWell(n)'
    BY <1>1 DEF PassedWell
  <2>3. eWindow' # "stopped"
    BY <1>4 DEF EntersCall
  <2> QED
    BY <1>1, <1>4, <2>1, <2>2, <2>3, SentKeeps
<1>17. BoundaryHolds'
  <2>1. StillSent' => StillSent \/ eWindow = "open"
    <3>1. \A p \in eAir : p.by > 0 => p.by \in DOMAIN Attempts
      BY KnownAttempts
    <3> QED
      BY <1>1, <1>3, <1>4, <3>1 DEF StillSent, OfWindow
  <2> QED
    BY <1>1, <1>4, <2>1, BoundaryStays
<1>18. JudgedHonestly'
  BY <1>1, JudgedKeeps
<1> QED
  BY <1>1, <1>9, <1>10, <1>11, <1>12, <1>13, <1>14, <1>15, <1>16, <1>17, <1>18
     DEF CallsMirrored

\* No attempt is entered, and none returns.
NoneReturns ==
    /\ DOMAIN Attempts' = DOMAIN Attempts
    /\ \A n \in DOMAIN Attempts :
          /\ Attempts'[n].ret = Attempts[n].ret
          /\ Attempts'[n].sport = Attempts[n].sport

\* The threads stay in the calls they are in; what came of them may change.
CallsStay ==
    \A s \in EgressSocket :
        /\ Len(eCalls'[s]) = Len(eCalls[s])
        /\ \A k \in 1..Len(eCalls[s]) :
              /\ eCalls'[s][k].n = eCalls[s][k].n /\ eCalls'[s][k].probe = eCalls[s][k].probe
              /\ eCalls'[s][k].dest = eCalls[s][k].dest /\ eCalls'[s][k].len = eCalls[s][k].len
              /\ eCalls'[s][k].out = eCalls'[s][1].out

LEMMA CallsKept ==
    ASSUME EgressTyped, Grows, CallsMirrored, NoneReturns, CallsStay,
           eDerived'.open = eDerived.open, eSession' = eSession, eCast' = eCast
    PROVE  CallsMirrored'
<1>1. ASSUME NEW s \in EgressSocket  PROVE CallMirrored(s)'
  <2>1. CallMirrored(s)
    BY DEF CallsMirrored
  <2>2. /\ Len(eCalls'[s]) = Len(eCalls[s])
        /\ \A k \in 1..Len(eCalls[s]) :
              /\ eCalls'[s][k].n = eCalls[s][k].n /\ eCalls'[s][k].probe = eCalls[s][k].probe
              /\ eCalls'[s][k].dest = eCalls[s][k].dest /\ eCalls'[s][k].len = eCalls[s][k].len
              /\ eCalls'[s][k].out = eCalls'[s][1].out
    BY DEF CallsStay
  <2>3. /\ DOMAIN Attempts' = DOMAIN Attempts
        /\ \A n \in DOMAIN Attempts :
             /\ Attempts'[n].ret = Attempts[n].ret /\ Attempts'[n].sk = Attempts[n].sk
             /\ Attempts'[n].probe = Attempts[n].probe /\ Attempts'[n].len = Attempts[n].len
             /\ Attempts'[n].delegated = Attempts[n].delegated
             /\ Attempts'[n].dest = Attempts[n].dest
    BY DEF NoneReturns, Grows, AttemptsStay
  <2>4. /\ eDerived'.open = eDerived.open /\ eSession' = eSession /\ eCast' = eCast
    OBVIOUS
  <2>5. /\ Len(eCalls'[s]) \in 0..2 /\ Len(eDerived'.open[s]) = Len(eCalls'[s])
        /\ Len(eCalls'[s]) # 0 => s \in eCast' /\ eSession'[s] = "none"
    BY ONLY <2>1, <2>2, <2>4 DEF CallMirrored
  <2>6. ASSUME NEW k \in 1..Len(eCalls'[s])
        PROVE  LET o == eDerived'.open[s]
                   c == eCalls'[s]
                   a == Attempts'[o[k]]
               IN /\ o[k] \in DOMAIN Attempts'
                  /\ c[k].n = o[1] /\ c[k].out = c[1].out
                  /\ a.sk = s /\ a.ret = Egress!NoReturn
                  /\ a.probe = c[k].probe /\ a.len = c[k].len
                  /\ a.delegated <=> k = 2
                  /\ a.probe # "pkt" => a.dest = c[k].dest
    <3>1. k \in 1..Len(eCalls[s])
      BY ONLY <2>2, <2>6
    <3> QED
      BY ONLY <2>1, <2>2, <2>3, <2>4, <3>1 DEF CallMirrored
  <2> QED
    BY ONLY <2>5, <2>6 DEF CallMirrored
<1>2. ASSUME NEW n \in DOMAIN Attempts'  PROVE ReturnAwaited(n)'
  <2>1. n \in DOMAIN Attempts /\ ReturnAwaited(n) /\ Attempts[n].sk \in EgressSocket
    BY <1>2, EgressFacts DEF NoneReturns, CallsMirrored, EgressAttempt
  <2>2. Attempts'[n].ret = Attempts[n].ret /\ Attempts'[n].sk = Attempts[n].sk
    BY <2>1 DEF NoneReturns, Grows, AttemptsStay
  <2>3. Len(eCalls'[Attempts[n].sk]) = Len(eCalls[Attempts[n].sk])
    BY <2>1 DEF CallsStay
  <2> QED
    BY <2>1, <2>2, <2>3 DEF ReturnAwaited
<1> QED
  BY <1>1, <1>2 DEF CallsMirrored

LEMMA HeldKept ==
    ASSUME EgressTyped, Grows, SessionsHeld, NoneReturns,
           \A n \in DOMAIN Attempts : Attempts'[n].closed = Attempts[n].closed,
           eDerived'.sessions = eDerived.sessions, eSession' = eSession
    PROVE  SessionsHeld'
<1> SUFFICES ASSUME NEW s \in EgressSocket  PROVE SessionHeld(s)'
  BY DEF SessionsHeld
<1>1. /\ \A m \in DOMAIN Attempts' : Opened(s, m)' => m \in DOMAIN Attempts /\ Opened(s, m)
      /\ \A m \in DOMAIN Attempts : Opened(s, m) =>
               Opened(s, m)' /\ Attempts'[m].closed = Attempts[m].closed
  BY DEF NoneReturns, Grows, AttemptsStay, Opened
<1> QED
  BY <1>1, HeldStays DEF SessionsHeld

\* In the window a packet gets past a boundary that lets all of its namespace past.
LEMMA BoundaryCrosses ==
    ASSUME EgressTyped, Grows, PacketsKnown, BoundaryHolds, NEW n,
           eWindow = "open", n > 0 => n \in DOMAIN Attempts /\ Attempts[n].netns \in ePast,
           eCrossed' = eCrossed \cup {n},
           eWindow' = eWindow, ePast' = ePast, Refusals' = Refusals
    PROVE  BoundaryHolds'
<1>1. \A m \in DOMAIN Attempts :
         /\ Attempts'[m].netns = Attempts[m].netns
         /\ Attempts'[m].kind = Attempts[m].kind /\ Attempts'[m].inWindow = Attempts[m].inWindow
  BY DEF Grows, AttemptsStay
<1>2. \A i \in DOMAIN Refusals :
         Refusals[i].by > 0 /\ OfWindow(Refusals[i].by) =>
            Attempts[Refusals[i].by].netns \notin ePast
  BY DEF BoundaryHolds
<1>3. \A m \in eCrossed' : m > 0 => m \in DOMAIN Attempts /\ Attempts[m].netns \in ePast
  BY KnownAttempts DEF BoundaryHolds
<1> QED
  BY <1>1, <1>2, <1>3, KnownAttempts DEF BoundaryHolds, OfWindow

LEMMA BecomesFields ==
    ASSUME EgressTyped, AttemptsMade, CallsMirrored, NEW s \in EgressSocket,
           Len(eCalls[s]) # 0, NEW out \in {"nothing", "left", "passed", "refused"},
           Egress!Becomes(s, out)
    PROVE  /\ eCalls' \in [EgressSocket -> Seq(EgressCall)]
           /\ CallsStay
           /\ \A t \in EgressSocket \ {s} : eCalls'[t] = eCalls[t]
           /\ eCalls'[s][1].out = out
<1>1. eCalls \in [EgressSocket -> Seq(EgressCall)] /\ eCalls[s] \in Seq(EgressCall)
  BY DEF EgressTyped
<1> DEFINE q == [k \in DOMAIN eCalls[s] |-> [eCalls[s][k] EXCEPT !.out = out]]
<1>2. eCalls' = [eCalls EXCEPT ![s] = q]
  BY DEF Egress!Becomes
<1>3. DOMAIN eCalls[s] = 1..Len(eCalls[s]) /\ Len(eCalls[s]) \in Nat
  BY <1>1
<1>4. \A k \in 1..Len(eCalls[s]) :
         LET x == [eCalls[s][k] EXCEPT !.out = out] IN
         /\ x \in EgressCall /\ x.out = out /\ x.n = eCalls[s][k].n
         /\ x.probe = eCalls[s][k].probe /\ x.dest = eCalls[s][k].dest
         /\ x.len = eCalls[s][k].len
  <2> SUFFICES ASSUME NEW k \in 1..Len(eCalls[s]),
                      NEW x, x = [eCalls[s][k] EXCEPT !.out = out]
               PROVE  /\ x \in EgressCall /\ x.out = out /\ x.n = eCalls[s][k].n
                      /\ x.probe = eCalls[s][k].probe /\ x.dest = eCalls[s][k].dest
                      /\ x.len = eCalls[s][k].len
    OBVIOUS
  <2>1. eCalls[s][k] \in EgressCall
    BY <1>1
  <2> QED
    BY <2>1 DEF EgressCall
<1>5. q \in Seq(EgressCall) /\ Len(q) = Len(eCalls[s])
  <2>1. q \in [1..Len(eCalls[s]) -> EgressCall]
    BY <1>3, <1>4
  <2> HIDE DEF q
  <2> QED
    BY <1>3, <2>1
<1>6. \A k \in 1..Len(eCalls[s]) :
         /\ q[k].out = out /\ q[k].n = eCalls[s][k].n /\ q[k].probe = eCalls[s][k].probe
         /\ q[k].dest = eCalls[s][k].dest /\ q[k].len = eCalls[s][k].len
  BY <1>3, <1>4
<1> HIDE DEF q
<1>7. eCalls' \in [EgressSocket -> Seq(EgressCall)]
  BY <1>1, <1>2, <1>5
<1>8. eCalls'[s] = q /\ \A t \in EgressSocket \ {s} : eCalls'[t] = eCalls[t]
  BY <1>1, <1>2
<1>9. q[1].out = out
  BY <1>3, <1>6
<1>10. CallsStay
  <2> SUFFICES ASSUME NEW t \in EgressSocket
               PROVE  /\ Len(eCalls'[t]) = Len(eCalls[t])
                      /\ \A k \in 1..Len(eCalls[t]) :
                            /\ eCalls'[t][k].n = eCalls[t][k].n
                            /\ eCalls'[t][k].probe = eCalls[t][k].probe
                            /\ eCalls'[t][k].dest = eCalls[t][k].dest
                            /\ eCalls'[t][k].len = eCalls[t][k].len
                            /\ eCalls'[t][k].out = eCalls'[t][1].out
    BY DEF CallsStay
  <2>1. CASE t = s
    BY <1>5, <1>6, <1>8, <1>9, <2>1
  <2>2. CASE t # s
    BY <1>8, <2>2 DEF CallsMirrored, CallMirrored
  <2> QED
    BY <2>1, <2>2
<1> QED
  BY <1>7, <1>8, <1>9, <1>10

LEMMA CallsUnchanged ==
    ASSUME CallsMirrored, eCalls' = eCalls
    PROVE  CallsStay
BY DEF CallsStay, CallsMirrored, CallMirrored

LEMMA SomeRefusal == EgressRefusal # {}
<1>1. EgressHome # {} /\ EgressSport # {}
  BY DEF EgressHome, EgressSport
<1>2. PICK h \in EgressHome, k \in EgressSport : TRUE
  BY <1>1
<1>3. [packet |-> [proto |-> "udp", src |-> h, dst |-> "host", sport |-> k, len |-> 0],
       by |-> 0, place |-> 0, closed |-> {}] \in EgressRefusal
  BY <1>2 DEF EgressRefusal, EgressPacket
<1> QED
  BY <1>3

\* What changes at most when a packet of the host's meets the boundary.
HostMeets(n) ==
    /\ eDerived' \in EgressDerived /\ eDerived'.open = eDerived.open
    /\ eDerived'.sessions = eDerived.sessions /\ Refusals' = Refusals
    /\ Grows /\ NoneReturns
    /\ \A m \in DOMAIN Attempts :
          /\ Attempts'[m].closed = Attempts[m].closed
          /\ m # n \/ Attempts[n].netns # "host" => Attempts'[m].packets = Attempts[m].packets
    /\ eWindow # "stopped"
    /\ UNCHANGED <<eWindow, eAir, eSession, eCast, ePast>>
    /\ \A drop \in eDerived'.drops : drop \in eDerived.drops \/ BySender(drop)'

LEMMA HostMeetsKeeps ==
    ASSUME EgressInv, NEW n \in DOMAIN Attempts, HostMeets(n),
           eCalls' \in [EgressSocket -> Seq(EgressCall)], CallsStay,
           \A m \in DOMAIN Attempts : Going(m) => Going(m)',
           \A t \in EgressSocket :
               Len(eCalls[t]) # 0 /\ eCalls'[t][1].out = "nothing" =>
                   eCalls[t][1].out = "nothing" /\ eCalls[t][1].n # n,
           \/ eCrossed' = eCrossed /\ (n \in eCrossed /\ PassedWell(n) => PassedWell(n)')
           \/ /\ eWindow = "open" /\ eCrossed' = eCrossed \cup {n}
              /\ SentWell(n)' /\ PassedWell(n)' /\ Attempts[n].netns \in ePast
    PROVE  EgressInv'
<1> USE DEF EgressInv
<1>1. /\ Grows /\ NoneReturns /\ Refusals' = Refusals /\ eDerived' \in EgressDerived
      /\ eDerived'.open = eDerived.open /\ eDerived'.sessions = eDerived.sessions
      /\ UNCHANGED <<eWindow, eAir, eSession, eCast, ePast>>
      /\ DOMAIN Attempts' = DOMAIN Attempts
  BY DEF HostMeets, NoneReturns
<1>2. /\ \A m \in DOMAIN Attempts : Attempts'[m].closed = Attempts[m].closed
      /\ \A m \in DOMAIN Attempts :
             m # n \/ Attempts[n].netns # "host" => Attempts'[m].packets = Attempts[m].packets
  BY DEF HostMeets
<1>3. n \in Nat /\ n > 0 /\ n <= Len(Attempts) /\ Len(Attempts) = Len(Attempts')
  <2>1. Len(Attempts') \in Nat /\ DOMAIN Attempts' = 1..Len(Attempts')
    BY <1>1 DEF EgressDerived, Attempts
  <2> QED
    BY <1>1, <2>1, EgressFacts
<1>4. EgressTyped'
  BY <1>1, <1>3 DEF EgressTyped
<1>5. AttemptsMade'
  BY <1>1, <1>2, MadeKeeps DEF NoneReturns
<1>6. CallsMirrored'
  BY <1>1, CallsKept
<1>7. SessionsHeld'
  BY <1>1, <1>2, HeldKept
<1>8. PacketsKnown'
  <2>1. PICK r \in EgressRefusal : TRUE
    BY SomeRefusal
  <2>2. \A p \in eAir' : p \in eAir /\ (p.by > 0 => Attempts'[p.by].closed = Attempts[p.by].closed)
    BY <1>1, <1>2, KnownAttempts
  <2>3. \A m \in eCrossed' : m \in eCrossed \/ m <= Len(Attempts')
    BY <1>3
  <2> QED
    BY <1>1, <1>4, <2>1, <2>2, <2>3, KnownKeeps
<1>9. WholeOnce'
  BY <1>1, <1>4, WholeStays
<1>10. FreshUnseen'
  <2> SUFFICES ASSUME NEW t \in EgressSocket, Len(eCalls'[t]) # 0, eCalls'[t][1].out = "nothing",
                      NEW m, m = eCalls'[t][1].n
               PROVE  Unseen(m)'
    BY DEF FreshUnseen, Unseen
  <2>1. Len(eCalls[t]) # 0 /\ 1 \in 1..Len(eCalls[t]) /\ m = eCalls[t][1].n
    BY EgressFacts DEF CallsStay
  <2>2. m # n /\ eCalls[t][1].out = "nothing"
    BY <2>1
  <2>3. Unseen(m) /\ m \in DOMAIN Attempts
    BY <2>1, <2>2, CallsTop DEF FreshUnseen
  <2> QED
    BY <1>1, <1>2, <2>2, <2>3, UnseenStays
<1>11. SentReturnsWell'
  <2>1. \A m \in DOMAIN Attempts : SentWell(m) => SentWell(m)'
    BY <1>1, SentStays DEF NoneReturns
  <2>2. \A m \in DOMAIN Attempts : m \in eCrossed /\ PassedWell(m) => PassedWell(m)'
    <3> SUFFICES ASSUME NEW m \in DOMAIN Attempts, m \in eCrossed, PassedWell(m)
                 PROVE  PassedWell(m)'
      OBVIOUS
    <3>1. CASE m = n
      BY <3>1
    <3>2. CASE m # n
      BY <1>1, <1>2, <3>2 DEF PassedWell, Grows, AttemptsStay
    <3> QED
      BY <3>1, <3>2
  <2>3. eWindow' # "stopped"
    BY DEF HostMeets
  <2>4. \A m \in eCrossed' : m \in eCrossed \/ (m > 0 /\ SentWell(m)' /\ PassedWell(m)')
    BY <1>3
  <2>5. \A m \in eCrossed' :
           \/ m \in eCrossed
           \/ /\ m > 0 => SentWell(m)' /\ PassedWell(m)'
              /\ m = Egress!Unsent => eDerived'.xsk
    BY <2>4 DEF Egress!Unsent
  <2> QED
    BY <1>1, <2>1, <2>2, <2>3, <2>5, SentKeeps
<1>12. BoundaryHolds'
  <2>1. CASE eCrossed' = eCrossed
    <3>1. StillSent' => StillSent
      <4>1. \A p \in eAir : p.by > 0 => p.by \in DOMAIN Attempts
        BY KnownAttempts
      <4>2. \A m \in DOMAIN Attempts : /\ Attempts'[m].kind = Attempts[m].kind
                                       /\ Attempts'[m].inWindow = Attempts[m].inWindow
                                       /\ Attempts'[m].ret = Attempts[m].ret
        BY <1>1 DEF NoneReturns, Grows, AttemptsStay
      <4> QED
        BY <1>1, <4>1, <4>2 DEF StillSent, OfWindow
    <3> QED
      BY <1>1, <2>1, <3>1, BoundaryStays
  <2>2. CASE eCrossed' # eCrossed
    BY <1>1, <2>2, BoundaryCrosses
  <2> QED
    BY <2>1, <2>2
<1>13. JudgedHonestly'
  BY JudgedKeeps DEF HostMeets
<1> QED
  BY <1>4, <1>5, <1>6, <1>7, <1>8, <1>9, <1>10, <1>11, <1>12, <1>13

\* A refused packet of the host's counts for its attempt.
LEMMA PacketCounted ==
    ASSUME EgressInv, NEW n \in DOMAIN Attempts, Attempts[n].netns = "host", NEW e, e.by = n,
           eDerived' = Egress!Judged(eDerived, "ATTEMPT_PACKET", n, e),
           eWindow # "stopped", UNCHANGED <<eWindow, eAir, eSession, eCast, ePast>>
    PROVE  HostMeets(n)
<1> DEFINE at == [Attempts[n] EXCEPT !.packets = Attempts[n].packets + 1]
<1>1. n \in Nat /\ Attempts[n] \in EgressAttempt /\ eDerived \in EgressDerived
  BY EgressFacts DEF EgressInv, EgressTyped
<1>2. /\ eDerived' \in EgressDerived
      /\ Attempts' = [Attempts EXCEPT ![n] = at]
      /\ eDerived'.drops = eDerived.drops
                              \cup {[class |-> "ATTEMPT_PACKET", attempt |-> n, by |-> n]}
      /\ eDerived'.open = eDerived.open /\ eDerived'.sessions = eDerived.sessions
      /\ Refusals' = Refusals
      /\ eDerived'.crafted = eDerived.crafted /\ eDerived'.xsk = eDerived.xsk
  <2>1. /\ n \in DOMAIN eDerived.attempts /\ e.by \in Int
        /\ eDerived \in EgressDerived /\ n \in Nat
    BY <1>1 DEF Attempts
  <2>2. \A r : r = Egress!Judged(eDerived, "ATTEMPT_PACKET", n, e) =>
           /\ r \in EgressDerived
           /\ r.attempts = [eDerived.attempts EXCEPT
                 ![n] = [eDerived.attempts[n] EXCEPT !.packets = eDerived.attempts[n].packets + 1]]
           /\ r.drops = eDerived.drops
                           \cup {[class |-> "ATTEMPT_PACKET", attempt |-> n, by |-> e.by]}
           /\ r.open = eDerived.open /\ r.sessions = eDerived.sessions
           /\ r.socketless = eDerived.socketless
           /\ r.crafted = eDerived.crafted /\ r.xsk = eDerived.xsk
    BY <2>1, JudgedPacket
  <2> QED
    BY <2>2 DEF Attempts, Refusals
<1>3. /\ at.kind = Attempts[n].kind /\ at.probe = Attempts[n].probe /\ at.sk = Attempts[n].sk
      /\ at.netns = Attempts[n].netns /\ at.dest = Attempts[n].dest /\ at.len = Attempts[n].len
      /\ at.delegated = Attempts[n].delegated /\ at.inWindow = Attempts[n].inWindow
      /\ at.ret = Attempts[n].ret /\ at.sport = Attempts[n].sport
      /\ at.closed = Attempts[n].closed
  BY <1>1 DEF EgressAttempt
<1> HIDE DEF at
<1>4. /\ DOMAIN Attempts' = DOMAIN Attempts /\ Len(Attempts') = Len(Attempts)
      /\ Attempts'[n] = at /\ \A m \in DOMAIN Attempts : m # n => Attempts'[m] = Attempts[m]
  BY <1>2, EgressFacts DEF EgressInv
<1>5. AttemptsStay /\ NoneReturns
  <2>1. Len(Attempts) \in Nat
    BY EgressFacts DEF EgressInv
  <2> QED
    BY <1>3, <1>4, <2>1 DEF AttemptsStay, NoneReturns
<1>6. \A drop \in eDerived'.drops : drop \in eDerived.drops \/ BySender(drop)'
  <2>1. ASSUME NEW drop, drop = [class |-> "ATTEMPT_PACKET", attempt |-> n, by |-> n]
        PROVE  BySender(drop)'
    BY <1>4, <2>1 DEF BySender
  <2> QED
    BY <1>2, <2>1
<1> QED
  BY <1>2, <1>3, <1>4, <1>5, <1>6 DEF HostMeets, Grows

LEMMA InCallLen ==
    ASSUME EgressTyped, NEW s \in EgressSocket
    PROVE  Egress!InCall(s) <=> Len(eCalls[s]) # 0
<1>1. eCalls[s] \in Seq(EgressCall)
  BY EgressFacts
<1> QED
  BY <1>1 DEF Egress!InCall

LEMMA XmitFields ==
    ASSUME EgressTyped, eDerived' = Egress!Xmit(eDerived) \/ eDerived' = eDerived
    PROVE  /\ eDerived' \in EgressDerived /\ Attempts' = Attempts /\ Refusals' = Refusals
           /\ eDerived'.open = eDerived.open /\ eDerived'.sessions = eDerived.sessions
           /\ eDerived'.drops = eDerived.drops
           /\ eDerived'.crafted = eDerived.crafted /\ eDerived'.xsk = eDerived.xsk
<1>1. eDerived \in EgressDerived
  BY DEF EgressTyped
<1>2. CASE eDerived' = eDerived
  BY <1>1, <1>2 DEF Attempts, Refusals
<1>3. CASE eDerived' = Egress!Xmit(eDerived)
  <2> DEFINE leaked == eDerived.leaked \/ Egress!inWindow
  <2>1. leaked \in BOOLEAN
    BY Zenon
  <2>2. eDerived' = [eDerived EXCEPT !.leaked = leaked]
    BY <1>3 DEF Egress!Xmit
  <2> HIDE DEF leaked
  <2> QED
    BY <1>1, <2>1, <2>2 DEF EgressDerived, Attempts, Refusals
<1> QED
  BY <1>2, <1>3

\* A step that leaves the attempts alone.
LEMMA SameAttempts ==
    ASSUME EgressTyped, Attempts' = Attempts, eWindow' = eWindow,
           eDerived.crafted => eDerived'.crafted, eDerived.xsk => eDerived'.xsk
    PROVE  Grows /\ NoneReturns
<1>1. Len(Attempts) \in Nat
  BY EgressFacts
<1> QED
  BY <1>1 DEF Grows, NoneReturns, AttemptsStay

LEMMA meetBoundaryKeeps ==
    ASSUME EgressInv, NEW s \in EgressSocket, Egress!meetBoundary(s)
    PROVE  EgressInv'
<1> USE DEF EgressInv
<1> DEFINE c == Egress!Call(s)
<1>1. /\ eWindow # "stopped" /\ Egress!InCall(s) /\ c.out = "nothing" /\ EgressNetns[s] = "host"
      /\ UNCHANGED <<eWindow, eAir, eSession, eCast, ePast>>
  BY DEF Egress!meetBoundary, Egress!Running
<1>2. Len(eCalls[s]) # 0
  BY <1>1, InCallLen
<1>3. PICK n : n = eDerived.open[s][1]
  OBVIOUS
<1>4. /\ n \in DOMAIN Attempts /\ c.n = n /\ eCalls[s][1].n = n /\ eCalls[s][1].out = "nothing"
      /\ Attempts[n].sk = s /\ Attempts[n].netns = "host" /\ ~ Attempts[n].delegated
      /\ Attempts[n].ret = Egress!NoReturn
  BY <1>1, <1>2, <1>3, CallsTop
<1>5. \A t \in EgressSocket : Len(eCalls[t]) # 0 /\ t # s =>
         eCalls[t][1].n # n
  <2> SUFFICES ASSUME NEW t \in EgressSocket, Len(eCalls[t]) # 0, t # s  PROVE eCalls[t][1].n # n
    OBVIOUS
  <2>1. Attempts[eCalls[t][1].n].sk = t
    BY CallsTop
  <2> QED
    BY <1>4, <2>1
<1>6. Unseen(n)
  BY <1>2, <1>4 DEF FreshUnseen
<1>7. ASSUME NEW out \in {"refused", "passed"}, Egress!Becomes(s, out)
      PROVE  /\ eCalls' \in [EgressSocket -> Seq(EgressCall)] /\ CallsStay
             /\ eCalls'[s][1].out = out
             /\ \A m \in DOMAIN Attempts :
                   Attempts'[m].sk = Attempts[m].sk /\ Going(m) => Going(m)'
             /\ \A t \in EgressSocket :
                   Len(eCalls[t]) # 0 /\ eCalls'[t][1].out = "nothing" =>
                      eCalls[t][1].out = "nothing" /\ eCalls[t][1].n # n
  <2>1. /\ eCalls' \in [EgressSocket -> Seq(EgressCall)] /\ CallsStay
        /\ \A t \in EgressSocket \ {s} : eCalls'[t] = eCalls[t]
        /\ eCalls'[s][1].out = out
    BY <1>2, <1>7, BecomesFields
  <2>2. \A m \in DOMAIN Attempts : Attempts[m].sk \in EgressSocket
    BY EgressFacts DEF EgressAttempt
  <2>3. ASSUME NEW m \in DOMAIN Attempts, Attempts'[m].sk = Attempts[m].sk, Going(m)
        PROVE  Going(m)'
    <3>1. Attempts[m].sk # s
      BY <1>4, <2>3 DEF Going
    <3>2. eCalls'[Attempts[m].sk] = eCalls[Attempts[m].sk]
      BY <2>1, <2>2, <3>1
    <3> QED
      BY <2>3, <3>2 DEF Going
  <2> QED
    BY <1>5, <2>1, <2>3
<1>8. CASE /\ "host" \notin ePast
           /\ eDerived' = Egress!Drop(eDerived, [ctx |-> "task", tid |-> s, sk |-> s, by |-> c.n,
                                       packet |-> Egress!PacketOf(s, c.dest, c.len)])
           /\ Egress!Becomes(s, "refused")
           /\ UNCHANGED eCrossed
  <2>1. PICK e : e = [ctx |-> "task", tid |-> s, sk |-> s, by |-> c.n,
                      packet |-> Egress!PacketOf(s, c.dest, c.len)]
    OBVIOUS
  <2>2. e.ctx = "task" /\ e.tid = s /\ e.sk = s /\ e.by = n
    BY <1>4, <2>1
  <2>3. eDerived' = Egress!Judged(eDerived, "ATTEMPT_PACKET", n, e)
    BY <1>2, <1>3, <1>8, <2>1, <2>2, OwnRefused
  <2>4. HostMeets(n)
    BY <1>1, <1>4, <2>2, <2>3, PacketCounted
  <2>5. n \notin eCrossed
    BY <1>6 DEF Unseen
  <2>6. \A m \in DOMAIN Attempts : Attempts'[m].sk = Attempts[m].sk
    BY <2>4 DEF HostMeets, Grows, AttemptsStay
  <2> QED
    BY <1>4, <1>7, <1>8, <2>4, <2>5, <2>6, HostMeetsKeeps
<1>9. CASE /\ "host" \in ePast
           /\ eDerived' = IF c.dest = "far" THEN Egress!Xmit(eDerived) ELSE eDerived
           /\ Egress!Becomes(s, "passed")
           /\ Egress!Past(c.n)
  <2>1. /\ eDerived' \in EgressDerived /\ Attempts' = Attempts /\ Refusals' = Refusals
        /\ eDerived'.open = eDerived.open /\ eDerived'.sessions = eDerived.sessions
        /\ eDerived'.drops = eDerived.drops
        /\ eDerived'.crafted = eDerived.crafted /\ eDerived'.xsk = eDerived.xsk
    BY <1>9, XmitFields
  <2>2. Grows /\ NoneReturns
    BY <1>1, <2>1, SameAttempts
  <2>3. HostMeets(n)
    BY <1>1, <2>1, <2>2 DEF HostMeets
  <2>4. SentWell(n)'
    <3>1. Len(eCalls'[s]) # 0 /\ eCalls'[s][1].out = "passed"
      BY <1>2, <1>7, <1>9 DEF CallsStay
    <3> QED
      BY <1>4, <2>1, <3>1 DEF SentWell
  <2>5. PassedWell(n)' /\ (PassedWell(n) => PassedWell(n)')
    BY <1>6, <2>1 DEF PassedWell, Unseen
  <2>6. \/ eCrossed' = eCrossed
        \/ eWindow = "open" /\ eCrossed' = eCrossed \cup {n}
    BY <1>4, <1>9 DEF Egress!Past, Egress!inWindow
  <2> QED
    BY <1>4, <1>7, <1>9, <2>1, <2>3, <2>4, <2>5, <2>6, HostMeetsKeeps
<1> QED
  BY <1>8, <1>9 DEF Egress!meetBoundary

\* A packet is made, or made again.
PacketMade(p) ==
    /\ eAir' = eAir \cup {p}
    /\ eDerived' \in EgressDerived /\ Attempts' = Attempts /\ Refusals' = Refusals
    /\ eDerived'.open = eDerived.open /\ eDerived'.sessions = eDerived.sessions
    /\ eDerived'.drops = eDerived.drops
    /\ eDerived.crafted => eDerived'.crafted
    /\ eDerived.xsk => eDerived'.xsk
    /\ eWindow # "stopped"
    /\ UNCHANGED <<eWindow, eSession, eCrossed, eCast, ePast>>

LEMMA PacketMadeKeeps ==
    ASSUME EgressInv, NEW p \in EgressFlight, PacketMade(p),
           eCalls' \in [EgressSocket -> Seq(EgressCall)], CallsStay,
           \A m \in DOMAIN Attempts : Going(m) => Going(m)',
           \A t \in EgressSocket :
               Len(eCalls[t]) # 0 /\ eCalls'[t][1].out = "nothing" =>
                   eCalls[t][1].out = "nothing" /\ eCalls[t][1].n # p.by,
           PacketInAir(p)',
           p.by > 0 =>
               /\ SentWell(p.by)'
               /\ Attempts[p.by].kind = "send" =>
                     Unseen(p.by) /\ Attempts[p.by].ret = Egress!NoReturn,
           p.by = Egress!Unsent => eDerived'.xsk
    PROVE  EgressInv'
<1> USE DEF EgressInv
<1>1. /\ eAir' = eAir \cup {p} /\ eDerived' \in EgressDerived /\ Attempts' = Attempts
      /\ Refusals' = Refusals /\ eDerived'.open = eDerived.open
      /\ eDerived'.sessions = eDerived.sessions /\ eDerived'.drops = eDerived.drops
      /\ UNCHANGED <<eWindow, eSession, eCrossed, eCast, ePast>>
      /\ eWindow # "stopped" /\ eWindow' # "stopped"
  BY DEF PacketMade
<1>2. Grows /\ NoneReturns
  BY SameAttempts DEF PacketMade
<1>3. EgressTyped'
  BY <1>1 DEF EgressTyped
<1>4. AttemptsMade'
  BY <1>1, <1>2, MadeKeeps
<1>5. CallsMirrored'
  BY <1>1, <1>2, CallsKept
<1>6. SessionsHeld'
  BY <1>1, <1>2, HeldKept
<1>7. PacketsKnown'
  <2>1. PICK r \in EgressRefusal : TRUE
    BY SomeRefusal
  <2>2. \A q \in eAir' :
           \/ q \in eAir /\ (q.by > 0 => Attempts'[q.by].closed = Attempts[q.by].closed)
           \/ PacketInAir(q)'
    <3> SUFFICES ASSUME NEW q \in eAir', q \notin eAir  PROVE PacketInAir(q)'
      BY <1>1
    <3>1. q = p
      BY <1>1
    <3> QED
      BY <3>1
  <2> QED
    BY <1>1, <1>2, <1>3, <2>1, <2>2, KnownKeeps
<1>8. WholeOnce'
  <2> SUFFICES ASSUME ~ eDerived'.crafted, NEW n \in DOMAIN Attempts', Attempts'[n].kind = "send"
               PROVE  (WholeInAir(n) /\ WholeRefused(n))'
    BY DEF WholeOnce
  <2>1. n \in DOMAIN Attempts /\ WholeInAir(n) /\ WholeRefused(n) /\ n > 0
    BY <1>1, EgressFacts DEF WholeOnce, PacketMade
  <2>2. CASE p.by = n
    <3>1. Unseen(n)
      BY <1>1, <2>1, <2>2
    <3> QED
      BY <1>1, <2>2, <3>1 DEF WholeInAir, WholeRefused, Unseen
  <2>3. CASE p.by # n
    BY <1>1, <2>1, <2>3 DEF WholeInAir, WholeRefused
  <2> QED
    BY <2>2, <2>3
<1>9. FreshUnseen'
  <2> SUFFICES ASSUME NEW t \in EgressSocket, Len(eCalls'[t]) # 0, eCalls'[t][1].out = "nothing",
                      NEW m, m = eCalls'[t][1].n
               PROVE  Unseen(m)'
    BY DEF FreshUnseen, Unseen
  <2>1. Len(eCalls[t]) # 0 /\ 1 \in 1..Len(eCalls[t]) /\ m = eCalls[t][1].n
    BY EgressFacts DEF CallsStay
  <2>2. m # p.by /\ eCalls[t][1].out = "nothing"
    BY <2>1
  <2>3. Unseen(m)
    BY <2>1, <2>2 DEF FreshUnseen
  <2> QED
    BY <1>1, <2>2, <2>3, UnseenStays
<1>10. SentReturnsWell'
  <2>1. \A m \in DOMAIN Attempts : SentWell(m) => SentWell(m)'
    BY <1>2, SentStays DEF NoneReturns
  <2>2. \A m \in DOMAIN Attempts : PassedWell(m) => PassedWell(m)'
    BY <1>1 DEF PassedWell
  <2>3. \A q \in eAir' :
           \/ \E x \in eAir : x.by = q.by
           \/ /\ q.by > 0 => SentWell(q.by)'
              /\ q.by = Egress!Unsent => eDerived'.xsk
    BY <1>1
  <2> QED
    BY <1>1, <1>2, <2>1, <2>2, <2>3, SentKeeps
<1>11. BoundaryHolds'
  <2>1. StillSent' => StillSent
    <3>1. p.by > 0 => p.by \in DOMAIN Attempts
      BY <1>1 DEF SentWell
    <3> QED
      BY <1>1, <3>1 DEF StillSent, OfWindow
  <2> QED
    BY <1>1, <1>2, <2>1, BoundaryStays
<1>12. JudgedHonestly'
  BY <1>1, <1>2, JudgedKeeps
<1> QED
  BY <1>3, <1>4, <1>5, <1>6, <1>7, <1>8, <1>9, <1>10, <1>11, <1>12

LEMMA PacketOfTyped ==
    ASSUME NEW s \in EgressSocket, NEW dest \in EgressDest, NEW len \in Nat
    PROVE  /\ Egress!PacketOf(s, dest, len) \in EgressPacket
           /\ Egress!PacketOf(s, dest, len).len = len
           /\ Egress!PacketOf(s, dest, len).proto # "response"
<1>1. EgressNetns[s] \in EgressHome
  BY DEF EgressHome
<1>2. (IF EgressProbe[s] = "ping" THEN Egress!NoPort ELSE EgressPort[s]) \in EgressSport
  BY DEF EgressSport
<1> QED
  BY <1>1, <1>2 DEF Egress!PacketOf, EgressPacket

\* What a call that sends its packet does to the calls.
LEMMA SendsIt ==
    ASSUME EgressInv, NEW s \in EgressSocket, Len(eCalls[s]) # 0,
           eCalls[s][1].out = "nothing", NEW out \in {"left", "refused", "passed"},
           Egress!Becomes(s, out), NEW n, n = eDerived.open[s][1]
    PROVE  /\ eCalls' \in [EgressSocket -> Seq(EgressCall)] /\ CallsStay
           /\ eCalls'[s][1].out = out /\ Len(eCalls'[s]) # 0
           /\ \A m \in DOMAIN Attempts :
                 Attempts'[m].sk = Attempts[m].sk /\ Going(m) => Going(m)'
           /\ \A t \in EgressSocket :
                 Len(eCalls[t]) # 0 /\ eCalls'[t][1].out = "nothing" =>
                    eCalls[t][1].out = "nothing" /\ eCalls[t][1].n # n
<1> USE DEF EgressInv
<1>1. /\ eCalls' \in [EgressSocket -> Seq(EgressCall)] /\ CallsStay
      /\ \A t \in EgressSocket \ {s} : eCalls'[t] = eCalls[t]
      /\ eCalls'[s][1].out = out
  BY BecomesFields
<1>2. \A m \in DOMAIN Attempts : Attempts[m].sk \in EgressSocket
  BY EgressFacts DEF EgressAttempt
<1>3. ASSUME NEW m \in DOMAIN Attempts, Attempts'[m].sk = Attempts[m].sk, Going(m)
      PROVE  Going(m)'
  <2>1. Attempts[m].sk # s
    BY <1>3 DEF Going
  <2>2. eCalls'[Attempts[m].sk] = eCalls[Attempts[m].sk]
    BY <1>1, <1>2, <2>1
  <2> QED
    BY <1>3, <2>2 DEF Going
<1>4. \A t \in EgressSocket : Len(eCalls[t]) # 0 /\ t # s => eCalls[t][1].n # n
  <2> SUFFICES ASSUME NEW t \in EgressSocket, Len(eCalls[t]) # 0, t # s  PROVE eCalls[t][1].n # n
    OBVIOUS
  <2>1. Attempts[eCalls[t][1].n].sk = t /\ Attempts[n].sk = s
    BY CallsTop
  <2> QED
    BY <2>1
<1>5. Len(eCalls'[s]) # 0
  BY <1>1 DEF CallsStay
<1> QED
  BY <1>1, <1>3, <1>4, <1>5

LEMMA leaveKeeps ==
    ASSUME EgressInv, NEW s \in EgressSocket, Egress!leave(s)
    PROVE  EgressInv'
<1> USE DEF EgressInv
<1> DEFINE c == Egress!Call(s)
<1>1. /\ eWindow # "stopped" /\ Egress!InCall(s) /\ c.out = "nothing" /\ EgressNetns[s] # "host"
      /\ EgressProbe[s] # "pkt" /\ Egress!Becomes(s, "left")
      /\ UNCHANGED <<eDerived, eWindow, eSession, eCrossed, eCast, ePast>>
  BY DEF Egress!leave, Egress!Running
<1>2. Len(eCalls[s]) # 0
  BY <1>1, InCallLen
<1>3. PICK n : n = eDerived.open[s][1]
  OBVIOUS
<1>4. /\ n \in DOMAIN Attempts /\ n \in Nat /\ n > 0 /\ c.n = n /\ eCalls[s][1].n = n
      /\ eCalls[s][1].out = "nothing"
      /\ Attempts[n].sk = s /\ Attempts[n].netns = EgressNetns[s] /\ ~ Attempts[n].delegated
      /\ Attempts[n].ret = Egress!NoReturn /\ ~ Attempts[n].closed
      /\ Attempts[n].probe = EgressProbe[s] /\ c.len = Attempts[n].len
      /\ c.dest = Attempts[n].dest /\ c \in EgressCall
  BY <1>1, <1>2, <1>3, CallsTop
<1>5. Unseen(n)
  BY <1>2, <1>4 DEF FreshUnseen
<1>6. PICK packet, copies :
         /\ eAir' = eAir \cup {Egress!Flying(s, n, packet, copies)}
         /\ \/ packet = Egress!PacketOf(s, c.dest, c.len) /\ copies = 1
            \/ c.len = 2 /\ packet = Egress!PacketOf(s, c.dest, 1) /\ copies = 2
  BY <1>4 DEF Egress!leave
<1>7. PICK p : p = Egress!Flying(s, n, packet, copies)
  OBVIOUS
<1>8. p.by = n /\ p.from = EgressNetns[s] /\ p.packet = packet /\ p.copies = copies
  BY <1>7 DEF Egress!Flying
<1>9. p \in EgressFlight /\ (copies = 2 => packet.len # Attempts[n].len)
  <2>1. c.dest \in EgressDest /\ c.len \in Nat
    BY <1>4 DEF EgressCall
  <2>2. packet \in EgressPacket /\ copies \in {1, 2} /\ (copies = 2 => packet.len = 1 /\ c.len = 2)
    BY <1>6, <2>1, PacketOfTyped
  <2>3. EgressNetns[s] \in EgressHome
    BY DEF EgressHome
  <2> QED
    BY <1>4, <1>7, <2>2, <2>3 DEF Egress!Flying, EgressFlight
<1>10. /\ eCalls' \in [EgressSocket -> Seq(EgressCall)] /\ CallsStay
       /\ eCalls'[s][1].out = "left" /\ Len(eCalls'[s]) # 0
       /\ \A m \in DOMAIN Attempts :
             Attempts'[m].sk = Attempts[m].sk /\ Going(m) => Going(m)'
       /\ \A t \in EgressSocket :
             Len(eCalls[t]) # 0 /\ eCalls'[t][1].out = "nothing" =>
                eCalls[t][1].out = "nothing" /\ eCalls[t][1].n # n
  BY <1>1, <1>2, <1>3, <1>4, SendsIt
<1>11. PacketMade(p) /\ Attempts' = Attempts
  BY <1>1, <1>6, <1>7 DEF PacketMade, EgressTyped, Attempts, Refusals
<1>12. PacketInAir(p)'
  <2>1. n <= Len(Attempts)
    BY <1>4, EgressFacts
  <2>2. OfAttempt(n, packet)
    BY <1>1, <1>4, <1>6 DEF OfAttempt
  <2>3. OfAttempt(n, packet)'
    BY <1>11, <2>2 DEF OfAttempt, Egress!PacketOf
  <2> QED
    BY <1>1, <1>4, <1>8, <1>9, <1>11, <2>1, <2>3 DEF PacketInAir
<1>13. SentWell(n)'
  BY <1>4, <1>10, <1>11 DEF SentWell
<1>14. n # Egress!Unsent
  BY <1>4 DEF Egress!Unsent
<1> QED
  BY <1>4, <1>5, <1>8, <1>9, <1>10, <1>11, <1>12, <1>13, <1>14, PacketMadeKeeps

LEMMA CraftableTyped ==
    ASSUME EgressInv, NEW s \in EgressSocket, NEW p \in Egress!Craftable(s)
    PROVE  p \in EgressPacket
<1>1. CASE p \in {Egress!PacketOf(t, d, 1) : t \in eCast \ {s}, d \in EgressDest}
  <2>1. PICK t \in eCast \ {s}, d \in EgressDest : p = Egress!PacketOf(t, d, 1)
    BY <1>1
  <2>2. t \in EgressSocket
    BY <2>1 DEF EgressInv, EgressTyped
  <2> QED
    BY <2>1, <2>2, PacketOfTyped
<1>2. CASE p \in {[proto |-> "response", src |-> "host", dst |-> d, sport |-> Egress!NoPort,
                   len |-> 1] : d \in EgressDest}
  BY <1>2 DEF EgressPacket, EgressHome, EgressSport
<1> QED
  BY <1>1, <1>2 DEF Egress!Craftable

LEMMA craftKeeps ==
    ASSUME EgressInv, NEW s \in EgressSocket, Egress!craft(s)
    PROVE  EgressInv'
<1> USE DEF EgressInv
<1> DEFINE c == Egress!Call(s)
<1>1. /\ eWindow # "stopped" /\ Egress!InCall(s) /\ c.out = "nothing"
      /\ EgressProbe[s] = "pkt" /\ Egress!Becomes(s, "left")
      /\ UNCHANGED <<eDerived, eWindow, eSession, eCrossed, eCast, ePast>>
  BY DEF Egress!craft, Egress!Running
<1>2. Len(eCalls[s]) # 0
  BY <1>1, InCallLen
<1>3. PICK n : n = eDerived.open[s][1]
  OBVIOUS
<1>4. /\ n \in DOMAIN Attempts /\ n \in Nat /\ n > 0 /\ c.n = n /\ eCalls[s][1].n = n
      /\ eCalls[s][1].out = "nothing"
      /\ Attempts[n].sk = s /\ Attempts[n].netns = EgressNetns[s] /\ ~ Attempts[n].delegated
      /\ Attempts[n].ret = Egress!NoReturn
      /\ Attempts[n].probe = "pkt"
  BY <1>1, <1>2, <1>3, CallsTop
<1>5. Unseen(n)
  BY <1>2, <1>4 DEF FreshUnseen
<1>6. PICK packet \in Egress!Craftable(s) : eAir' = eAir \cup {Egress!Flying(s, n, packet, 1)}
  BY <1>4 DEF Egress!craft
<1>7. PICK p : p = Egress!Flying(s, n, packet, 1)
  OBVIOUS
<1>8. p.by = n /\ p.from = EgressNetns[s] /\ p.packet = packet
  BY <1>7 DEF Egress!Flying
<1>9. p \in EgressFlight
  <2>1. packet \in EgressPacket /\ EgressNetns[s] \in EgressHome
    BY CraftableTyped DEF EgressHome
  <2> QED
    BY <1>4, <1>7, <2>1 DEF Egress!Flying, EgressFlight
<1>10. /\ eCalls' \in [EgressSocket -> Seq(EgressCall)] /\ CallsStay
       /\ eCalls'[s][1].out = "left" /\ Len(eCalls'[s]) # 0
       /\ \A m \in DOMAIN Attempts :
             Attempts'[m].sk = Attempts[m].sk /\ Going(m) => Going(m)'
       /\ \A t \in EgressSocket :
             Len(eCalls[t]) # 0 /\ eCalls'[t][1].out = "nothing" =>
                eCalls[t][1].out = "nothing" /\ eCalls[t][1].n # n
  BY <1>1, <1>2, <1>3, <1>4, SendsIt
<1>11. PacketMade(p) /\ Attempts' = Attempts
  BY <1>1, <1>6, <1>7 DEF PacketMade, EgressTyped, Attempts, Refusals
<1>12. PacketInAir(p)'
  <2>1. n <= Len(Attempts)
    BY <1>4, EgressFacts
  <2>2. eDerived'.crafted
    BY <1>1, <1>4 DEF AttemptsMade, AttemptMade
  <2>3. EgressNetns[s] # "host"
    BY <1>1, EgressAssumed
  <2> QED
    BY <1>4, <1>8, <1>11, <2>1, <2>2, <2>3 DEF PacketInAir
<1>13. SentWell(n)'
  BY <1>4, <1>10, <1>11 DEF SentWell
<1>14. n # Egress!Unsent
  BY <1>4 DEF Egress!Unsent
<1> QED
  BY <1>4, <1>5, <1>8, <1>9, <1>10, <1>11, <1>12, <1>13, <1>14, PacketMadeKeeps

LEMMA craftUnsentKeeps ==
    ASSUME EgressInv, NEW s \in EgressSocket, Egress!craftUnsent(s)
    PROVE  EgressInv'
<1> USE DEF EgressInv
<1> DEFINE xsk == eDerived.xsk \/ Egress!inWindow
           by == IF Egress!inWindow THEN Egress!Unsent ELSE Egress!UnsentOutside
<1>1. /\ eWindow # "stopped"
      /\ eDerived' = [eDerived EXCEPT !.crafted = TRUE, !.xsk = xsk]
      /\ UNCHANGED <<eWindow, eCalls, eSession, eCrossed, eCast, ePast>>
  BY DEF Egress!craftUnsent, Egress!Running, Egress!Xsk
<1>2. PICK packet \in Egress!Craftable(s) : eAir' = eAir \cup {Egress!Flying(s, by, packet, 1)}
  BY DEF Egress!craftUnsent
<1>3. by \in Int /\ ~ (by > 0) /\ (by = Egress!Unsent => Egress!inWindow)
  BY DEF Egress!Unsent, Egress!UnsentOutside
<1>4. xsk \in BOOLEAN /\ (Egress!inWindow => xsk) /\ (eDerived.xsk => xsk)
  BY Zenon
<1> HIDE DEF xsk, by
<1>5. PICK p : p = Egress!Flying(s, by, packet, 1)
  OBVIOUS
<1>6. p.by = by /\ p.from = EgressNetns[s] /\ p \in EgressFlight
  <2>1. packet \in EgressPacket /\ EgressNetns[s] \in EgressHome
    BY CraftableTyped DEF EgressHome
  <2> QED
    BY <1>3, <1>5, <2>1 DEF Egress!Flying, EgressFlight
<1>7. /\ eDerived' \in EgressDerived /\ Attempts' = Attempts /\ Refusals' = Refusals
      /\ eDerived'.open = eDerived.open /\ eDerived'.sessions = eDerived.sessions
      /\ eDerived'.drops = eDerived.drops
      /\ eDerived'.crafted = TRUE /\ eDerived'.xsk = xsk
  <2>1. eDerived \in EgressDerived
    BY DEF EgressTyped
  <2> QED
    BY <1>1, <1>4, <2>1 DEF EgressDerived, Attempts, Refusals
<1>8. eDerived'.crafted /\ (eDerived.xsk => eDerived'.xsk)
  BY <1>4, <1>7, Zenon
<1>9. PacketMade(p)
  BY <1>1, <1>2, <1>5, <1>7, <1>8 DEF PacketMade
<1>10. PacketInAir(p)'
  <2>1. Len(Attempts') \in Nat
    BY <1>7, EgressFacts
  <2>2. p.by <= Len(Attempts') /\ ~ (p.by > 0)
    BY <1>3, <1>6, <2>1
  <2>3. EgressNetns[s] # "host"
    BY EgressAssumed DEF Egress!craftUnsent
  <2> QED
    BY <1>6, <1>8, <2>2, <2>3 DEF PacketInAir
<1>11. p.by = Egress!Unsent => eDerived'.xsk
  BY <1>3, <1>4, <1>6, <1>7, Zenon
<1>12. CallsStay /\ eCalls' \in [EgressSocket -> Seq(EgressCall)]
  BY <1>1, CallsUnchanged DEF EgressTyped
<1>13. \A m \in DOMAIN Attempts : Going(m) => Going(m)'
  BY <1>1, <1>7 DEF Going
<1>14. \A t \in EgressSocket :
          Len(eCalls[t]) # 0 /\ eCalls'[t][1].out = "nothing" =>
             eCalls[t][1].out = "nothing" /\ eCalls[t][1].n # p.by
  <2> SUFFICES ASSUME NEW t \in EgressSocket, Len(eCalls[t]) # 0  PROVE eCalls[t][1].n # p.by
    BY <1>1
  <2>1. eCalls[t][1].n > 0
    BY CallsTop
  <2> QED
    BY <1>3, <1>6, <2>1
<1> QED
  BY <1>3, <1>6, <1>9, <1>10, <1>11, <1>12, <1>13, <1>14, PacketMadeKeeps

\* The connection of a socket is the one the derivation looks under.
LEMMA ConnectOfIs ==
    ASSUME EgressInv, NEW s \in EgressSocket, eSession[s] \in {"connecting", "open"},
           NEW n, n = eDerived.sessions[s]
    PROVE  /\ Egress!ConnectOf(s) = n /\ n \in DOMAIN Attempts /\ n \in Nat /\ n > 0
           /\ Opened(s, n) /\ ~ Attempts[n].closed /\ ~ Attempts[n].delegated
           /\ Attempts[n].netns = EgressNetns[s] /\ Attempts[n].probe = "tcp"
           /\ Attempts[n].len = 1 /\ Attempts[n].dest \in EgressDest
           /\ EgressProbe[s] = "tcp" /\ Len(eCalls[s]) = 0
<1> USE DEF EgressInv
<1>1. /\ n # 0 /\ n \in DOMAIN Attempts /\ Opened(s, n) /\ ~ Attempts[n].closed
      /\ \A m \in DOMAIN Attempts : Opened(s, m) => m = n
  BY DEF SessionsHeld, SessionHeld
<1>2. AttemptMade(n) /\ Attempts[n].sk = s /\ Attempts[n].kind = "connect"
  BY <1>1 DEF AttemptsMade, Opened
<1>3. /\ Attempts[n].probe = "tcp" /\ EgressProbe[s] = "tcp" /\ ~ Attempts[n].delegated
      /\ Attempts[n].netns = EgressNetns[s]
      /\ Attempts[n].len = 1 /\ Attempts[n].dest \in EgressDest
  BY <1>2 DEF AttemptMade
<1>4. ASSUME NEW m \in DOMAIN Attempts, Attempts[m].sk = s, Attempts[m].ret = 0  PROVE m = n
  <2>1. Attempts[m].kind = "connect"
    BY <1>3, <1>4 DEF AttemptsMade, AttemptMade
  <2> QED
    BY <1>1, <1>4, <2>1 DEF Opened
<1>5. Egress!ConnectOf(s) = n
  <2>1. n \in DOMAIN eDerived.attempts /\ eDerived.attempts[n].sk = s /\ eDerived.attempts[n].ret = 0
    BY <1>1 DEF Opened, Attempts
  <2>2. \A m \in DOMAIN eDerived.attempts :
           eDerived.attempts[m].sk = s /\ eDerived.attempts[m].ret = 0 => m = n
    BY <1>4 DEF Attempts
  <2> QED
    BY <2>1, <2>2 DEF Egress!ConnectOf
<1>6. Len(eCalls[s]) = 0
  BY DEF CallsMirrored, CallMirrored
<1>7. n \in Nat /\ n > 0
  BY <1>1, EgressFacts
<1> QED
  BY <1>1, <1>3, <1>5, <1>6, <1>7

LEMMA retransmitKeeps ==
    ASSUME EgressInv, NEW s \in EgressSocket, Egress!retransmit(s)
    PROVE  EgressInv'
<1> USE DEF EgressInv
<1>1. PICK n : n = eDerived.sessions[s]
  OBVIOUS
<1>2. PICK p : p = Egress!PacketOf(s, eDerived.attempts[Egress!ConnectOf(s)].dest, 1)
  OBVIOUS
<1>3. /\ eWindow # "stopped" /\ eSession[s] = "connecting"
      /\ UNCHANGED <<eWindow, eCalls, eSession, eCast, ePast>>
  BY DEF Egress!retransmit, Egress!Running
<1>4. /\ Egress!ConnectOf(s) = n /\ n \in DOMAIN Attempts /\ n \in Nat /\ n > 0
      /\ Opened(s, n) /\ ~ Attempts[n].closed /\ ~ Attempts[n].delegated
      /\ Attempts[n].netns = EgressNetns[s] /\ Attempts[n].probe = "tcp"
      /\ Attempts[n].len = 1 /\ Attempts[n].dest \in EgressDest
      /\ EgressProbe[s] = "tcp" /\ Len(eCalls[s]) = 0
  BY <1>1, <1>3, ConnectOfIs
<1>5. p = Egress!PacketOf(s, Attempts[n].dest, 1) /\ p \in EgressPacket
  BY <1>2, <1>4, PacketOfTyped DEF Attempts
<1>6. IF EgressNetns[s] # "host"
      THEN eAir' = eAir \cup {Egress!Flying(s, n, p, 1)} /\ UNCHANGED <<eDerived, eCrossed>>
      ELSE /\ UNCHANGED eAir
           /\ IF "host" \in ePast
              THEN Egress!Past(n) /\ UNCHANGED eDerived
              ELSE /\ eDerived' = Egress!Drop(eDerived, [ctx |-> "softirq", tid |-> s, sk |-> s,
                                                         by |-> n, packet |-> p])
                   /\ UNCHANGED eCrossed
  BY <1>2, <1>4 DEF Egress!retransmit
<1>7. \A t \in EgressSocket : Len(eCalls[t]) # 0 => eCalls[t][1].n # n
  <2> SUFFICES ASSUME NEW t \in EgressSocket, Len(eCalls[t]) # 0  PROVE eCalls[t][1].n # n
    OBVIOUS
  <2>1. Attempts[eCalls[t][1].n].ret = Egress!NoReturn
    BY CallsTop
  <2> QED
    BY <1>4, <2>1 DEF Opened, Egress!NoReturn
<1>8. CallsStay /\ eCalls' \in [EgressSocket -> Seq(EgressCall)] /\ eCalls' = eCalls
  BY <1>3, CallsUnchanged DEF EgressTyped
<1>9. Attempts[n].kind = "connect"
  BY <1>4 DEF Opened
<1>10. ASSUME AttemptsStay
       PROVE  /\ \A m \in DOMAIN Attempts : Going(m) => Going(m)'
              /\ SentWell(n)' /\ PassedWell(n)'
  BY <1>4, <1>8, <1>9, <1>10 DEF Going, AttemptsStay, SentWell, PassedWell
<1>11. CASE EgressNetns[s] # "host"
  <2>1. PICK q : q = Egress!Flying(s, n, p, 1)
    OBVIOUS
  <2>2. q.by = n /\ q.packet = p /\ q.from = EgressNetns[s] /\ q.copies = 1 /\ q \in EgressFlight
    <3>1. EgressNetns[s] \in EgressHome
      BY DEF EgressHome
    <3> QED
      BY <1>4, <1>5, <2>1, <3>1 DEF Egress!Flying, EgressFlight
  <2>3. PacketMade(q) /\ Attempts' = Attempts
    BY <1>3, <1>6, <1>11, <2>1 DEF PacketMade, EgressTyped, Attempts, Refusals
  <2>4. AttemptsStay
    BY <2>3, SameAttempts DEF PacketMade, Grows
  <2>5. PacketInAir(q)'
    <3>1. n <= Len(Attempts)
      BY <1>4, EgressFacts
    <3>2. OfAttempt(n, p)
      BY <1>4, <1>5, <1>11 DEF OfAttempt, Opened
    <3>3. OfAttempt(n, p)'
      BY <2>3, <3>2 DEF OfAttempt, Egress!PacketOf
    <3> QED
      BY <1>4, <1>11, <2>2, <2>3, <3>1, <3>3 DEF PacketInAir
  <2>6. n # Egress!Unsent
    BY <1>4 DEF Egress!Unsent
  <2> QED
    BY <1>7, <1>8, <1>9, <1>10, <2>2, <2>3, <2>4, <2>5, <2>6, PacketMadeKeeps
<1>12. CASE EgressNetns[s] = "host" /\ "host" \in ePast
  <2>1. eDerived' = eDerived /\ eAir' = eAir /\ Egress!Past(n)
    BY <1>6, <1>12
  <2>2. Attempts' = Attempts /\ Refusals' = Refusals /\ eDerived' \in EgressDerived
    BY <2>1 DEF Attempts, Refusals, EgressTyped
  <2>3. Grows /\ NoneReturns
    BY <1>3, <2>1, <2>2, SameAttempts
  <2>4. HostMeets(n)
    BY <1>3, <2>1, <2>2, <2>3 DEF HostMeets
  <2>5. \/ eCrossed' = eCrossed
        \/ eWindow = "open" /\ eCrossed' = eCrossed \cup {n}
    BY <2>1 DEF Egress!Past, Egress!inWindow
  <2>6. AttemptsStay
    BY <2>3 DEF Grows
  <2> QED
    BY <1>4, <1>7, <1>8, <1>10, <1>12, <2>4, <2>5, <2>6, HostMeetsKeeps
<1>13. CASE EgressNetns[s] = "host" /\ "host" \notin ePast
  <2>1. PICK e : e = [ctx |-> "softirq", tid |-> s, sk |-> s, by |-> n, packet |-> p]
    OBVIOUS
  <2>2. eDerived' = Egress!Drop(eDerived, e) /\ eAir' = eAir /\ eCrossed' = eCrossed
        /\ e.ctx = "softirq" /\ e.sk = s /\ e.by = n
    BY <1>6, <1>13, <2>1
  <2>3. eDerived' = Egress!Judged(eDerived, "ATTEMPT_PACKET", n, e)
    BY <1>1, <1>4, <2>2, ConnectionRefused
  <2>4. HostMeets(n)
    BY <1>3, <1>4, <1>13, <2>2, <2>3, PacketCounted
  <2>5. AttemptsStay
    BY <2>4 DEF HostMeets, Grows
  <2> QED
    BY <1>4, <1>7, <1>8, <1>10, <2>2, <2>4, <2>5, HostMeetsKeeps
<1> QED
  BY <1>11, <1>12, <1>13

\* A packet arrives: one of its segments may still be on its way.
Arrives(p) ==
    eAir' = (eAir \ {p}) \cup (IF p.copies = 2 THEN {[p EXCEPT !.copies = 1]} ELSE {})

LEMMA ArrivesFields ==
    ASSUME EgressInv, NEW p \in eAir, Arrives(p), Attempts' = Attempts,
           eDerived'.crafted = eDerived.crafted
    PROVE  /\ eAir' \subseteq EgressFlight /\ p \in EgressFlight /\ p.by \in Int
           /\ \A q \in eAir' :
                 /\ \E x \in eAir : x.by = q.by
                 /\ \/ q \in eAir /\ q # p
                    \/ /\ q.by = p.by /\ q.packet = p.packet /\ p.copies = 2
                       /\ PacketInAir(q)'
<1> USE DEF EgressInv
<1> DEFINE y == [p EXCEPT !.copies = 1]
<1>1. p \in EgressFlight
  BY DEF EgressTyped
<1>2. /\ y \in EgressFlight /\ y.by = p.by /\ y.packet = p.packet /\ y.from = p.from
      /\ y.copies = 1 /\ p.by \in Int
  BY <1>1 DEF EgressFlight
<1>3. PacketInAir(p)
  BY DEF PacketsKnown
<1> HIDE DEF y
<1>4. PICK z : z = y
  OBVIOUS
<1>5. PacketInAir(z)'
  <2>1. OfAttempt(p.by, p.packet) => OfAttempt(z.by, z.packet)'
    BY <1>2, <1>4 DEF OfAttempt, Egress!PacketOf
  <2> QED
    BY <1>2, <1>3, <1>4, <2>1 DEF PacketInAir
<1>6. \A q \in eAir' : (q \in eAir /\ q # p) \/ (q = z /\ p.copies = 2)
  BY <1>4 DEF Arrives, y
<1> QED
  BY <1>1, <1>2, <1>4, <1>5, <1>6 DEF EgressTyped

LEMMA WholeArrives ==
    ASSUME EgressInv, NEW p \in eAir, Arrives(p), Attempts' = Attempts,
           eDerived'.crafted = eDerived.crafted,
           NEW r \in EgressRefusal, r.by = p.by /\ r.packet = p.packet,
           Refusals' = Refusals \/ Refusals' = Append(Refusals, r)
    PROVE  WholeOnce'
<1> USE DEF EgressInv
<1> SUFFICES ASSUME ~ eDerived'.crafted, NEW n \in DOMAIN Attempts', Attempts'[n].kind = "send"
             PROVE  (WholeInAir(n) /\ WholeRefused(n))'
  BY DEF WholeOnce
<1>1. /\ n \in DOMAIN Attempts /\ WholeInAir(n) /\ WholeRefused(n)
      /\ p.copies = 2 => p.packet.len # Attempts[p.by].len
  BY DEF WholeOnce, PacketsKnown, PacketInAir
<1>2. \A q \in eAir' :
         \/ q \in eAir /\ q # p
         \/ q.by = p.by /\ q.packet = p.packet /\ p.copies = 2
  BY ArrivesFields
<1>3. \A i \in DOMAIN Refusals' :
         \/ i \in DOMAIN Refusals /\ Refusals'[i] = Refusals[i]
         \/ i = Len(Refusals) + 1 /\ Refusals'[i] = r
  <2>1. Refusals \in Seq(EgressRefusal)
    BY EgressFacts
  <2> QED
    BY <2>1, AppendedElements
<1>4. WholeInAir(n)'
  <2> SUFFICES ASSUME NEW q \in eAir', q.by = n, q.packet.len = Attempts[n].len
               PROVE  /\ \A x \in eAir' : x.by = n => x = q
                      /\ \A i \in DOMAIN Refusals' : Refusals'[i].by # n
    BY DEF WholeInAir
  <2>1. q \in eAir /\ q # p
    BY <1>1, <1>2
  <2>2. /\ \A x \in eAir : x.by = n => x = q
        /\ \A i \in DOMAIN Refusals : Refusals[i].by # n
    BY <1>1, <2>1 DEF WholeInAir
  <2>3. p.by # n
    BY <2>1, <2>2
  <2> QED
    BY <1>2, <1>3, <2>2, <2>3
<1>5. WholeRefused(n)'
  <2> SUFFICES ASSUME NEW i \in DOMAIN Refusals', Refusals'[i].by = n,
                      Refusals'[i].packet.len = Attempts[n].len
               PROVE  /\ \A x \in eAir' : x.by # n
                      /\ \A j \in DOMAIN Refusals' : Refusals'[j].by = n => j = i
    BY DEF WholeRefused
  <2>1. CASE i \in DOMAIN Refusals /\ Refusals'[i] = Refusals[i]
    <3>1. /\ \A x \in eAir : x.by # n
          /\ \A j \in DOMAIN Refusals : Refusals[j].by = n => j = i
      BY <1>1, <2>1 DEF WholeRefused
    <3> QED
      BY <1>2, <1>3, <3>1
  <2>2. CASE i = Len(Refusals) + 1 /\ Refusals'[i] = r
    <3>1. p.by = n /\ p.packet.len = Attempts[n].len /\ p.copies # 2
      BY <1>1, <2>2
    <3>2. /\ \A x \in eAir : x.by = n => x = p
          /\ \A j \in DOMAIN Refusals : Refusals[j].by # n
      BY <1>1, <3>1 DEF WholeInAir
    <3> QED
      BY <1>2, <1>3, <2>2, <3>1, <3>2
  <2> QED
    BY <1>3, <2>1, <2>2
<1> QED
  BY <1>4, <1>5

\* What of a capture a packet that arrives leaves alone.
PacketArrives(by) ==
    /\ eDerived' \in EgressDerived /\ Attempts' = Attempts
    /\ eDerived'.open = eDerived.open /\ eDerived'.sessions = eDerived.sessions
    /\ eDerived'.drops = eDerived.drops
    /\ eDerived'.crafted = eDerived.crafted /\ eDerived'.xsk = eDerived.xsk
    /\ eAir' \subseteq EgressFlight
    /\ \A q \in eAir' : /\ q \in eAir \/ PacketInAir(q)'
                        /\ \E x \in eAir : x.by = q.by
    /\ by > 0 => \E q \in eAir : q.by = by
    /\ eWindow # "stopped"
    /\ UNCHANGED <<eWindow, eCalls, eSession, eCast, ePast>>

LEMMA ArrivesKeeps ==
    ASSUME EgressInv, NEW by \in Int, PacketArrives(by), WholeOnce',
           NEW r \in EgressRefusal, r.by = by,
           \/ /\ Refusals' = Refusals
              /\ \/ eCrossed' = eCrossed
                 \/ /\ eWindow = "open" /\ eCrossed' = eCrossed \cup {by}
                    /\ by > 0 => Attempts[by].netns \in ePast /\ Attempts[by].netns # "host"
                    /\ by <= Len(Attempts)
                    /\ by = Egress!Unsent => eDerived.xsk
           \/ /\ Refusals' = Append(Refusals, r) /\ PacketRefused(r)'
              /\ r.place = Len(Attempts) /\ eCrossed' = eCrossed
              /\ by > 0 => Attempts[by].netns \notin ePast
    PROVE  EgressInv'
<1> USE DEF EgressInv
<1>1. /\ eDerived' \in EgressDerived /\ Attempts' = Attempts
      /\ eDerived'.open = eDerived.open /\ eDerived'.sessions = eDerived.sessions
      /\ eDerived'.drops = eDerived.drops
      /\ eDerived'.crafted = eDerived.crafted /\ eDerived'.xsk = eDerived.xsk
      /\ UNCHANGED <<eWindow, eCalls, eSession, eCast, ePast>>
      /\ eWindow' # "stopped"
  BY DEF PacketArrives
<1>2. /\ \A q \in eAir' : q \in eAir \/ PacketInAir(q)'
      /\ \A q \in eAir' : \E x \in eAir : x.by = q.by
      /\ by > 0 => \E q \in eAir : q.by = by
      /\ eAir' \subseteq EgressFlight
  BY DEF PacketArrives
<1>3. Grows /\ NoneReturns
  BY <1>1, SameAttempts
<1>4. EgressTyped'
  BY <1>1, <1>2 DEF EgressTyped
<1>5. AttemptsMade'
  BY <1>1, <1>3, MadeKeeps
<1>6. CallsMirrored'
  BY <1>1, <1>3, CallsKept, CallsUnchanged
<1>7. SessionsHeld'
  BY <1>1, <1>3, HeldKept
<1>8. PacketsKnown'
  <2>1. \A q \in eAir' :
           \/ q \in eAir /\ (q.by > 0 => Attempts'[q.by].closed = Attempts[q.by].closed)
           \/ PacketInAir(q)'
    BY <1>1, <1>2
  <2>2. \A m \in eCrossed' : m \in eCrossed \/ m <= Len(Attempts')
    BY <1>1
  <2>3. Refusals' = Refusals \/ (Refusals' = Append(Refusals, r) /\ PacketRefused(r)'
                                 /\ r.place = Len(Attempts))
    OBVIOUS
  <2> QED
    BY <1>1, <1>3, <1>4, <2>1, <2>2, <2>3, KnownKeeps
<1>9. \A i \in DOMAIN Refusals' :
         \/ i \in DOMAIN Refusals /\ Refusals'[i] = Refusals[i]
         \/ i = Len(Refusals) + 1 /\ Refusals'[i] = r /\ Refusals' = Append(Refusals, r)
  <2>1. Refusals \in Seq(EgressRefusal)
    BY EgressFacts
  <2>2. CASE Refusals' = Refusals
    BY <2>2
  <2>3. CASE Refusals' = Append(Refusals, r)
    BY <2>1, <2>3, AppendedElements
  <2> QED
    BY <2>2, <2>3
<1>10. FreshUnseen'
  <2> SUFFICES ASSUME NEW t \in EgressSocket, Len(eCalls[t]) # 0, eCalls[t][1].out = "nothing",
                      NEW m, m = eCalls[t][1].n
               PROVE  Unseen(m)'
    BY <1>1 DEF FreshUnseen, Unseen
  <2>1. Unseen(m) /\ m \in Nat /\ m > 0
    BY CallsTop DEF FreshUnseen
  <2>2. by # m
    BY <1>2, <2>1 DEF Unseen
  <2>3. \A q \in eAir' : q.by # m
    BY <1>2, <2>1 DEF Unseen
  <2>4. m \in eCrossed' => m \in eCrossed
    BY <2>2
  <2>5. Attempts'[m].packets = Attempts[m].packets
    BY <1>1
  <2> QED
    BY <1>9, <2>1, <2>2, <2>3, <2>4, <2>5, UnseenStays
<1>11. SentReturnsWell'
  <2>1. \A m \in DOMAIN Attempts : Going(m) => Going(m)'
    BY <1>1 DEF Going
  <2>2. \A m \in DOMAIN Attempts : SentWell(m) => SentWell(m)'
    BY <1>3, <2>1, SentStays DEF NoneReturns
  <2>3. \A m \in DOMAIN Attempts : PassedWell(m) => PassedWell(m)'
    BY <1>1 DEF PassedWell
  <2>4. by > 0 => SentWell(by) /\ by \in DOMAIN Attempts
    BY <1>2 DEF SentReturnsWell, SentWell
  <2>5. \A m \in eCrossed' :
           \/ m \in eCrossed
           \/ /\ m > 0 => SentWell(m)' /\ PassedWell(m)'
              /\ m = Egress!Unsent => eDerived'.xsk
    <3>1. ASSUME by > 0, Attempts[by].netns # "host"  PROVE PassedWell(by)'
      BY <1>1, <3>1 DEF PassedWell
    <3> QED
      BY <1>1, <2>2, <2>4, <3>1
  <2> QED
    BY <1>1, <1>2, <1>3, <2>2, <2>3, <2>5, SentKeeps
<1>12. BoundaryHolds'
  <2>1. StillSent' => StillSent
    <3>1. \A q \in eAir' : q.by > 0 /\ OfWindow(q.by)' => StillSent
      <4> SUFFICES ASSUME NEW q \in eAir', q.by > 0, OfWindow(q.by)'  PROVE StillSent
        OBVIOUS
      <4>1. PICK x \in eAir : x.by = q.by
        BY <1>2
      <4>2. OfWindow(x.by)
        BY <1>1, <4>1 DEF OfWindow
      <4> QED
        BY <4>1, <4>2 DEF StillSent
    <3> QED
      BY <1>1, <3>1 DEF StillSent, OfWindow
  <2>2. CASE Refusals' = Refusals /\ eCrossed' = eCrossed
    BY <1>1, <1>3, <2>1, <2>2, BoundaryStays
  <2>3. CASE Refusals' = Refusals /\ eCrossed' # eCrossed
    <3>1. by > 0 => by \in DOMAIN Attempts
      BY <1>2, KnownAttempts
    <3> QED
      BY <1>1, <1>3, <2>3, <3>1, BoundaryCrosses
  <2>4. CASE Refusals' = Append(Refusals, r) /\ eCrossed' = eCrossed /\ Refusals' # Refusals
    <3>1. by > 0 => Attempts[by].netns \notin ePast
      BY <2>4
    <3>2. ASSUME by > 0, OfWindow(by), NEW m \in eCrossed, m > 0
          PROVE  Attempts[m].netns # Attempts[by].netns
      <4>1. StillSent
        BY <1>2, <3>2 DEF StillSent
      <4> QED
        BY <3>1, <3>2, <4>1 DEF BoundaryHolds
    <3>3. eWindow = "open" =>
             \A i \in DOMAIN Refusals' : Refusals'[i].by > 0 /\ OfWindow(Refusals'[i].by) =>
                 Attempts[Refusals'[i].by].netns \notin ePast
      BY <1>9, <3>1 DEF BoundaryHolds
    <3>4. \A m \in eCrossed, i \in DOMAIN Refusals' :
             m > 0 /\ Refusals'[i].by > 0 /\ OfWindow(Refusals'[i].by) =>
                Attempts[m].netns # Attempts[Refusals'[i].by].netns
      BY <1>9, <3>2 DEF BoundaryHolds
    <3> QED
      BY <1>1, <2>1, <2>4, <3>3, <3>4 DEF BoundaryHolds, OfWindow
  <2> QED
    BY <2>2, <2>3, <2>4
<1>13. JudgedHonestly'
  BY <1>1, <1>3, JudgedKeeps
<1> QED
  BY <1>4, <1>5, <1>6, <1>7, <1>8, <1>10, <1>11, <1>12, <1>13

LEMMA arriveKeeps ==
    ASSUME EgressInv, NEW p \in eAir, Egress!arrive(p)
    PROVE  EgressInv'
<1> USE DEF EgressInv
<1>1. /\ eWindow # "stopped" /\ Arrives(p)
      /\ UNCHANGED <<eWindow, eCalls, eSession, eCast, ePast>>
  BY DEF Egress!arrive, Egress!Running, Arrives
<1>2. /\ PacketInAir(p) /\ p.by \in Int /\ p.packet \in EgressPacket
      /\ p.by > 0 => p.by \in DOMAIN Attempts
  <2>1. p \in EgressFlight
    BY DEF EgressTyped
  <2> QED
    BY <2>1, KnownAttempts DEF PacketsKnown, EgressFlight
<1>3. PICK by \in Int : by = p.by
  BY <1>2
<1>4. ASSUME eDerived' \in EgressDerived, Attempts' = Attempts,
             eDerived'.open = eDerived.open, eDerived'.sessions = eDerived.sessions,
             eDerived'.drops = eDerived.drops,
             eDerived'.crafted = eDerived.crafted, eDerived'.xsk = eDerived.xsk
      PROVE  PacketArrives(by)
  <2>1. /\ eAir' \subseteq EgressFlight
        /\ \A q \in eAir' :
              /\ \E x \in eAir : x.by = q.by
              /\ \/ q \in eAir /\ q # p
                 \/ /\ q.by = p.by /\ q.packet = p.packet /\ p.copies = 2
                    /\ PacketInAir(q)'
    BY <1>1, <1>4, ArrivesFields
  <2>2. \A q \in eAir' : /\ q \in eAir \/ PacketInAir(q)'
                         /\ \E x \in eAir : x.by = q.by
    BY <2>1
  <2> QED
    BY <1>1, <1>3, <1>4, <2>1, <2>2 DEF PacketArrives
<1>5. CASE /\ p.from \notin ePast /\ UNCHANGED eCrossed
           /\ \E tid \in Egress!Busy :
                eDerived' = Egress!Drop(eDerived, [ctx |-> "softirq", tid |-> tid,
                               sk |-> Egress!None, by |-> p.by, packet |-> p.packet])
  <2>1. PICK tid : eDerived' = Egress!Drop(eDerived, [ctx |-> "softirq", tid |-> tid,
                               sk |-> Egress!None, by |-> p.by, packet |-> p.packet])
    BY <1>5
  <2>2. /\ eDerived' \in EgressDerived
        /\ Refusals' = Append(Refusals,
              [packet |-> p.packet, by |-> p.by, place |-> Len(Attempts),
               closed |-> {a \in DOMAIN Attempts : Attempts[a].closed}])
        /\ Attempts' = Attempts /\ eDerived'.open = eDerived.open
        /\ eDerived'.sessions = eDerived.sessions /\ eDerived'.drops = eDerived.drops
        /\ eDerived'.crafted = eDerived.crafted /\ eDerived'.xsk = eDerived.xsk
    BY <1>2, <2>1, LaterRefused
  <2>3. PICK r : r = [packet |-> p.packet, by |-> p.by, place |-> Len(Attempts),
                      closed |-> {a \in DOMAIN Attempts : Attempts[a].closed}]
    OBVIOUS
  <2>4. /\ r.packet = p.packet /\ r.by = by /\ r.place = Len(Attempts)
        /\ r.closed = {a \in DOMAIN Attempts : Attempts[a].closed}
        /\ r \in EgressRefusal
    <3>1. DOMAIN Attempts \subseteq Nat /\ Len(Attempts) \in Nat
      BY EgressFacts
    <3> QED
      BY <1>2, <1>3, <2>3, <3>1 DEF EgressRefusal
  <2>5. PacketRefused(r)'
    <3>1. by <= Len(Attempts) /\ Len(Attempts) \in Nat
      BY <1>2, <1>3, EgressFacts DEF PacketInAir
    <3>2. ASSUME ~ eDerived.crafted
          PROVE  OfAttempt(r.by, r.packet)' /\ r.by <= r.place /\ r.by \notin r.closed
      <4>1. OfAttempt(r.by, r.packet) /\ ~ Attempts[r.by].closed
        BY <1>2, <1>3, <2>4, <3>2 DEF PacketInAir
      <4>2. OfAttempt(r.by, r.packet)'
        BY <2>2, <4>1 DEF OfAttempt, Egress!PacketOf
      <4> QED
        BY <2>4, <3>1, <4>1, <4>2
    <3> QED
      BY <2>2, <2>4, <3>1, <3>2 DEF PacketRefused
  <2>6. WholeOnce'
    BY <1>1, <1>3, <2>2, <2>3, <2>4, WholeArrives
  <2>7. by > 0 => Attempts[by].netns \notin ePast
    BY <1>2, <1>3, <1>5 DEF PacketInAir
  <2> QED
    BY <1>4, <1>5, <2>2, <2>3, <2>4, <2>5, <2>6, <2>7, ArrivesKeeps
<1>6. CASE /\ p.from \in ePast
           /\ eDerived' = IF p.packet.dst = "far" THEN Egress!Xmit(eDerived) ELSE eDerived
           /\ Egress!Past(p.by)
  <2>1. /\ eDerived' \in EgressDerived /\ Attempts' = Attempts /\ Refusals' = Refusals
        /\ eDerived'.open = eDerived.open /\ eDerived'.sessions = eDerived.sessions
        /\ eDerived'.drops = eDerived.drops
        /\ eDerived'.crafted = eDerived.crafted /\ eDerived'.xsk = eDerived.xsk
    BY <1>6, XmitFields
  <2>2. PICK r \in EgressRefusal : r.by = by /\ r.packet = p.packet
    <3>1. [packet |-> p.packet, by |-> by, place |-> 0, closed |-> {}] \in EgressRefusal
      BY <1>2 DEF EgressRefusal
    <3> QED
      BY <3>1
  <2>3. WholeOnce'
    BY <1>1, <1>3, <2>1, <2>2, WholeArrives
  <2>4. \/ eCrossed' = eCrossed
        \/ eWindow = "open" /\ eCrossed' = eCrossed \cup {by}
    BY <1>3, <1>6 DEF Egress!Past, Egress!inWindow
  <2>5. /\ by > 0 => Attempts[by].netns \in ePast /\ Attempts[by].netns # "host"
        /\ by <= Len(Attempts)
        /\ by = Egress!Unsent => eDerived.xsk
    BY <1>2, <1>3, <1>6 DEF PacketInAir, SentReturnsWell
  <2> QED
    BY <1>4, <2>1, <2>2, <2>3, <2>4, <2>5, ArrivesKeeps
<1> QED
  BY <1>5, <1>6 DEF Egress!arrive

LEMMA kernelAnswersKeeps ==
    ASSUME EgressInv, NEW ctx \in {"task", "softirq"}, NEW tid \in EgressSocket,
           Egress!kernelAnswers(ctx, tid)
    PROVE  EgressInv'
<1> USE DEF EgressInv
<1> DEFINE answer == [proto |-> "response", src |-> "host", dst |-> "host",
                      sport |-> Egress!NoPort, len |-> 1]
<1>1. /\ eWindow # "stopped"
      /\ UNCHANGED <<eWindow, eCalls, eAir, eSession, eCrossed, eCast, ePast>>
      /\ eDerived' = Egress!Drop(eDerived, [ctx |-> ctx, tid |-> tid, sk |-> Egress!None,
                                            by |-> Egress!Kernel, packet |-> answer])
      /\ ctx = "task" => Egress!InCall(tid)
  BY DEF Egress!kernelAnswers, Egress!Running
<1>2. answer \in EgressPacket /\ answer.proto = "response" /\ answer.src = "host"
  BY DEF EgressPacket, EgressHome, EgressSport
<1> HIDE DEF answer
<1>3. CallsStay /\ eCalls' \in [EgressSocket -> Seq(EgressCall)]
  BY <1>1, CallsUnchanged DEF EgressTyped
<1>4. CASE ctx = "task"
  <2>1. Len(eCalls[tid]) # 0
    BY <1>1, <1>4, InCallLen
  <2>2. PICK n : n = eDerived.open[tid][1]
    OBVIOUS
  <2>3. n \in DOMAIN Attempts /\ n \in Nat
    BY <2>1, <2>2, CallsTop
  <2>4. PICK e : e = [ctx |-> "task", tid |-> tid, sk |-> Egress!None, by |-> Egress!Kernel,
                      packet |-> answer]
    OBVIOUS
  <2>5. /\ e.ctx = "task" /\ e.tid = tid /\ e.sk = Egress!None /\ e.by = Egress!Kernel
        /\ e.packet.proto = "response" /\ e.by \in Int
    BY <1>2, <2>4 DEF Egress!Kernel
  <2>6. eDerived' = Egress!Judged(eDerived, "BOUNDARY_RESPONSE", n, e)
    BY <1>1, <1>4, <2>1, <2>2, <2>4, <2>5, AnswerRefused
  <2>7. "BOUNDARY_RESPONSE" \in EgressClass /\ eDerived \in EgressDerived
    BY DEF EgressClass, EgressTyped
  <2>8. /\ eDerived' \in EgressDerived /\ Attempts' = Attempts /\ Refusals' = Refusals
        /\ eDerived'.open = eDerived.open /\ eDerived'.sessions = eDerived.sessions
        /\ eDerived'.drops = eDerived.drops
             \cup {[class |-> "BOUNDARY_RESPONSE", attempt |-> n, by |-> Egress!Kernel]}
        /\ eDerived'.crafted = eDerived.crafted /\ eDerived'.xsk = eDerived.xsk
    <3>1. \A r : r = Egress!Judged(eDerived, "BOUNDARY_RESPONSE", n, e) =>
             /\ r \in EgressDerived /\ r.attempts = eDerived.attempts
             /\ r.drops = eDerived.drops
                             \cup {[class |-> "BOUNDARY_RESPONSE", attempt |-> n, by |-> e.by]}
             /\ r.open = eDerived.open /\ r.sessions = eDerived.sessions
             /\ r.socketless = eDerived.socketless
             /\ r.crafted = eDerived.crafted /\ r.xsk = eDerived.xsk
      BY <2>3, <2>5, <2>7, JudgedOtherwise
    <3> QED
      BY <2>5, <2>6, <3>1 DEF Attempts, Refusals
  <2>9. Grows /\ NoneReturns
    BY <1>1, <2>8, SameAttempts
  <2>10. \A drop \in eDerived'.drops : drop \in eDerived.drops \/ BySender(drop)'
    <3>1. ASSUME NEW drop,
                 drop = [class |-> "BOUNDARY_RESPONSE", attempt |-> n, by |-> Egress!Kernel]
          PROVE  BySender(drop)'
      BY <3>1 DEF BySender
    <3> QED
      BY <2>8, <3>1
  <2>11. HostMeets(n)
    BY <1>1, <2>8, <2>9, <2>10 DEF HostMeets
  <2>12. WholeOnce'
    BY <1>1, <2>8, <2>9, WholeStays DEF EgressTyped
  <2>13. PICK r \in EgressRefusal : r.by = 0
    <3>1. [packet |-> answer, by |-> 0, place |-> 0, closed |-> {}] \in EgressRefusal
      BY <1>2 DEF EgressRefusal
    <3> QED
      BY <3>1
  <2>14. AttemptsMade'
    BY <2>8, <2>9, MadeKeeps
  <2>15. CallsMirrored'
    BY <1>1, <1>3, <2>8, <2>9, CallsKept
  <2>16. SessionsHeld'
    BY <1>1, <2>8, <2>9, HeldKept
  <2>17. EgressTyped'
    BY <1>1, <2>8 DEF EgressTyped
  <2>18. PacketsKnown'
    <3>1. \A q \in eAir' : q \in eAir /\ (q.by > 0 => Attempts'[q.by].closed = Attempts[q.by].closed)
      BY <1>1, <2>8
    <3> QED
      BY <1>1, <2>8, <2>9, <2>13, <2>17, <3>1, KnownKeeps
  <2>19. FreshUnseen'
    BY <1>1, <2>8 DEF FreshUnseen, Unseen
  <2>20. SentReturnsWell'
    BY <1>1, <2>8 DEF SentReturnsWell, SentWell, PassedWell
  <2>21. BoundaryHolds'
    <3>1. StillSent' => StillSent
      BY <1>1, <2>8 DEF StillSent, OfWindow
    <3> QED
      BY <1>1, <2>8, <2>9, <3>1, BoundaryStays
  <2>22. JudgedHonestly'
    BY <2>9, <2>10, JudgedKeeps
  <2> QED
    BY <2>12, <2>14, <2>15, <2>16, <2>17, <2>18, <2>19, <2>20, <2>21, <2>22
<1>5. CASE ctx = "softirq"
  <2>1. PICK by \in Int : by = Egress!Kernel
    BY DEF Egress!Kernel
  <2>2. /\ eDerived' \in EgressDerived
        /\ Refusals' = Append(Refusals,
              [packet |-> answer, by |-> by, place |-> Len(Attempts),
               closed |-> {a \in DOMAIN Attempts : Attempts[a].closed}])
        /\ Attempts' = Attempts /\ eDerived'.open = eDerived.open
        /\ eDerived'.sessions = eDerived.sessions /\ eDerived'.drops = eDerived.drops
        /\ eDerived'.crafted = eDerived.crafted /\ eDerived'.xsk = eDerived.xsk
    BY <1>1, <1>2, <1>5, <2>1, LaterRefused
  <2>3. PICK r : r = [packet |-> answer, by |-> by, place |-> Len(Attempts),
                      closed |-> {a \in DOMAIN Attempts : Attempts[a].closed}]
    OBVIOUS
  <2>4. /\ r.packet = answer /\ r.by = by /\ r.place = Len(Attempts) /\ r \in EgressRefusal
    <3>1. DOMAIN Attempts \subseteq Nat /\ Len(Attempts) \in Nat
      BY EgressFacts
    <3> QED
      BY <1>2, <2>3, <3>1 DEF EgressRefusal
  <2>5. by = 0 /\ Len(Attempts) \in Nat /\ Len(Attempts) = Len(Attempts')
    BY <2>1, <2>2, EgressFacts DEF Egress!Kernel
  <2>6. PacketRefused(r)'
    BY <1>2, <2>1, <2>4, <2>5 DEF PacketRefused
  <2>7. PacketArrives(by)
    <3>1. eAir \subseteq EgressFlight
      BY DEF EgressTyped
    <3> QED
      BY <1>1, <2>2, <2>5, <3>1 DEF PacketArrives
  <2>8. WholeOnce'
    <3> SUFFICES ASSUME ~ eDerived'.crafted, NEW n \in DOMAIN Attempts', Attempts'[n].kind = "send"
                 PROVE  (WholeInAir(n) /\ WholeRefused(n))'
      BY DEF WholeOnce
    <3>1. n \in DOMAIN Attempts /\ WholeInAir(n) /\ WholeRefused(n) /\ n # 0
      BY <2>2, EgressFacts DEF WholeOnce
    <3>2. \A i \in DOMAIN Refusals' :
             \/ i \in DOMAIN Refusals /\ Refusals'[i] = Refusals[i]
             \/ i = Len(Refusals) + 1 /\ Refusals'[i] = r
      <4>1. Refusals \in Seq(EgressRefusal) /\ Refusals' = Append(Refusals, r)
        BY <2>2, <2>3, EgressFacts
      <4> QED
        BY <2>4, <4>1, AppendedElements
    <3> QED
      BY <1>1, <2>2, <2>4, <2>5, <3>1, <3>2 DEF WholeInAir, WholeRefused
  <2> QED
    BY <1>1, <2>2, <2>3, <2>4, <2>5, <2>6, <2>7, <2>8, ArrivesKeeps
<1> QED
  BY <1>4, <1>5

LEMMA boundaryChangesKeeps ==
    ASSUME EgressInv, NEW ns, Egress!boundaryChanges(ns)
    PROVE  EgressInv'
<1> USE DEF EgressInv
<1>1. /\ eWindow # "stopped" /\ eWindow # "open" /\ eAir = {} /\ \A s \in eCast : ~ Egress!InCall(s)
      /\ UNCHANGED <<eDerived, eWindow, eCalls, eAir, eSession, eCrossed, eCast>>
  BY DEF Egress!boundaryChanges, Egress!Running, Egress!inWindow
<1>2. Attempts' = Attempts /\ Refusals' = Refusals
  BY <1>1 DEF Attempts, Refusals
<1>3. ~ StillSent
  <2>1. \A n \in DOMAIN Attempts : Attempts[n].ret # Egress!NoReturn
    <3> SUFFICES ASSUME NEW n \in DOMAIN Attempts, Attempts[n].ret = Egress!NoReturn  PROVE FALSE
      OBVIOUS
    <3>1. PICK s : s = Attempts[n].sk
      OBVIOUS
    <3>2. s \in EgressSocket
      BY <3>1, EgressFacts DEF EgressAttempt
    <3>3. \E k \in 1..Len(eCalls[s]) : TRUE
      BY <3>1 DEF CallsMirrored, ReturnAwaited
    <3>4. Len(eCalls[s]) # 0
      BY <3>3
    <3>5. s \in eCast
      BY <3>2, <3>4 DEF CallsMirrored, CallMirrored
    <3> QED
      BY <1>1, <3>2, <3>4, <3>5, InCallLen
  <2> QED
    BY <1>1, <2>1 DEF StillSent
<1>4. BoundaryHolds'
  <2>1. ~ StillSent'
    BY <1>1, <1>2, <1>3 DEF StillSent, OfWindow
  <2> QED
    BY <1>1, <1>2, <2>1 DEF BoundaryHolds, OfWindow
<1>5. EgressTyped'
  BY <1>1 DEF EgressTyped
<1>6. AttemptsMade' /\ SessionsHeld' /\ PacketsKnown' /\ WholeOnce' /\ FreshUnseen'
  BY <1>1, <1>2 DEF AttemptsMade, AttemptMade, SessionsHeld, SessionHeld, Opened, PacketsKnown,
       PacketInAir, PacketRefused, OfAttempt, WholeOnce, WholeInAir, WholeRefused,
       FreshUnseen, Unseen
<1>7. CallsMirrored' /\ SentReturnsWell' /\ JudgedHonestly'
  BY <1>1, <1>2 DEF CallsMirrored, CallMirrored, ReturnAwaited, SentReturnsWell, SentWell,
       PassedWell, JudgedHonestly, BySender
<1> QED
  BY <1>4, <1>5, <1>6, <1>7

LEMMA markKeeps ==
    ASSUME EgressInv, Egress!mark
    PROVE  EgressInv'
<1> USE DEF EgressInv
<1>1. /\ eWindow # "stopped"
      /\ eWindow' = CASE eWindow = "before" -> "open" [] eWindow = "open" -> "after"
                      [] OTHER -> "stopped"
      /\ eWindow = "after" /\ CallsReturn => \A s \in EgressSocket : ~ Egress!InCall(s)
      /\ UNCHANGED <<eDerived, eCalls, eAir, eSession, eCrossed, eCast, ePast>>
  BY DEF Egress!mark, Egress!Running
<1>2. Attempts' = Attempts /\ Refusals' = Refusals
  BY <1>1 DEF Attempts, Refusals
<1>3. /\ eWindow \in {"before", "open", "after"} /\ eWindow' # "before"
      /\ eWindow' \in {"open", "after", "stopped"}
      /\ eWindow' = "open" => eWindow = "before"
      /\ eWindow' = "stopped" => eWindow = "after"
  BY <1>1 DEF EgressTyped
<1>4. EgressTyped'
  BY <1>1, <1>3 DEF EgressTyped
<1>5. AttemptsMade'
  BY <1>1, <1>2, <1>3 DEF AttemptsMade, AttemptMade
<1>6. SessionsHeld' /\ PacketsKnown' /\ WholeOnce' /\ FreshUnseen'
  BY <1>1, <1>2 DEF SessionsHeld, SessionHeld, Opened, PacketsKnown,
       PacketInAir, PacketRefused, OfAttempt, WholeOnce, WholeInAir, WholeRefused,
       FreshUnseen, Unseen
<1>7. CallsMirrored' /\ JudgedHonestly'
  BY <1>1, <1>2 DEF CallsMirrored, CallMirrored, ReturnAwaited, JudgedHonestly, BySender
<1>8. SentReturnsWell'
  <2>1. CallsReturn /\ eWindow' = "stopped" => \A s \in EgressSocket : Len(eCalls[s]) = 0
    BY <1>1, <1>3, InCallLen
  <2> QED
    BY <1>1, <1>2, <2>1 DEF SentReturnsWell, SentWell, PassedWell
<1>9. BoundaryHolds'
  <2>1. StillSent' <=> StillSent
    BY <1>1, <1>2 DEF StillSent, OfWindow
  <2>2. CASE eWindow = "before"
    <3>1. \A n \in DOMAIN Attempts : ~ Attempts[n].inWindow
      BY <2>2 DEF AttemptsMade, AttemptMade
    <3>2. eCrossed = {}
      BY <2>2 DEF BoundaryHolds
    <3> QED
      BY <1>1, <1>2, <1>3, <3>1, <3>2, KnownAttempts DEF BoundaryHolds, OfWindow
  <2>3. CASE eWindow # "before"
    BY <1>1, <1>2, <1>3, <2>1, <2>3 DEF BoundaryHolds, OfWindow
  <2> QED
    BY <2>2, <2>3
<1> QED
  BY <1>4, <1>5, <1>6, <1>7, <1>8, <1>9
LEMMA enterKeeps ==
    ASSUME EgressInv, NEW s \in eCast, NEW dest \in EgressDest, NEW len \in EgressLength,
           Egress!enter(s, dest, len)
    PROVE  EgressInv'
<1>1. PICK probe : probe = EgressProbe[s]
  OBVIOUS
<1>2. PICK c : c = [n |-> Egress!Entered + 1, probe |-> probe, dest |-> dest, len |-> len,
                    out |-> "nothing"]
  OBVIOUS
<1>3. /\ s \in EgressSocket /\ len \in Nat /\ probe \in {"udp", "ping", "tcp", "pkt", "udp4"}
      /\ probe # "udp4"
  BY <1>1, EgressAssumed DEF EgressInv, EgressTyped
<1>4. Egress!Entered = Len(Attempts) /\ Len(Attempts) \in Nat
  BY EgressFacts DEF EgressInv, Egress!Entered, Attempts
<1>5. /\ c \in EgressCall /\ c.n = Len(Attempts) + 1 /\ c.probe = probe /\ c.dest = dest
      /\ c.len = len /\ c.out = "nothing"
  BY <1>2, <1>3, <1>4 DEF EgressCall
<1>6. /\ eWindow # "stopped" /\ eCalls[s] = <<>>
      /\ probe = "tcp" => eSession[s] = "none"
      /\ probe # "udp" => len = 1
      /\ eDerived' = Egress!Entry(eDerived, Egress!EntryOf(s, probe, dest, len))
      /\ eCalls' = [eCalls EXCEPT ![s] = <<c>>]
      /\ UNCHANGED <<eWindow, eAir, eSession, eCrossed, eCast, ePast>>
  BY <1>1, <1>2 DEF Egress!enter, Egress!Running, Egress!InCall
<1>7. eSession[s] = "none"
  BY <1>1, <1>3, <1>6 DEF EgressInv, SessionsHeld, SessionHeld
<1>8. eCalls' = [eCalls EXCEPT ![s] = Append(@, c)] /\ Len(eCalls[s]) = 0
  BY <1>6
<1>9. EntersCall(s, probe, dest, len, c)
  BY <1>1, <1>5, <1>6, <1>7, <1>8 DEF EntersCall
<1> QED
  BY <1>3, <1>5, <1>9, EntryKeeps

LEMMA delegateKeeps ==
    ASSUME EgressInv, NEW s \in EgressSocket, Egress!delegate(s)
    PROVE  EgressInv'
<1> USE DEF EgressInv
<1>1. PICK c0 : c0 = Egress!Call(s)
  OBVIOUS
<1>2. PICK c : c = [c0 EXCEPT !.probe = "udp4"]
  OBVIOUS
<1>3. /\ eWindow # "stopped" /\ Len(eCalls[s]) = 1 /\ c0.out = "nothing"
      /\ EgressProbe[s] = "udp" /\ EgressNetns[s] = "host"
      /\ eDerived' = Egress!Entry(eDerived, Egress!EntryOf(s, "udp4", c0.dest, c0.len))
      /\ eCalls' = [eCalls EXCEPT ![s] = Append(@, c)]
      /\ UNCHANGED <<eWindow, eAir, eSession, eCrossed, eCast, ePast>>
  BY <1>1, <1>2 DEF Egress!delegate, Egress!Running
<1>4. c0 = eCalls[s][1] /\ c0 \in EgressCall /\ s \in eCast /\ eSession[s] = "none"
  BY <1>1, <1>3, CallsTop
<1>5. /\ c \in EgressCall /\ c.probe = "udp4" /\ c.dest = c0.dest /\ c.len = c0.len
      /\ c.out = c0.out /\ c.n = c0.n /\ c0.len \in Nat /\ c0.dest \in EgressDest
  BY <1>2, <1>4 DEF EgressCall
<1>6. EntersCall(s, "udp4", c0.dest, c0.len, c)
  BY <1>3, <1>4, <1>5 DEF EntersCall
<1> HIDE DEF EgressInv
<1> QED
  BY <1>5, <1>6, EntryKeeps

\* What a return writes: the innermost call of its thread ends, and opens the
\* session of its socket when it is a connect that did not fail.
ReturnMade(s, top, ret) ==
    /\ eDerived' \in EgressDerived /\ Len(Attempts') = Len(Attempts)
    /\ DOMAIN Attempts' = DOMAIN Attempts
    /\ \A m \in DOMAIN Attempts : m # top => Attempts'[m] = Attempts[m]
    /\ Attempts'[top] = Returned(Attempts[top], ret, SportOf(s))
    /\ \A t \in EgressSocket \ {s} :
          /\ eDerived'.open[t] = eDerived.open[t] /\ eCalls'[t] = eCalls[t]
          /\ eSession'[t] = eSession[t] /\ eDerived'.sessions[t] = eDerived.sessions[t]
    /\ Len(eDerived'.open[s]) = Len(eCalls[s]) - 1 /\ Len(eCalls'[s]) = Len(eCalls[s]) - 1
    /\ \A k \in 1..(Len(eCalls[s]) - 1) :
          eDerived'.open[s][k] = eDerived.open[s][k] /\ eCalls'[s][k] = eCalls[s][k]
    /\ IF EgressProbe[s] = "tcp" /\ ret = 0
       THEN eSession'[s] = "connecting" /\ eDerived'.sessions[s] = top
       ELSE eSession'[s] = "none" /\ eDerived'.sessions[s] = eDerived.sessions[s]
    /\ EgressTyped' /\ Refusals' = Refusals /\ eDerived'.drops = eDerived.drops
    /\ eDerived'.crafted = eDerived.crafted /\ eDerived'.xsk = eDerived.xsk
    /\ UNCHANGED <<eWindow, eAir, eCrossed, eCast, ePast>>

\* The call that returns, and what it may return.
Returning(s, top, ret) ==
    /\ eWindow # "stopped" /\ Len(eCalls[s]) \in 1..2
    /\ top = eDerived.open[s][Len(eCalls[s])] /\ top \in DOMAIN Attempts
    /\ Attempts[top].sk = s /\ Attempts[top].ret = Egress!NoReturn
    /\ Attempts[top].delegated <=> Len(eCalls[s]) = 2
    /\ Attempts[top].kind = "connect" <=> EgressProbe[s] = "tcp"
    /\ eSession[s] = "none" /\ (EgressProbe[s] = "tcp" => Len(eCalls[s]) = 1)
    /\ ret \in {0, -1, -2} /\ (eCalls[s][1].out \in {"passed", "left"} => ret = 0)

LEMMA returnMakes ==
    ASSUME EgressInv, NEW s \in EgressSocket, Egress!return(s)
    PROVE  \E top \in Nat, ret \in Int : Returning(s, top, ret) /\ ReturnMade(s, top, ret)
<1> USE DEF EgressInv
<1>1. /\ eWindow # "stopped" /\ Len(eCalls[s]) # 0
      /\ eCalls' = [eCalls EXCEPT ![s] = Egress!Front(@)]
      /\ UNCHANGED <<eWindow, eAir, eCrossed, eCast, ePast>>
  BY InCallLen DEF Egress!return, Egress!Running
<1>2. PICK sport : sport = SportOf(s)
  OBVIOUS
<1>3. PICK c : c = Egress!Call(s)
  OBVIOUS
<1>4. PICK ret \in Egress!Results(c.out) :
          /\ eDerived' = Egress!Return(eDerived, [sk |-> s, probe |-> c.probe, ret |-> ret,
                                                  sport |-> sport])
          /\ eSession' = [eSession EXCEPT
                ![s] = IF EgressProbe[s] = "tcp" /\ ret >= 0 THEN "connecting" ELSE @]
  BY <1>2, <1>3 DEF Egress!return, SportOf
<1>5. PICK n : n = eDerived.open[s][1]
  OBVIOUS
<1>6. /\ c = eCalls[s][Len(eCalls[s])] /\ c.out = eCalls[s][1].out /\ eSession[s] = "none"
      /\ EgressProbe[s] # "udp" \/ EgressNetns[s] # "host" => Len(eCalls[s]) = 1
      /\ Attempts[n].kind = "connect" <=> EgressProbe[s] = "tcp"
  BY <1>1, <1>3, <1>5, CallsTop
<1>7. /\ ret \in {0, -1, -2} /\ ret \in Int /\ (ret >= 0 <=> ret = 0)
      /\ (eCalls[s][1].out \in {"passed", "left"} => ret = 0)
  <2>1. ret \in {0, -1, -2} /\ (c.out \in {"passed", "left"} => ret = 0)
    BY <1>4 DEF Egress!Results, Egress!EPERM
  <2> QED
    BY <1>6, <2>1
<1>8. /\ Len(eCalls[s]) \in 1..2 /\ Len(eDerived.open[s]) = Len(eCalls[s])
      /\ Len(eCalls[s]) \in 1..Len(eCalls[s])
      /\ eCalls[s] \in Seq(EgressCall) /\ eDerived.open[s] \in Seq(Nat)
      /\ Len(eCalls[s]) - 1 \in Nat
  BY <1>1, EgressFacts DEF CallsMirrored, CallMirrored
<1>9. PICK top : top = eDerived.open[s][Len(eDerived.open[s])]
  OBVIOUS
<1>10. /\ top \in DOMAIN Attempts /\ Attempts[top].sk = s
       /\ Attempts[top].ret = Egress!NoReturn /\ Attempts[top].probe = c.probe
       /\ Attempts[top].delegated <=> Len(eCalls[s]) = 2
  BY <1>6, <1>8, <1>9 DEF CallsMirrored, CallMirrored
<1>11. top \in Nat
  BY <1>10, EgressFacts
<1>12. /\ AttemptMade(top)
       /\ Attempts[top].kind = "connect" <=> EgressProbe[s] = "tcp"
       /\ (c.probe = "tcp") <=> (EgressProbe[s] = "tcp")
  <2>1. AttemptMade(top)
    BY <1>10 DEF AttemptsMade
  <2>2. (c.probe = "tcp") <=> (EgressProbe[s] = "tcp")
    BY <1>10, <2>1 DEF AttemptMade
  <2> QED
    BY <1>10, <2>1, <2>2 DEF AttemptMade
<1>13. sport \in EgressSport
  BY <1>2 DEF SportOf, EgressSport
<1>14. eCalls[s] # <<>> /\ eDerived.open[s] # <<>>
  BY <1>8, StackStart
<1>15. /\ eDerived' \in EgressDerived
       /\ Attempts' = [Attempts EXCEPT ![top] = Returned(Attempts[top], ret, sport)]
       /\ eDerived'.open = [eDerived.open EXCEPT ![s] = Egress!Front(@)]
       /\ \A t \in EgressSocket \ {s} : eDerived'.sessions[t] = eDerived.sessions[t]
       /\ eDerived'.sessions[s] =
             IF c.probe = "tcp" /\ ret >= 0 /\ ~ Attempts[top].delegated
             THEN top ELSE eDerived.sessions[s]
       /\ Refusals' = Refusals /\ eDerived'.drops = eDerived.drops
       /\ eDerived'.crafted = eDerived.crafted /\ eDerived'.xsk = eDerived.xsk
  <2>1. PICK probe : probe = c.probe
    OBVIOUS
  <2>2. /\ EgressTyped /\ Attempts[top].probe = probe
        /\ top \in DOMAIN Attempts /\ ret \in Int
    BY <1>7, <1>10, <2>1
  <2>3. eDerived' = Egress!Return(eDerived, [sk |-> s, probe |-> probe, ret |-> ret,
                                             sport |-> sport])
    BY <1>4, <2>1
  <2> HIDE DEF EgressInv
  <2> QED
    BY <1>9, <1>13, <1>14, <2>1, <2>2, <2>3, ReturnFields
<1>16. /\ DOMAIN Attempts' = DOMAIN Attempts /\ Len(Attempts') = Len(Attempts)
       /\ \A m \in DOMAIN Attempts : m # top => Attempts'[m] = Attempts[m]
       /\ Attempts'[top] = Returned(Attempts[top], ret, SportOf(s))
  BY <1>2, <1>10, <1>15, EgressFacts
<1>17. /\ \A t \in EgressSocket \ {s} :
            eDerived'.open[t] = eDerived.open[t] /\ eDerived'.sessions[t] = eDerived.sessions[t]
       /\ eDerived'.open[s] = Egress!Front(eDerived.open[s])
       /\ eDerived'.sessions[s] =
             IF c.probe = "tcp" /\ ret >= 0 /\ ~ Attempts[top].delegated
             THEN top ELSE eDerived.sessions[s]
  BY <1>15, EgressFacts
<1>18. /\ \A t \in EgressSocket \ {s} : eCalls'[t] = eCalls[t] /\ eSession'[t] = eSession[t]
       /\ eCalls'[s] = Egress!Front(eCalls[s])
       /\ eSession'[s] = IF EgressProbe[s] = "tcp" /\ ret >= 0 THEN "connecting" ELSE "none"
  BY <1>1, <1>4, <1>6 DEF EgressTyped
<1>19. /\ Len(eDerived'.open[s]) = Len(eCalls[s]) - 1 /\ Len(eCalls'[s]) = Len(eCalls[s]) - 1
       /\ eCalls'[s] \in Seq(EgressCall)
       /\ \A k \in 1..(Len(eCalls[s]) - 1) :
            eDerived'.open[s][k] = eDerived.open[s][k] /\ eCalls'[s][k] = eCalls[s][k]
  <2>1. /\ Egress!Front(eCalls[s]) \in Seq(EgressCall)
        /\ Len(Egress!Front(eCalls[s])) = Len(eCalls[s]) - 1
        /\ \A k \in 1..(Len(eCalls[s]) - 1) : Egress!Front(eCalls[s])[k] = eCalls[s][k]
    BY <1>8, <1>14, StackEnds
  <2>2. /\ Len(Egress!Front(eDerived.open[s])) = Len(eDerived.open[s]) - 1
        /\ \A k \in 1..(Len(eDerived.open[s]) - 1) :
              Egress!Front(eDerived.open[s])[k] = eDerived.open[s][k]
    BY <1>8, <1>14, StackEnds
  <2> QED
    BY <1>8, <1>17, <1>18, <2>1, <2>2
<1>20. IF EgressProbe[s] = "tcp" /\ ret = 0
       THEN eSession'[s] = "connecting" /\ eDerived'.sessions[s] = top
       ELSE eSession'[s] = "none" /\ eDerived'.sessions[s] = eDerived.sessions[s]
  <2>1. EgressProbe[s] = "tcp" => ~ Attempts[top].delegated
    <3>1. EgressProbe[s] = "tcp" => Len(eCalls[s]) # 2
      <4>1. EgressProbe[s] = "tcp" => EgressProbe[s] # "udp"
        OBVIOUS
      <4>2. EgressProbe[s] = "tcp" => Len(eCalls[s]) = 1
        BY <1>6, <4>1
      <4>3. Len(eCalls[s]) = 1 => Len(eCalls[s]) # 2
        OBVIOUS
      <4> QED
        BY <4>2, <4>3
    <3>2. Attempts[top].delegated <=> Len(eCalls[s]) = 2
      BY <1>10
    <3> QED
      BY <3>1, <3>2, Zenon
  <2> QED
    BY <1>7, <1>12, <1>17, <1>18, <2>1
<1>21. EgressTyped'
  <2>1. eCalls' \in [EgressSocket -> Seq(EgressCall)]
    BY <1>1, <1>18, <1>19 DEF EgressTyped
  <2>2. eSession' \in [EgressSocket -> {"none", "connecting", "open", "closed"}]
    BY <1>4 DEF EgressTyped
  <2> QED
    BY <1>1, <1>15, <2>1, <2>2 DEF EgressTyped
<1>22. Returning(s, top, ret)
  BY <1>1, <1>6, <1>7, <1>8, <1>9, <1>10, <1>12 DEF Returning
<1>23. ReturnMade(s, top, ret)
  BY <1>1, <1>15, <1>16, <1>17, <1>18, <1>19, <1>20, <1>21 DEF ReturnMade
<1> QED
  BY <1>7, <1>11, <1>22, <1>23

LEMMA returnKeeps ==
    ASSUME EgressInv, NEW s \in EgressSocket, Egress!return(s)
    PROVE  EgressInv'
<1>1. PICK top \in Nat, ret \in Int : Returning(s, top, ret) /\ ReturnMade(s, top, ret)
  BY returnMakes
<1> USE DEF EgressInv
<1>2. /\ DOMAIN Attempts' = DOMAIN Attempts /\ Len(Attempts') = Len(Attempts)
      /\ \A m \in DOMAIN Attempts : m # top => Attempts'[m] = Attempts[m]
      /\ EgressTyped' /\ Refusals' = Refusals /\ eDerived'.drops = eDerived.drops
      /\ eDerived'.crafted = eDerived.crafted /\ eDerived'.xsk = eDerived.xsk
      /\ UNCHANGED <<eWindow, eAir, eCrossed, eCast, ePast>>
  BY <1>1 DEF ReturnMade
<1>3. /\ \A t \in EgressSocket \ {s} :
            /\ eDerived'.open[t] = eDerived.open[t] /\ eCalls'[t] = eCalls[t]
            /\ eSession'[t] = eSession[t] /\ eDerived'.sessions[t] = eDerived.sessions[t]
      /\ Len(eDerived'.open[s]) = Len(eCalls[s]) - 1 /\ Len(eCalls'[s]) = Len(eCalls[s]) - 1
      /\ \A k \in 1..(Len(eCalls[s]) - 1) :
            eDerived'.open[s][k] = eDerived.open[s][k] /\ eCalls'[s][k] = eCalls[s][k]
      /\ IF EgressProbe[s] = "tcp" /\ ret = 0
         THEN eSession'[s] = "connecting" /\ eDerived'.sessions[s] = top
         ELSE eSession'[s] = "none" /\ eDerived'.sessions[s] = eDerived.sessions[s]
  BY <1>1 DEF ReturnMade
<1>4. /\ eWindow # "stopped" /\ Len(eCalls[s]) \in 1..2
      /\ top = eDerived.open[s][Len(eCalls[s])] /\ top \in DOMAIN Attempts
      /\ Attempts[top].sk = s /\ Attempts[top].ret = Egress!NoReturn
      /\ Attempts[top].kind = "connect" <=> EgressProbe[s] = "tcp"
  BY <1>1 DEF Returning
<1>5. /\ Attempts[top].delegated <=> Len(eCalls[s]) = 2
      /\ eSession[s] = "none" /\ (EgressProbe[s] = "tcp" => Len(eCalls[s]) = 1)
      /\ ret \in {0, -1, -2} /\ (eCalls[s][1].out \in {"passed", "left"} => ret = 0)
  BY <1>1 DEF Returning
<1>6. /\ Attempts'[top].ret = ret /\ Attempts'[top].sport = SportOf(s)
      /\ Attempts'[top].kind = Attempts[top].kind /\ Attempts'[top].probe = Attempts[top].probe
      /\ Attempts'[top].sk = s /\ Attempts'[top].netns = Attempts[top].netns
      /\ Attempts'[top].dest = Attempts[top].dest /\ Attempts'[top].len = Attempts[top].len
      /\ Attempts'[top].delegated = Attempts[top].delegated
      /\ Attempts'[top].inWindow = Attempts[top].inWindow
      /\ Attempts'[top].packets = Attempts[top].packets
      /\ Attempts'[top].closed = Attempts[top].closed
  <2>1. Attempts'[top] = Returned(Attempts[top], ret, SportOf(s)) /\ Attempts[top] \in EgressAttempt
    BY <1>1, <1>4, EgressFacts DEF ReturnMade
  <2> QED
    BY <1>4, <2>1 DEF Returned, EgressAttempt
<1>7. Grows
  <2>1. Len(Attempts) <= Len(Attempts') /\ DOMAIN Attempts \subseteq DOMAIN Attempts'
    BY <1>2, EgressFacts
  <2>2. ASSUME NEW n \in DOMAIN Attempts
        PROVE  /\ Attempts'[n].kind = Attempts[n].kind /\ Attempts'[n].probe = Attempts[n].probe
               /\ Attempts'[n].sk = Attempts[n].sk /\ Attempts'[n].netns = Attempts[n].netns
               /\ Attempts'[n].dest = Attempts[n].dest /\ Attempts'[n].len = Attempts[n].len
               /\ Attempts'[n].delegated = Attempts[n].delegated
               /\ Attempts'[n].inWindow = Attempts[n].inWindow
    <3>1. CASE n = top
      BY <1>4, <1>6, <3>1, Zenon
    <3>2. CASE n # top
      BY <1>2, <3>2, Zenon
    <3> QED
      BY <3>1, <3>2
  <2>3. /\ eDerived.crafted => eDerived'.crafted
        /\ eDerived.xsk => eDerived'.xsk
        /\ eWindow' = "before" => eWindow = "before"
    BY <1>2, Zenon
  <2> QED
    BY <2>1, <2>2, <2>3, Zenon DEF Grows, AttemptsStay
<1>8. ret # Egress!NoReturn /\ (Attempts[top].closed => Attempts[top].ret = 0)
  BY <1>4, <1>5 DEF Egress!NoReturn, AttemptsMade, AttemptMade
<1>9. AttemptsMade'
  <2>1. ~ Attempts[top].closed
    BY <1>4, <1>8 DEF Egress!NoReturn
  <2>2. ASSUME NEW n \in DOMAIN Attempts
        PROVE  /\ \/ Attempts'[n].ret = Attempts[n].ret /\ Attempts'[n].sport = Attempts[n].sport
                  \/ Attempts'[n].sport = SportOf(Attempts[n].sk)
               /\ Attempts'[n].packets = Attempts[n].packets
               /\ \/ /\ Attempts'[n].closed = Attempts[n].closed
                     /\ Attempts'[n].ret = Attempts[n].ret
                  \/ Attempts'[n].closed => Attempts[n].kind = "connect" /\ Attempts'[n].ret = 0
    BY <1>2, <1>4, <1>6, <2>1
  <2> QED
    BY <1>2, <1>7, <2>2, MadeKeeps
<1>10. \A t \in EgressSocket : CallMirrored(t)'
  <2>1. ASSUME NEW t \in EgressSocket, t # s  PROVE CallMirrored(t)'
    <3>1. \A n \in DOMAIN Attempts : Attempts[n].sk = t => Attempts'[n].ret = Attempts[n].ret
      BY <1>2, <1>4, <2>1
    <3>2. /\ eCalls'[t] = eCalls[t] /\ eDerived'.open[t] = eDerived.open[t]
          /\ eSession'[t] = eSession[t] /\ eCast' = eCast /\ CallMirrored(t)
      BY <1>2, <1>3, <2>1 DEF CallsMirrored
    <3> QED
      BY <1>7, <3>1, <3>2, MirroredStays
  <2>2. CASE Len(eCalls[s]) = 1
    BY <1>3, <2>1, <2>2 DEF CallMirrored
  <2>3. CASE Len(eCalls[s]) = 2
    <3>1. PICK n : n = eDerived.open[s][1]
      OBVIOUS
    <3>2. /\ n \in DOMAIN Attempts /\ Attempts[n].sk = s /\ Attempts[n].ret = Egress!NoReturn
          /\ Attempts[n].probe = eCalls[s][1].probe /\ Attempts[n].len = eCalls[s][1].len
          /\ ~ Attempts[n].delegated /\ eCalls[s][1].n = n
          /\ Attempts[n].probe # "pkt" => Attempts[n].dest = eCalls[s][1].dest
          /\ s \in eCast
      BY <2>3, <3>1 DEF CallsMirrored, CallMirrored
    <3>3. Attempts[top].delegated
      BY <1>5, <2>3, Zenon
    <3>4. Attempts'[n] = Attempts[n]
      BY <1>2, <3>2, <3>3
    <3>5. EgressProbe[s] # "tcp"
      BY <1>5, <2>3
    <3>6. /\ Len(eCalls'[s]) = 1 /\ Len(eDerived'.open[s]) = 1
          /\ eCalls'[s][1] = eCalls[s][1] /\ eDerived'.open[s][1] = n /\ eSession'[s] = "none"
      BY <1>3, <2>3, <3>1, <3>5
    <3>7. CallMirrored(s)'
      BY <1>2, <3>2, <3>4, <3>6 DEF CallMirrored
    <3> QED
      BY <2>1, <3>7
  <2> QED
    BY <1>4, <2>2, <2>3
<1>11. \A n \in DOMAIN Attempts' : ReturnAwaited(n)'
  <2> SUFFICES ASSUME NEW n \in DOMAIN Attempts  PROVE ReturnAwaited(n)'
    BY <1>2
  <2>1. CASE n = top
    BY <1>6, <1>8, <2>1 DEF ReturnAwaited
  <2>2. CASE Attempts[n].sk # s
    <3>1. Attempts[n].sk \in EgressSocket
      BY EgressFacts DEF EgressAttempt
    <3>2. n # top /\ Attempts'[n] = Attempts[n] /\ ReturnAwaited(n)
      BY <1>2, <1>4, <2>2 DEF CallsMirrored
    <3> QED
      BY <1>3, <1>7, <2>2, <3>1, <3>2, AwaitedStays
  <2>3. CASE n # top /\ Attempts[n].sk = s
    <3>1. Attempts'[n] = Attempts[n] /\ ReturnAwaited(n)
      BY <1>2, <2>3 DEF CallsMirrored
    <3>2. ASSUME Attempts[n].ret = Egress!NoReturn
          PROVE  \E k \in 1..Len(eCalls'[s]) : eDerived'.open[s][k] = n
      <4>1. PICK k \in 1..Len(eCalls[s]) : eDerived.open[s][k] = n
        BY <2>3, <3>1, <3>2 DEF ReturnAwaited
      <4>2. k # Len(eCalls[s])
        BY <1>4, <2>3, <4>1
      <4>3. k \in 1..(Len(eCalls[s]) - 1)
        BY <1>4, <4>2
      <4> QED
        BY <1>3, <4>1, <4>3
    <3> QED
      BY <2>3, <3>1, <3>2 DEF ReturnAwaited
  <2> QED
    BY <2>1, <2>2, <2>3
<1>12. SessionsHeld'
  <2>1. ASSUME NEW t \in EgressSocket, t # s  PROVE SessionHeld(t)'
    <3>1. ASSUME NEW m \in DOMAIN Attempts
          PROVE  /\ Opened(t, m)' <=> Opened(t, m)
                 /\ Attempts'[m].closed = Attempts[m].closed
      BY <1>2, <1>4, <1>6, <2>1 DEF Opened
    <3>2. SessionHeld(t) /\ eSession'[t] = eSession[t]
          /\ eDerived'.sessions[t] = eDerived.sessions[t]
      BY <1>3, <2>1 DEF SessionsHeld
    <3> QED
      BY <1>2, <1>7, <3>1, <3>2, HeldStays
  <2>2. SessionHeld(s)'
    <3>1. \A m \in DOMAIN Attempts : ~ Opened(s, m)
      BY <1>5 DEF SessionsHeld, SessionHeld
    <3>2. eDerived.sessions[s] = 0
      BY <1>5 DEF SessionsHeld, SessionHeld
    <3>3. \A m \in DOMAIN Attempts : m # top => ~ Opened(s, m)'
      BY <1>2, <3>1 DEF Opened
    <3>4. top # 0
      BY <1>4, EgressFacts
    <3>5. CASE EgressProbe[s] = "tcp" /\ ret = 0
      <4>1. Opened(s, top)' /\ ~ Attempts'[top].closed
        BY <1>4, <1>6, <1>8, <3>5 DEF Opened, Egress!NoReturn
      <4>2. eSession'[s] = "connecting" /\ eDerived'.sessions[s] = top
        BY <1>3, <3>5
      <4> QED
        BY <1>2, <1>4, <3>3, <3>4, <3>5, <4>1, <4>2 DEF SessionHeld
    <3>6. CASE ~ (EgressProbe[s] = "tcp" /\ ret = 0)
      <4>1. ~ Opened(s, top)'
        BY <1>4, <1>6, <3>6 DEF Opened
      <4>2. eSession'[s] = "none" /\ eDerived'.sessions[s] = 0
        BY <1>3, <3>2, <3>6
      <4>3. \A m \in DOMAIN Attempts' : ~ Opened(s, m)'
        BY <1>2, <3>3, <4>1
      <4> QED
        BY <4>2, <4>3 DEF SessionHeld
    <3> QED
      BY <3>5, <3>6
  <2> QED
    BY <2>1, <2>2 DEF SessionsHeld
<1>13. \A n \in DOMAIN Attempts : /\ Attempts'[n].packets = Attempts[n].packets
                                  /\ Attempts'[n].closed = Attempts[n].closed
  BY <1>2, <1>6
<1>14. PacketsKnown'
  <2>1. PICK r \in EgressRefusal : TRUE
    BY SomeRefusal
  <2>2. \A p \in eAir' : p \in eAir /\ (p.by > 0 => Attempts'[p.by].closed = Attempts[p.by].closed)
    BY <1>2, <1>13, KnownAttempts
  <2> QED
    BY <1>2, <1>7, <2>1, <2>2, KnownKeeps
<1>15. WholeOnce'
  BY <1>2, <1>7, WholeStays
<1>16. FreshUnseen'
  <2> SUFFICES ASSUME NEW t \in EgressSocket, Len(eCalls'[t]) # 0, eCalls'[t][1].out = "nothing",
                      NEW m, m = eCalls'[t][1].n
               PROVE  Unseen(m)'
    BY DEF FreshUnseen, Unseen
  <2>1. eCalls'[t][1] = eCalls[t][1] /\ Len(eCalls[t]) # 0
    <3>1. CASE t # s
      BY <1>3, <3>1
    <3>2. CASE t = s
      <4>1. Len(eCalls[s]) = 2
        BY <1>3, <1>4, <3>2
      <4> QED
        BY <1>3, <3>2, <4>1
    <3> QED
      BY <3>1, <3>2
  <2>2. Unseen(m) /\ m \in DOMAIN Attempts
    BY <2>1, CallsTop DEF FreshUnseen
  <2> QED
    BY <1>2, <1>13, <2>2, UnseenStays
<1>17. SentReturnsWell'
  <2>1. \A n \in DOMAIN Attempts : SentWell(n) => SentWell(n)'
    <3> SUFFICES ASSUME NEW n \in DOMAIN Attempts, SentWell(n)  PROVE SentWell(n)'
      OBVIOUS
    <3>1. /\ Attempts'[n].sk = Attempts[n].sk /\ Attempts'[n].kind = Attempts[n].kind
          /\ Attempts'[n].delegated = Attempts[n].delegated /\ Attempts[n].sk \in EgressSocket
      BY <1>2, <1>4, <1>6, EgressFacts DEF EgressAttempt
    <3>2. CASE Attempts[n].kind # "send" \/ Attempts[n].ret = 0
      <4>1. Attempts[n].kind # "send" \/ Attempts'[n].ret = 0
        BY <1>2, <1>4, <3>2 DEF Egress!NoReturn
      <4> QED
        BY <1>2, <3>1, <4>1 DEF SentWell
    <3>3. CASE Attempts[n].kind = "send" /\ Attempts[n].ret # 0
      <4>1. /\ Attempts[n].ret = Egress!NoReturn /\ ~ Attempts[n].delegated
            /\ Len(eCalls[Attempts[n].sk]) # 0
            /\ eCalls[Attempts[n].sk][1].out \in {"passed", "left"}
        BY <3>3 DEF SentWell
      <4>2. CASE Attempts[n].sk # s
        BY <1>2, <1>3, <1>4, <3>1, <4>1, <4>2 DEF SentWell
      <4>3. CASE n = top
        <5>1. ret = 0
          BY <1>4, <1>5, <4>1, <4>3
        <5> QED
          BY <1>2, <1>6, <3>1, <4>1, <4>3, <5>1 DEF SentWell
      <4>4. CASE n # top /\ Attempts[n].sk = s
        <5>1. PICK k \in 1..Len(eCalls[s]) : eDerived.open[s][k] = n
          BY <4>1, <4>4 DEF CallsMirrored, ReturnAwaited
        <5>2. k # Len(eCalls[s])
          BY <1>4, <4>4, <5>1
        <5>3. Len(eCalls[s]) = 2
          <6>1. k \in 1..Len(eCalls[s])
            BY <5>1
          <6>2. Len(eCalls[s]) \in {1, 2}
            BY <1>4
          <6>3. ASSUME Len(eCalls[s]) = 1  PROVE FALSE
            <7>1. k \in 1..1 /\ k # 1
              BY <5>2, <6>1, <6>3
            <7> QED
              BY <7>1
          <6> QED
            BY <6>2, <6>3
        <5>4. Len(eCalls'[s]) = 1 /\ eCalls'[s][1] = eCalls[s][1]
          BY <1>3, <5>3
        <5> QED
          BY <1>2, <3>1, <4>1, <4>4, <5>4 DEF SentWell
      <4> QED
        BY <4>2, <4>3, <4>4
    <3> QED
      BY <3>2, <3>3
  <2>2. \A n \in DOMAIN Attempts : PassedWell(n) => PassedWell(n)'
    BY <1>7, <1>13 DEF PassedWell, Grows, AttemptsStay
  <2> QED
    BY <1>2, <1>4, <1>7, <2>1, <2>2, SentKeeps
<1>18. BoundaryHolds'
  <2>1. StillSent' => StillSent
    <3>1. \A p \in eAir : p.by > 0 => p.by \in DOMAIN Attempts
      BY KnownAttempts
    <3>2. \A n \in DOMAIN Attempts : OfWindow(n)' <=> OfWindow(n)
      BY <1>7 DEF OfWindow, Grows, AttemptsStay
    <3>3. \A n \in DOMAIN Attempts :
             Attempts'[n].ret = Egress!NoReturn => Attempts[n].ret = Egress!NoReturn
      BY <1>2, <1>6, <1>8
    <3> QED
      BY <1>2, <3>1, <3>2, <3>3 DEF StillSent
  <2> QED
    BY <1>2, <1>7, <2>1, BoundaryStays
<1>19. JudgedHonestly'
  BY <1>2, <1>7, JudgedKeeps
<1> QED
  BY <1>2, <1>9, <1>10, <1>11, <1>12, <1>14, <1>15, <1>16, <1>17, <1>18, <1>19
     DEF CallsMirrored

\* The state of a connection changes: it is established, or its socket closes.
ConnectionChanges(s, n, to) ==
    /\ eDerived' \in EgressDerived /\ eDerived'.open = eDerived.open
    /\ Refusals' = Refusals /\ eDerived'.drops = eDerived.drops
    /\ Grows /\ NoneReturns
    /\ \A m \in DOMAIN Attempts :
          /\ Attempts'[m].packets = Attempts[m].packets
          /\ m # n => Attempts'[m].closed = Attempts[m].closed
    /\ Attempts'[n].closed <=> to = "CLOSE"
    /\ \A t \in EgressSocket \ {s} :
          eSession'[t] = eSession[t] /\ eDerived'.sessions[t] = eDerived.sessions[t]
    /\ IF to = "CLOSE"
       THEN /\ eDerived'.sessions[s] = 0 /\ eSession'[s] = "closed"
            /\ \A p \in eAir : p.by # n
       ELSE eDerived'.sessions[s] = n /\ eSession'[s] = "open"
    /\ eWindow # "stopped" /\ EgressTyped'
    /\ UNCHANGED <<eWindow, eCalls, eAir, eCrossed, eCast, ePast>>

LEMMA connectionChanges ==
    ASSUME EgressInv, NEW s \in EgressSocket, eSession[s] \in {"connecting", "open"},
           NEW n \in Nat, n = eDerived.sessions[s], NEW from, NEW to,
           eDerived' = Egress!TcpState(eDerived, [sk |-> s, from |-> from, to |-> to]),
           eSession' = [eSession EXCEPT ![s] = IF to = "CLOSE" THEN "closed" ELSE "open"],
           to = "CLOSE" => \A p \in eAir : p.by # n,
           eWindow # "stopped", UNCHANGED <<eWindow, eCalls, eAir, eCrossed, eCast, ePast>>
    PROVE  ConnectionChanges(s, n, to)
<1>1. n \in DOMAIN Attempts
  BY ConnectOfIs
<1>2. EgressTyped
  BY DEF EgressInv
<1>3. /\ eDerived' \in EgressDerived
      /\ Attempts' = [Attempts EXCEPT ![n] = Connected(Attempts[n], from, to)]
      /\ \A t \in EgressSocket \ {s} : eDerived'.sessions[t] = eDerived.sessions[t]
      /\ eDerived'.sessions[s] = IF to = "CLOSE" THEN 0 ELSE n
      /\ eDerived'.open = eDerived.open
      /\ Refusals' = Refusals /\ eDerived'.drops = eDerived.drops
      /\ eDerived'.crafted = eDerived.crafted /\ eDerived'.xsk = eDerived.xsk
  BY <1>1, <1>2, TcpFields
<1>4. PICK at : at = Connected(Attempts[n], from, to)
  OBVIOUS
<1>5. /\ DOMAIN Attempts' = DOMAIN Attempts /\ Len(Attempts') = Len(Attempts)
      /\ \A m \in DOMAIN Attempts : m # n => Attempts'[m] = Attempts[m]
      /\ Attempts'[n] = at
  BY <1>1, <1>2, <1>3, <1>4, EgressFacts
<1>6. /\ at.kind = Attempts[n].kind /\ at.probe = Attempts[n].probe
      /\ at.sk = Attempts[n].sk /\ at.netns = Attempts[n].netns
      /\ at.dest = Attempts[n].dest /\ at.len = Attempts[n].len
      /\ at.delegated = Attempts[n].delegated /\ at.inWindow = Attempts[n].inWindow
      /\ at.packets = Attempts[n].packets
      /\ at.ret = Attempts[n].ret /\ at.sport = Attempts[n].sport
      /\ at.closed = (to = "CLOSE")
  <2>1. Attempts[n] \in EgressAttempt
    BY <1>1, <1>2, EgressFacts
  <2> QED
    BY <1>4, <2>1 DEF Connected, EgressAttempt
<1>7. Grows
  <2>1. Len(Attempts) <= Len(Attempts') /\ DOMAIN Attempts \subseteq DOMAIN Attempts'
    BY <1>2, <1>5, EgressFacts
  <2>2. ASSUME NEW m \in DOMAIN Attempts
        PROVE  /\ Attempts'[m].kind = Attempts[m].kind /\ Attempts'[m].probe = Attempts[m].probe
               /\ Attempts'[m].sk = Attempts[m].sk /\ Attempts'[m].netns = Attempts[m].netns
               /\ Attempts'[m].dest = Attempts[m].dest /\ Attempts'[m].len = Attempts[m].len
               /\ Attempts'[m].delegated = Attempts[m].delegated
               /\ Attempts'[m].inWindow = Attempts[m].inWindow
    <3>1. CASE m = n
      BY <1>5, <1>6, <3>1, Zenon
    <3>2. CASE m # n
      BY <1>5, <3>2, Zenon
    <3> QED
      BY <3>1, <3>2
  <2>3. /\ eDerived.crafted => eDerived'.crafted
        /\ eDerived.xsk => eDerived'.xsk
        /\ eWindow' = "before" => eWindow = "before"
    BY <1>3, Zenon
  <2> QED
    BY <2>1, <2>2, <2>3, Zenon DEF Grows, AttemptsStay
<1>8. NoneReturns
  <2>1. ASSUME NEW m \in DOMAIN Attempts
        PROVE  Attempts'[m].ret = Attempts[m].ret /\ Attempts'[m].sport = Attempts[m].sport
    <3>1. CASE m = n
      BY <1>5, <1>6, <3>1, Zenon
    <3>2. CASE m # n
      BY <1>5, <3>2, Zenon
    <3> QED
      BY <3>1, <3>2
  <2> QED
    BY <1>5, <2>1 DEF NoneReturns
<1>9. ASSUME NEW m \in DOMAIN Attempts
      PROVE  /\ Attempts'[m].packets = Attempts[m].packets
             /\ m # n => Attempts'[m].closed = Attempts[m].closed
  <2>1. CASE m = n
    BY <1>5, <1>6, <2>1, Zenon
  <2>2. CASE m # n
    BY <1>5, <2>2, Zenon
  <2> QED
    BY <2>1, <2>2
<1>10. Attempts'[n].closed <=> to = "CLOSE"
  BY <1>5, <1>6, Zenon
<1>11. /\ \A t \in EgressSocket \ {s} : eSession'[t] = eSession[t]
       /\ eSession'[s] = IF to = "CLOSE" THEN "closed" ELSE "open"
       /\ eSession' \in [EgressSocket -> {"none", "connecting", "open", "closed"}]
  BY <1>2 DEF EgressTyped
<1>12. EgressTyped'
  BY <1>2, <1>3, <1>11 DEF EgressTyped
<1>13. IF to = "CLOSE"
       THEN /\ eDerived'.sessions[s] = 0 /\ eSession'[s] = "closed"
            /\ \A p \in eAir : p.by # n
       ELSE eDerived'.sessions[s] = n /\ eSession'[s] = "open"
  BY <1>3, <1>11
<1>14. \A t \in EgressSocket \ {s} :
          eSession'[t] = eSession[t] /\ eDerived'.sessions[t] = eDerived.sessions[t]
  BY <1>3, <1>11
<1> QED
  BY <1>3, <1>7, <1>8, <1>9, <1>10, <1>12, <1>13, <1>14, Zenon DEF ConnectionChanges

LEMMA ConnectionKeeps ==
    ASSUME EgressInv, NEW s \in EgressSocket, eSession[s] \in {"connecting", "open"},
           NEW n \in Nat, n = eDerived.sessions[s], NEW to, ConnectionChanges(s, n, to)
    PROVE  EgressInv'
<1>1. /\ n \in DOMAIN Attempts /\ n > 0 /\ Opened(s, n) /\ ~ Attempts[n].closed
      /\ EgressProbe[s] = "tcp" /\ Len(eCalls[s]) = 0 /\ Attempts[n].sk = s
      /\ Attempts[n].kind = "connect" /\ Attempts[n].ret = 0
  BY ConnectOfIs DEF Opened
<1> USE DEF EgressInv
<1>2. /\ Refusals' = Refusals /\ eDerived'.drops = eDerived.drops
      /\ eDerived'.open = eDerived.open
      /\ Grows /\ NoneReturns /\ DOMAIN Attempts' = DOMAIN Attempts
      /\ eWindow # "stopped" /\ EgressTyped'
      /\ UNCHANGED <<eWindow, eCalls, eAir, eCrossed, eCast, ePast>>
  BY DEF ConnectionChanges, NoneReturns
<1>3. /\ \A m \in DOMAIN Attempts :
            /\ Attempts'[m].packets = Attempts[m].packets
            /\ m # n => Attempts'[m].closed = Attempts[m].closed
            /\ Attempts'[m].ret = Attempts[m].ret /\ Attempts'[m].sport = Attempts[m].sport
            /\ Attempts'[m].kind = Attempts[m].kind /\ Attempts'[m].sk = Attempts[m].sk
            /\ Attempts'[m].delegated = Attempts[m].delegated
      /\ Attempts'[n].closed <=> to = "CLOSE"
  <2>1. /\ \A m \in DOMAIN Attempts :
              /\ Attempts'[m].packets = Attempts[m].packets
              /\ m # n => Attempts'[m].closed = Attempts[m].closed
        /\ Attempts'[n].closed <=> to = "CLOSE"
    BY DEF ConnectionChanges
  <2>2. \A m \in DOMAIN Attempts :
            /\ Attempts'[m].ret = Attempts[m].ret /\ Attempts'[m].sport = Attempts[m].sport
            /\ Attempts'[m].kind = Attempts[m].kind /\ Attempts'[m].sk = Attempts[m].sk
            /\ Attempts'[m].delegated = Attempts[m].delegated
    BY <1>2 DEF Grows, AttemptsStay, NoneReturns
  <2> QED
    BY <2>1, <2>2, Zenon
<1>4. /\ \A t \in EgressSocket \ {s} :
            eSession'[t] = eSession[t] /\ eDerived'.sessions[t] = eDerived.sessions[t]
      /\ IF to = "CLOSE"
         THEN /\ eDerived'.sessions[s] = 0 /\ eSession'[s] = "closed"
              /\ \A p \in eAir : p.by # n
         ELSE eDerived'.sessions[s] = n /\ eSession'[s] = "open"
  BY DEF ConnectionChanges
<1>5. AttemptsMade'
  <2>1. ASSUME NEW m \in DOMAIN Attempts
        PROVE  \/ Attempts'[m].closed = Attempts[m].closed
               \/ Attempts[m].kind = "connect" /\ Attempts'[m].ret = 0
    BY <1>1, <1>3
  <2> QED
    BY <1>2, <1>3, <2>1, MadeKeeps
<1>6. CallsMirrored'
  <2>1. ASSUME NEW t \in EgressSocket  PROVE CallMirrored(t)'
    <3>1. CASE t # s
      BY <1>2, <1>3, <1>4, <3>1, MirroredStays DEF CallsMirrored
    <3>2. CASE t = s
      BY <1>1, <1>2, <3>2 DEF CallsMirrored, CallMirrored
    <3> QED
      BY <3>1, <3>2
  <2>2. ASSUME NEW m \in DOMAIN Attempts  PROVE ReturnAwaited(m)'
    BY <1>2, <1>3, AwaitedStays DEF CallsMirrored
  <2> QED
    BY <1>2, <2>1, <2>2 DEF CallsMirrored
<1>7. SessionsHeld'
  <2>1. ASSUME NEW t \in EgressSocket, NEW m \in DOMAIN Attempts
        PROVE  Opened(t, m)' <=> Opened(t, m)
    BY <1>3 DEF Opened
  <2>2. ASSUME NEW t \in EgressSocket, t # s  PROVE SessionHeld(t)'
    <3>1. \A m \in DOMAIN Attempts : Opened(t, m) => Attempts'[m].closed = Attempts[m].closed
      BY <1>1, <1>3, <2>2 DEF Opened
    <3>2. SessionHeld(t) /\ eSession'[t] = eSession[t]
          /\ eDerived'.sessions[t] = eDerived.sessions[t]
      BY <1>4, <2>2 DEF SessionsHeld
    <3> QED
      BY <1>2, <2>1, <3>1, <3>2, HeldStays
  <2>3. SessionHeld(s)'
    <3>1. Opened(s, n)' /\ \A m \in DOMAIN Attempts' : Opened(s, m)' => m = n
      <4>1. \A m \in DOMAIN Attempts : Opened(s, m) => m = n
        BY <1>1 DEF SessionsHeld, SessionHeld
      <4> QED
        BY <1>1, <1>2, <2>1, <4>1
    <3>2. CASE to = "CLOSE"
      BY <1>1, <1>4, <3>2 DEF SessionHeld
    <3>3. CASE to # "CLOSE"
      <4>1. ~ Attempts'[n].closed
        BY <1>3, <3>3
      <4> QED
        BY <1>1, <1>2, <1>4, <3>1, <3>3, <4>1 DEF SessionHeld
    <3> QED
      BY <3>2, <3>3
  <2> QED
    BY <2>2, <2>3 DEF SessionsHeld
<1>8. PacketsKnown'
  <2>1. PICK r \in EgressRefusal : TRUE
    BY SomeRefusal
  <2>2. ASSUME NEW p \in eAir', p.by > 0  PROVE Attempts'[p.by].closed = Attempts[p.by].closed
    <3>1. p \in eAir /\ p.by \in DOMAIN Attempts
      BY <1>2, <2>2, KnownAttempts
    <3>2. CASE p.by # n
      BY <1>3, <3>1, <3>2
    <3>3. CASE p.by = n
      <4>1. to # "CLOSE"
        BY <1>4, <3>1, <3>3
      <4>2. Attempts'[n].closed = Attempts[n].closed
        <5>1. Attempts'[n] \in EgressAttempt /\ Attempts[n] \in EgressAttempt
          <6>1. Attempts' \in Seq(EgressAttempt) /\ n \in DOMAIN Attempts'
            BY <1>1, <1>2 DEF EgressTyped, EgressDerived, Attempts
          <6> QED
            BY <1>1, <6>1, EgressFacts
        <5>2. Attempts'[n].closed \in BOOLEAN /\ Attempts[n].closed \in BOOLEAN
          BY <5>1, Zenon DEF EgressAttempt
        <5>3. ~ Attempts'[n].closed /\ ~ Attempts[n].closed
          BY <1>1, <1>3, <4>1
        <5> QED
          BY <5>2, <5>3
      <4> QED
        BY <3>3, <4>2
    <3> QED
      BY <3>2, <3>3
  <2> QED
    BY <1>2, <2>1, <2>2, KnownKeeps
<1>9. WholeOnce'
  BY <1>2, WholeStays
<1>10. FreshUnseen'
  <2> SUFFICES ASSUME NEW t \in EgressSocket, Len(eCalls[t]) # 0, eCalls[t][1].out = "nothing",
                      NEW m, m = eCalls[t][1].n
               PROVE  Unseen(m)'
    BY <1>2 DEF FreshUnseen, Unseen
  <2>1. Unseen(m) /\ m \in DOMAIN Attempts
    BY CallsTop DEF FreshUnseen
  <2> QED
    BY <1>2, <1>3, <2>1, UnseenStays
<1>11. SentReturnsWell'
  <2>1. \A m \in DOMAIN Attempts : SentWell(m) => SentWell(m)'
    BY <1>2, <1>3, SentStays DEF Going
  <2>2. \A m \in DOMAIN Attempts : PassedWell(m) => PassedWell(m)'
    BY <1>2, <1>3 DEF PassedWell, Grows, AttemptsStay
  <2> QED
    BY <1>2, <2>1, <2>2, SentKeeps
<1>12. BoundaryHolds'
  <2>1. StillSent' => StillSent
    <3>1. \A p \in eAir : p.by > 0 => p.by \in DOMAIN Attempts
      BY KnownAttempts
    <3>2. \A m \in DOMAIN Attempts : OfWindow(m)' <=> OfWindow(m)
      BY <1>2 DEF OfWindow, Grows, AttemptsStay
    <3> QED
      BY <1>2, <1>3, <3>1, <3>2 DEF StillSent
  <2> QED
    BY <1>2, <2>1, BoundaryStays
<1>13. JudgedHonestly'
  BY <1>2, JudgedKeeps
<1> QED
  BY <1>2, <1>5, <1>6, <1>7, <1>8, <1>9, <1>10, <1>11, <1>12, <1>13

LEMMA answeredKeeps ==
    ASSUME EgressInv, NEW s \in EgressSocket, Egress!answered(s)
    PROVE  EgressInv'
<1>1. PICK n \in Nat : n = eDerived.sessions[s]
  BY EgressFacts DEF EgressInv
<1>2. /\ eWindow # "stopped" /\ eSession[s] \in {"connecting", "open"}
      /\ eDerived' = Egress!TcpState(eDerived, [sk |-> s, from |-> "SYN_SENT",
                                                to |-> "ESTABLISHED"])
      /\ eSession' = [eSession EXCEPT ![s] = IF "ESTABLISHED" = "CLOSE" THEN "closed" ELSE "open"]
      /\ UNCHANGED <<eWindow, eCalls, eAir, eCrossed, eCast, ePast>>
  BY DEF Egress!answered, Egress!Running
<1>3. ConnectionChanges(s, n, "ESTABLISHED")
  BY <1>1, <1>2, connectionChanges
<1> QED
  BY <1>1, <1>2, <1>3, ConnectionKeeps

LEMMA closeKeeps ==
    ASSUME EgressInv, NEW s \in EgressSocket, Egress!close(s)
    PROVE  EgressInv'
<1>1. PICK n \in Nat : n = eDerived.sessions[s]
  BY EgressFacts DEF EgressInv
<1>2. PICK from : from = IF eSession[s] = "open" THEN "ESTABLISHED" ELSE "SYN_SENT"
  OBVIOUS
<1>3. eSession[s] \in {"connecting", "open"}
  BY DEF Egress!close
<1>4. Egress!ConnectOf(s) = n
  BY <1>1, <1>3, ConnectOfIs
<1>5. /\ eWindow # "stopped" /\ \A p \in eAir : p.by # n
      /\ eDerived' = Egress!TcpState(eDerived, [sk |-> s, from |-> from, to |-> "CLOSE"])
      /\ eSession' = [eSession EXCEPT ![s] = IF "CLOSE" = "CLOSE" THEN "closed" ELSE "open"]
      /\ UNCHANGED <<eWindow, eCalls, eAir, eCrossed, eCast, ePast>>
  BY <1>2, <1>4 DEF Egress!close, Egress!Running
<1>6. ConnectionChanges(s, n, "CLOSE")
  BY <1>1, <1>3, <1>5, connectionChanges
<1> QED
  BY <1>1, <1>3, <1>6, ConnectionKeeps

LEMMA EgressStarts ==
    ASSUME Egress!Init
    PROVE  EgressInv
<1>1. /\ eCast \in EgressCasts /\ eDerived = Egress!Nothing /\ eWindow = "before"
      /\ eCalls = [s \in EgressSocket |-> <<>>] /\ eAir = {}
      /\ eSession = [s \in EgressSocket |-> "none"] /\ eCrossed = {}
  BY DEF Egress!Init
<1>2. /\ Attempts = <<>> /\ Refusals = <<>> /\ eDerived.drops = {}
      /\ eDerived.open = [s \in EgressSocket |-> <<>>]
      /\ eDerived.sessions = [s \in EgressSocket |-> 0]
      /\ eDerived.crafted = FALSE /\ eDerived.xsk = FALSE
  BY <1>1 DEF Egress!Nothing, Attempts, Refusals
<1>3. DOMAIN Attempts = {} /\ DOMAIN Refusals = {}
  BY <1>2
<1>4. EgressTyped
  <2>1. eDerived \in EgressDerived
    <3>1. <<>> \in Seq(EgressAttempt) /\ <<>> \in Seq(Nat) /\ <<>> \in Seq(EgressRefusal)
      OBVIOUS
    <3>2. [s \in EgressSocket |-> <<>>] \in [EgressSocket -> Seq(Nat)]
      OBVIOUS
    <3> QED
      BY <1>1, <3>1, <3>2 DEF Egress!Nothing, EgressDerived
  <2>2. eCalls \in [EgressSocket -> Seq(EgressCall)]
    BY <1>1
  <2>3. eCast \subseteq EgressSocket /\ eCast # {}
    BY <1>1, EgressAssumed
  <2> QED
    BY <1>1, <2>1, <2>2, <2>3 DEF EgressTyped
<1>5. CallsMirrored
  BY <1>1, <1>2, <1>3 DEF CallsMirrored, CallMirrored
<1>6. SessionsHeld
  BY <1>1, <1>2, <1>3 DEF SessionsHeld, SessionHeld
<1>7. AttemptsMade /\ PacketsKnown /\ WholeOnce
  BY <1>1, <1>3 DEF AttemptsMade, PacketsKnown, WholeOnce
<1>8. FreshUnseen
  BY <1>1 DEF FreshUnseen
<1>9. SentReturnsWell
  BY <1>1 DEF SentReturnsWell
<1>10. BoundaryHolds /\ JudgedHonestly
  BY <1>1, <1>2, <1>3 DEF BoundaryHolds, JudgedHonestly
<1> QED
  BY <1>4, <1>5, <1>6, <1>7, <1>8, <1>9, <1>10 DEF EgressInv

LEMMA EgressSteps ==
    ASSUME EgressInv, Egress!Next
    PROVE  EgressInv'
<1>1. \A s \in eCast : s \in EgressSocket
  BY DEF EgressInv, EgressTyped
<1>2. CASE \E s \in eCast, d \in EgressDest, n \in EgressLength : Egress!enter(s, d, n)
  BY <1>2, enterKeeps
<1>3. ASSUME NEW s \in eCast,
             \/ Egress!delegate(s) \/ Egress!meetBoundary(s) \/ Egress!leave(s)
             \/ Egress!craft(s) \/ Egress!craftUnsent(s) \/ Egress!return(s)
             \/ Egress!retransmit(s) \/ Egress!answered(s) \/ Egress!close(s)
             \/ Egress!boundaryChanges(EgressNetns[s])
      PROVE  EgressInv'
  BY <1>1, <1>3, delegateKeeps, meetBoundaryKeeps, leaveKeeps, craftKeeps, craftUnsentKeeps,
     returnKeeps, retransmitKeeps, answeredKeeps, closeKeeps, boundaryChangesKeeps
<1>4. CASE \E p \in eAir : Egress!arrive(p)
  BY <1>4, arriveKeeps
<1>5. CASE \E ctx \in {"task", "softirq"}, tid \in eCast : Egress!kernelAnswers(ctx, tid)
  BY <1>1, <1>5, kernelAnswersKeeps
<1>6. CASE Egress!mark
  BY <1>6, markKeeps
<1> QED
  BY <1>2, <1>3, <1>4, <1>5, <1>6 DEF Egress!Next

LEMMA EgressIdles ==
    ASSUME EgressInv, UNCHANGED egress
    PROVE  EgressInv'
<1>1. UNCHANGED <<eDerived, eWindow, eCalls, eAir, eSession, eCrossed, eCast, ePast>>
  BY DEF egress
<1>2. EgressTyped' /\ AttemptsMade'
  BY <1>1, Zenon DEF EgressInv, EgressTyped, AttemptsMade, AttemptMade, Attempts
<1>3. CallsMirrored'
  <2>1. ASSUME NEW s \in EgressSocket  PROVE CallMirrored(s)'
    BY <1>1 DEF EgressInv, CallsMirrored, CallMirrored, Attempts
  <2>2. ASSUME NEW n \in DOMAIN Attempts  PROVE ReturnAwaited(n)'
    BY <1>1, Zenon DEF EgressInv, CallsMirrored, ReturnAwaited, Attempts
  <2>3. DOMAIN Attempts' = DOMAIN Attempts
    BY <1>1 DEF Attempts
  <2> QED
    BY <2>1, <2>2, <2>3 DEF CallsMirrored
<1>4. SessionsHeld'
  BY <1>1, Zenon DEF EgressInv, SessionsHeld, SessionHeld, Opened, Attempts
<1>5. PacketsKnown'
  BY <1>1, Zenon DEF EgressInv, PacketsKnown, PacketInAir, PacketRefused, OfAttempt, Attempts,
                     Refusals
<1>6. WholeOnce'
  BY <1>1, Zenon DEF EgressInv, WholeOnce, WholeInAir, WholeRefused, Attempts, Refusals
<1>7. FreshUnseen'
  BY <1>1, Zenon DEF EgressInv, FreshUnseen, Unseen, Attempts, Refusals
<1>8. SentReturnsWell'
  BY <1>1, Zenon DEF EgressInv, SentReturnsWell, SentWell, PassedWell, Attempts
<1>9. BoundaryHolds'
  BY <1>1, Zenon DEF EgressInv, BoundaryHolds, StillSent, OfWindow, Attempts, Refusals
<1>10. JudgedHonestly'
  BY <1>1, Zenon DEF EgressInv, JudgedHonestly, BySender, Attempts
<1> QED
  BY <1>2, <1>3, <1>4, <1>5, <1>6, <1>7, <1>8, <1>9, <1>10 DEF EgressInv

LEMMA EgressHolds == Spec => []EgressInv
<1>1. Init => EgressInv
  BY EgressStarts DEF Init
<1>2. EgressInv /\ [Next]_<<part, egress, advisories, target, registry>> => EgressInv'
  <2> SUFFICES ASSUME EgressInv, [Next]_<<part, egress, advisories, target, registry>>
               PROVE  EgressInv'
    OBVIOUS
  <2>1. Egress!Next \/ UNCHANGED egress
    BY DEF Next
  <2> QED
    BY <2>1, EgressSteps, EgressIdles
<1> QED
  BY <1>1, <1>2, PTL DEF Spec

-----------------------------------------------------------------------------
(* Egress attribution: the derivation of a whole capture *)

LEMMA LeastNumber ==
    ASSUME NEW T, T \subseteq Nat, T # {}
    PROVE  \E x \in T : \A y \in T : x <= y
<1>1. IsWellFoundedOn(OpToRel(<, Nat), Nat)
  BY NatLessThanWellFounded
<1>2. PICK x \in T : \A y \in T : ~ (<<y, x>> \in OpToRel(<, Nat))
  BY <1>1, WFMin, Zenon
<1>3. \A y \in T : ~ (y < x)
  BY <1>2 DEF OpToRel
<1> QED
  BY <1>3

\* The last of the refusals that are not judged yet.
Latest(S) == Egress!Max(S)

LEMMA LatestOf ==
    ASSUME NEW m \in Nat, NEW S \in SUBSET (1..m), S # {}
    PROVE  Latest(S) \in S /\ \A x \in S : x <= Latest(S)
<1> DEFINE T == {k \in 0..m : m - k \in S}
<1>1. T \subseteq Nat /\ T # {}
  <2>1. PICK x \in S : TRUE
    OBVIOUS
  <2>2. m - x \in T
    BY <2>1
  <2>3. T \subseteq Nat
    OBVIOUS
  <2> HIDE DEF T
  <2> QED
    BY <2>2, <2>3
<1>2. PICK k \in T : \A y \in T : k <= y
  <2> HIDE DEF T
  <2> QED
    BY <1>1, LeastNumber
<1>3. m - k \in S /\ \A x \in S : x <= m - k
  <2>1. \A x \in S : m - x \in T /\ x \in Nat
    <3> SUFFICES ASSUME NEW x \in S  PROVE m - x \in T /\ x \in Nat
      OBVIOUS
    <3>1. x \in 1..m
      OBVIOUS
    <3>2. x \in Nat /\ m - x \in 0..m /\ m - (m - x) = x
      BY <3>1
    <3> QED
      BY <3>2
  <2> QED
    BY <1>2, <2>1
<1>4. \E x \in S : \A y \in S : x >= y
  BY <1>3
<1> QED
  BY <1>4 DEF Latest, Egress!Max

Earlier(S) == S \ {Latest(S)}

\* What a fold over the refusals computes, for each set of the first of them.
Joining(g, S) ==
    g = [s \in SUBSET S |-> IF s = {} THEN eDerived
                            ELSE Egress!Deferred(g[Earlier(s)], Refusals[Latest(s)])]

LEMMA JoinedIs == Egress!Joined = (CHOOSE g : Joining(g, DOMAIN Refusals))[DOMAIN Refusals]
BY DEF Egress!Joined, Egress!FoldLeft, Egress!MapThenFoldSet, Joining, Latest, Earlier, Refusals

\* What holds of a set of numbers when it holds of what is left without any one.
LEMMA FewerInduction ==
    ASSUME NEW m \in Nat, NEW G, {} \in G,
           \A s \in SUBSET (1..m) : s # {} /\ (\A x \in s : s \ {x} \in G) => s \in G
    PROVE  SUBSET (1..m) \subseteq G
<1> DEFINE Bad == {Cardinality(s) : s \in (SUBSET (1..m)) \ G}
<1> SUFFICES ASSUME NEW t \in SUBSET (1..m), t \notin G
             PROVE  FALSE
  OBVIOUS
<1>1. \A s \in SUBSET (1..m) : IsFiniteSet(s) /\ Cardinality(s) \in Nat
  <2>1. IsFiniteSet(1..m)
    BY FS_Interval
  <2> QED
    BY <2>1, FS_Subset, FS_CardinalityType
<1>2. Bad \subseteq Nat /\ Bad # {}
  BY <1>1
<1>3. PICK k \in Bad : \A l \in Bad : k <= l
  <2> HIDE DEF Bad
  <2> QED
    BY <1>2, LeastNumber
<1>4. PICK s \in (SUBSET (1..m)) \ G : k = Cardinality(s)
  OBVIOUS
<1>5. s # {} /\ IsFiniteSet(s)
  BY <1>1
<1>6. ASSUME NEW x \in s  PROVE s \ {x} \in G
  <2>1. Cardinality(s \ {x}) = k - 1
    BY <1>4, <1>5, FS_RemoveElement
  <2>2. ~ (k <= k - 1)
    BY <1>2
  <2>3. Cardinality(s \ {x}) \notin Bad
    BY <1>3, <2>1, <2>2
  <2>4. s \ {x} \in SUBSET (1..m)
    OBVIOUS
  <2> QED
    BY <2>3, <2>4
<1> QED
  BY <1>4, <1>5, <1>6

LEMMA EarlierPart ==
    ASSUME NEW m \in Nat, NEW s \in SUBSET (1..m), s # {}
    PROVE  Earlier(s) \in SUBSET (1..m) /\ Earlier(s) \subseteq s /\ Earlier(s) # s
BY LatestOf DEF Earlier

\* There is one such function, and it computes the parts of a set too.
LEMMA JoiningOnce ==
    ASSUME NEW m \in Nat, NEW S \in SUBSET (1..m), NEW g, Joining(g, S), NEW h, Joining(h, S)
    PROVE  g = h
<1> DEFINE G == {s \in SUBSET (1..m) : s \subseteq S => g[s] = h[s]}
<1>1. {} \in G
  BY DEF Joining
<1>2. ASSUME NEW s \in SUBSET (1..m), s # {}, \A x \in s : s \ {x} \in G
      PROVE  s \in G
  <2> SUFFICES ASSUME s \subseteq S  PROVE g[s] = h[s]
    OBVIOUS
  <2>1. g[Earlier(s)] = h[Earlier(s)]
    <3>1. Earlier(s) \in G
      BY <1>2, LatestOf DEF Earlier
    <3> QED
      BY <1>2, <3>1, EarlierPart
  <2>2. /\ g[s] = Egress!Deferred(g[Earlier(s)], Refusals[Latest(s)])
        /\ h[s] = Egress!Deferred(h[Earlier(s)], Refusals[Latest(s)])
    BY <1>2 DEF Joining
  <2> QED
    BY <2>1, <2>2, Zenon
<1>3. SUBSET (1..m) \subseteq G
  <2> HIDE DEF G
  <2> QED
    BY <1>1, <1>2, FewerInduction
<1>4. /\ g = [s \in SUBSET S |-> g[s]]
      /\ h = [s \in SUBSET S |-> h[s]]
  BY DEF Joining
<1>5. \A s \in SUBSET S : g[s] = h[s]
  BY <1>3
<1> QED
  BY <1>4, <1>5

LEMMA JoiningPart ==
    ASSUME NEW S, NEW g, Joining(g, S), NEW T, T \in SUBSET S,
           NEW h, h = [s \in SUBSET T |-> g[s]]
    PROVE  Joining(h, T)
<1>1. \A s \in SUBSET T : s \in SUBSET S /\ Earlier(s) \in SUBSET T
  BY DEF Earlier
<1>2. \A s \in SUBSET T :
         g[s] = IF s = {} THEN eDerived ELSE Egress!Deferred(g[Earlier(s)], Refusals[Latest(s)])
  BY <1>1 DEF Joining
<1>3. \A s \in SUBSET T : h[s] = g[s] /\ h[Earlier(s)] = g[Earlier(s)]
  BY <1>1
<1>4. \A s \in SUBSET T :
         h[s] = IF s = {} THEN eDerived ELSE Egress!Deferred(h[Earlier(s)], Refusals[Latest(s)])
  BY <1>2, <1>3
<1>5. h = [s \in SUBSET T |-> h[s]]
  OBVIOUS
<1> QED
  BY <1>4, <1>5 DEF Joining

LEMMA JoiningExists ==
    ASSUME NEW m \in Nat
    PROVE  \E g : Joining(g, 1..m)
<1> DEFINE G == {s \in SUBSET (1..m) : \E g : Joining(g, s)}
<1>1. {} \in G
  <2> DEFINE g == [s \in SUBSET {} |-> eDerived]
  <2>1. Joining(g, {})
    BY DEF Joining
  <2> QED
    BY <2>1
<1>2. ASSUME NEW s \in SUBSET (1..m), s # {}, \A x \in s : s \ {x} \in G
      PROVE  s \in G
  <2> DEFINE of(t) == CHOOSE g : Joining(g, t)
             g == [t \in SUBSET s |->
                     IF t = {} THEN eDerived
                     ELSE Egress!Deferred(of(Earlier(t))[Earlier(t)], Refusals[Latest(t)])]
  <2>1. \A t \in SUBSET s : t # s => Joining(of(t), t)
    <3> SUFFICES ASSUME NEW t \in SUBSET s, t # s
                 PROVE  \E h : Joining(h, t)
      OBVIOUS
    <3>1. PICK x \in s : x \notin t
      OBVIOUS
    <3>2. PICK h : Joining(h, s \ {x})
      BY <1>2
    <3>3. t \in SUBSET (s \ {x})
      BY <3>1
    <3> DEFINE v == [u \in SUBSET t |-> h[u]]
    <3>4. v = [u \in SUBSET t |-> h[u]]
      OBVIOUS
    <3> HIDE DEF v
    <3>5. Joining(v, t)
      BY <3>2, <3>3, <3>4, JoiningPart
    <3> QED
      BY <3>5
  <2>2. \A t \in SUBSET s : t # {} => Earlier(t) \in SUBSET t /\ Earlier(t) # t
    BY EarlierPart
  <2>3. \A t \in SUBSET s : t # s => of(t)[t] = g[t]
    <3> SUFFICES ASSUME NEW t \in SUBSET s, t # s
                 PROVE  of(t)[t] = g[t]
      OBVIOUS
    <3>1. Joining(of(t), t)
      BY <2>1
    <3>2. CASE t = {}
      BY <3>1, <3>2 DEF Joining
    <3>3. CASE t # {}
      <4> DEFINE r == Earlier(t)
      <4>1. r \in SUBSET t /\ r \in SUBSET s /\ r # s /\ r \in SUBSET (1..m)
        BY <2>2, <3>3
      <4>2. Joining(of(r), r)
        BY <2>1, <4>1
      <4>3. Joining([u \in SUBSET r |-> of(t)[u]], r)
        <5> DEFINE v == [u \in SUBSET r |-> of(t)[u]]
        <5>1. Joining(of(t), t) /\ r \in SUBSET t
          BY <3>1, <4>1
        <5>2. v = [u \in SUBSET r |-> of(t)[u]]
          OBVIOUS
        <5> HIDE DEF v, r, of
        <5>3. Joining(v, r)
          BY <5>1, <5>2, JoiningPart
        <5> QED
          BY <5>2, <5>3
      <4>4. of(r) = [u \in SUBSET r |-> of(t)[u]]
        <5> HIDE DEF of, r
        <5> QED
          BY <4>1, <4>2, <4>3, JoiningOnce
      <4>5. of(Earlier(t))[Earlier(t)] = of(t)[Earlier(t)]
        <5>1. of(r)[r] = of(t)[r]
          <6> HIDE DEF of, r
          <6> QED
            BY <4>4
        <5> HIDE DEF of
        <5> QED
          BY <5>1
      <4>6. of(t)[t] = Egress!Deferred(of(t)[Earlier(t)], Refusals[Latest(t)])
        <5> HIDE DEF of, r
        <5> QED
          BY <3>1, <3>3 DEF Joining
      <4>7. g[t] = Egress!Deferred(of(Earlier(t))[Earlier(t)], Refusals[Latest(t)])
        <5> HIDE DEF of
        <5> QED
          BY <3>3
      <4> HIDE DEF of, g, r
      <4> QED
        BY <4>5, <4>6, <4>7, Zenon
    <3> QED
      BY <3>2, <3>3
  <2>4. ASSUME NEW t \in SUBSET s
        PROVE  g[t] = IF t = {} THEN eDerived
                      ELSE Egress!Deferred(g[Earlier(t)], Refusals[Latest(t)])
    <3>1. g[t] = IF t = {} THEN eDerived
                 ELSE Egress!Deferred(of(Earlier(t))[Earlier(t)], Refusals[Latest(t)])
      <4> HIDE DEF of
      <4> QED
        OBVIOUS
    <3>2. t # {} => of(Earlier(t))[Earlier(t)] = g[Earlier(t)]
      <4>1. t # {} => Earlier(t) \in SUBSET s /\ Earlier(t) # s
        BY <2>2
      <4> HIDE DEF of, g
      <4> QED
        BY <2>3, <4>1
    <3> HIDE DEF of, g
    <3> QED
      BY <3>1, <3>2
  <2>5. g = [t \in SUBSET s |-> g[t]]
    OBVIOUS
  <2>6. Joining(g, s)
    <3> HIDE DEF g
    <3> QED
      BY <2>4, <2>5 DEF Joining
  <2> QED
    BY <2>6
<1>3. SUBSET (1..m) \subseteq G
  <2> HIDE DEF G
  <2> QED
    BY <1>1, <1>2, FewerInduction
<1>4. 1..m \in SUBSET (1..m)
  OBVIOUS
<1> QED
  BY <1>3, <1>4

\* The derivation joins the refusals one by one.
LEMMA JoinedStepwise ==
    ASSUME NEW m \in Nat, DOMAIN Refusals = 1..m
    PROVE  \E D : /\ D[0] = eDerived /\ D[m] = Egress!Joined
                  /\ \A k \in 1..m : D[k] = Egress!Deferred(D[k - 1], Refusals[k])
<1>1. PICK g : Joining(g, 1..m) /\ Egress!Joined = g[1..m]
  <2>1. Joining(CHOOSE g : Joining(g, 1..m), 1..m)
    BY JoiningExists
  <2> QED
    BY <2>1, JoinedIs
<1> DEFINE D == [k \in 0..m |-> g[1..k]]
<1>2. D[0] = eDerived
  <2>1. D[0] = g[{}]
    BY 1..0 = {}
  <2> QED
    BY <1>1, <2>1 DEF Joining
<1>3. D[m] = Egress!Joined
  BY <1>1
<1>4. ASSUME NEW k \in 1..m  PROVE D[k] = Egress!Deferred(D[k - 1], Refusals[k])
  <2>1. 1..k \in SUBSET (1..m) /\ 1..k # {} /\ k \in Nat
    OBVIOUS
  <2>2. Latest(1..k) = k
    <3>1. Latest(1..k) \in 1..k /\ \A x \in 1..k : x <= Latest(1..k)
      BY <2>1, LatestOf
    <3> QED
      BY <2>1, <3>1
  <2>3. Earlier(1..k) = 1..(k - 1)
    BY <2>1, <2>2 DEF Earlier
  <2>4. g[1..k] = Egress!Deferred(g[1..(k - 1)], Refusals[k])
    BY <1>1, <2>1, <2>2, <2>3 DEF Joining
  <2>5. D[k] = g[1..k] /\ D[k - 1] = g[1..(k - 1)]
    BY <2>1
  <2> QED
    BY <2>4, <2>5, Zenon
<1> HIDE DEF D
<1> QED
  BY <1>2, <1>3, <1>4

\* When an attempt can have sent a packet, and what it is when one can.
FitOf(at, p, closed) ==
    CASE at.kind = "connect" -> IF p.proto = "tcp" /\ ~ closed THEN "several" ELSE Egress!None
      [] at.probe = "ping" ->
           IF p.proto = "echo" /\ at.packets = 0 THEN "one" ELSE Egress!None
      [] at.probe = "udp" /\ p.proto = "udp" ->
           IF at.len = p.len THEN (IF at.packets = 0 THEN "one" ELSE Egress!None)
           ELSE IF at.len > p.len THEN "several" ELSE Egress!None
      [] OTHER -> Egress!None

Apart(d, at, p, late) ==
    \/ d.crafted \/ at.delegated \/ at.netns = "host" \/ late
    \/ at.dest = Egress!None \/ at.dest # p.dst \/ at.sport # p.sport

LEMMA FitIs ==
    ASSUME NEW d, NEW a, NEW e
    PROVE  Egress!Fit(d, a, e) =
              IF Apart(d, d.attempts[a], e.packet, a > e.place) THEN Egress!None
              ELSE FitOf(d.attempts[a], e.packet, a \in e.closed)
BY Zenon DEF Egress!Fit, Egress!containerCrafted, FitOf, Apart

LEMMA FitsOne ==
    ASSUME NEW d, NEW a \in Nat, NEW e, NEW at, at = d.attempts[a], NEW p, p = e.packet,
           ~ d.crafted, ~ at.delegated, at.netns # "host", e.place \in Nat, a <= e.place,
           at.dest # Egress!None, at.dest = p.dst, at.sport = p.sport,
           at.kind # "connect", at.packets = 0,
           \/ at.probe = "ping" /\ p.proto = "echo"
           \/ at.probe = "udp" /\ p.proto = "udp" /\ at.len = p.len
    PROVE  Egress!Fit(d, a, e) = "one"
<1>1. ~ (a > e.place)
  OBVIOUS
<1>2. ~ Apart(d, at, p, a > e.place)
  BY <1>1, Zenon DEF Apart
<1>3. FitOf(at, p, a \in e.closed) = "one"
  <2>1. CASE at.probe = "ping"
    BY <2>1 DEF FitOf
  <2>2. CASE at.probe # "ping"
    BY <2>2 DEF FitOf
  <2> QED
    BY <2>1, <2>2
<1> QED
  BY <1>2, <1>3, FitIs

LEMMA FitsSeveral ==
    ASSUME NEW d, NEW a \in Nat, NEW e, NEW at, at = d.attempts[a], NEW p, p = e.packet,
           ~ d.crafted, ~ at.delegated, at.netns # "host", e.place \in Nat, a <= e.place,
           at.dest # Egress!None, at.dest = p.dst, at.sport = p.sport,
           at.len \in Nat, p.len \in Nat, at.kind = "connect" <=> at.probe = "tcp",
           \/ at.kind = "connect" /\ p.proto = "tcp" /\ a \notin e.closed
           \/ /\ at.kind # "connect" /\ at.probe = "udp" /\ p.proto = "udp"
              /\ at.len > p.len
    PROVE  Egress!Fit(d, a, e) = "several"
<1>1. ~ (a > e.place)
  OBVIOUS
<1>2. ~ Apart(d, at, p, a > e.place)
  BY <1>1, Zenon DEF Apart
<1>3. FitOf(at, p, a \in e.closed) = "several"
  <2>1. CASE at.kind = "connect"
    BY <2>1 DEF FitOf
  <2>2. CASE at.kind # "connect"
    <3>1. /\ at.probe = "udp" /\ p.proto = "udp" /\ at.probe # "ping"
          /\ at.len # p.len /\ at.len > p.len
      BY <2>2
    <3> QED
      BY <2>2, <3>1, Zenon DEF FitOf
  <2> QED
    BY <2>1, <2>2
<1> QED
  BY <1>2, <1>3, FitIs

LEMMA WhatFits ==
    ASSUME NEW d, NEW a, NEW e, NEW at, at = d.attempts[a], NEW p, p = e.packet,
           at.kind = "connect" <=> at.probe = "tcp", Egress!Fit(d, a, e) # Egress!None
    PROVE  /\ ~ d.crafted /\ ~ at.delegated /\ at.netns # "host"
           /\ at.dest = p.dst /\ at.sport = p.sport
           /\ Egress!Fit(d, a, e) = "one" =>
                 /\ at.kind # "connect" /\ at.packets = 0
                 /\ at.probe = "ping" \/ (at.probe = "udp" /\ at.len = p.len)
<1>1. ~ Apart(d, at, p, a > e.place)
  BY FitIs
<1>2. /\ ~ d.crafted /\ ~ at.delegated /\ at.netns # "host"
      /\ at.dest = p.dst /\ at.sport = p.sport
  BY <1>1, Zenon DEF Apart
<1>3. ASSUME FitOf(at, p, a \in e.closed) = "one"
      PROVE  /\ at.kind # "connect" /\ at.packets = 0
             /\ at.probe = "ping" \/ (at.probe = "udp" /\ at.len = p.len)
  <2>1. CASE at.kind = "connect"
    BY <1>3, <2>1 DEF FitOf, Egress!None
  <2>2. CASE at.kind # "connect" /\ at.probe = "ping"
    BY <1>3, <2>2 DEF FitOf, Egress!None
  <2>3. CASE at.kind # "connect" /\ at.probe # "ping" /\ at.probe = "udp" /\ p.proto = "udp"
    <3>1. "one" = IF at.len = p.len THEN (IF at.packets = 0 THEN "one" ELSE Egress!None)
                  ELSE IF at.len > p.len THEN "several" ELSE Egress!None
      BY <1>3, <2>3, Zenon DEF FitOf
    <3>2. at.len = p.len /\ at.packets = 0
      BY <3>1 DEF Egress!None
    <3> QED
      BY <2>3, <3>2
  <2>4. CASE at.kind # "connect" /\ at.probe # "ping" /\ ~ (at.probe = "udp" /\ p.proto = "udp")
    BY <1>3, <2>4 DEF FitOf, Egress!None
  <2> QED
    BY <2>1, <2>2, <2>3, <2>4
<1> QED
  BY <1>1, <1>2, <1>3, FitIs

-----------------------------------------------------------------------------

\* A datagram that was refused in segments.
Split(n) ==
    \E i \in DOMAIN Refusals :
        Refusals[i].by = n /\ Refusals[i].packet.len # Attempts[n].len

\* Datagrams that are as one: of a socket, to a destination, of a length, on a side
\* of the window.
Alike(a, b) ==
    /\ a.sk = b.sk /\ a.dest = b.dest /\ a.len = b.len
    /\ a.inWindow <=> b.inWindow

Mates(n) ==
    {a \in DOMAIN Attempts :
        /\ ~ Attempts[a].delegated /\ Attempts[a].kind = "send" /\ ~ Split(a)
        /\ Alike(Attempts[a], Attempts[n])}

Senders(k) == {Refusals[i].by : i \in 1..k}

Charged(d, n) == {a \in Mates(n) : d.attempts[a].packets # 0}

\* An attempt but for its packets.
Still(b, a) == b = [a EXCEPT !.packets = b.packets]

\* A packet that an attempt is charged with is of its socket and side of the window.
Accounted(d, n, k) ==
    d.attempts[n].packets # 0 =>
        \E i \in 1..k :
            /\ Refusals[i].by \in DOMAIN Attempts
            /\ Attempts[Refusals[i].by].sk = Attempts[n].sk
            /\ Attempts[Refusals[i].by].inWindow <=> Attempts[n].inWindow

\* The derivation when the first refusals are judged.  Of datagrams that are alike
\* no more are charged than were refused.
JoinedUpTo(d, k) ==
    /\ d \in EgressDerived /\ DOMAIN d.attempts = DOMAIN Attempts
    /\ d.crafted <=> eDerived.crafted
    /\ d.xsk <=> eDerived.xsk
    /\ \A n \in DOMAIN Attempts :
          /\ Still(d.attempts[n], Attempts[n])
          /\ IF Attempts[n].netns = "host" \/ eDerived.crafted
             THEN d.attempts[n].packets = Attempts[n].packets
             ELSE /\ Accounted(d, n, k)
                  /\ Cardinality(Charged(d, n)) <= Cardinality(Senders(k) \cap Mates(n))
    /\ \A drop \in d.drops : BySender(drop)

LEMMA MatesFinite ==
    ASSUME EgressTyped, NEW n, NEW S, S \subseteq Mates(n)
    PROVE  IsFiniteSet(S) /\ Cardinality(S) \in Nat
<1>1. IsFiniteSet(DOMAIN Attempts)
  BY EgressFacts, FS_Interval
<1>2. S \in SUBSET DOMAIN Attempts
  BY DEF Mates
<1> QED
  BY <1>1, <1>2, FS_Subset, FS_CardinalityType

LEMMA StillFields ==
    ASSUME NEW a \in EgressAttempt, NEW b, Still(b, a)
    PROVE  /\ b.kind = a.kind /\ b.probe = a.probe /\ b.sk = a.sk /\ b.netns = a.netns
           /\ b.dest = a.dest /\ b.len = a.len /\ b.ret = a.ret /\ b.sport = a.sport
           /\ b.delegated = a.delegated /\ b.inWindow = a.inWindow
           /\ b.established = a.established /\ b.closedInSynSent = a.closedInSynSent
BY DEF Still, EgressAttempt

LEMMA JoinedAtFirst ==
    ASSUME EgressInv
    PROVE  JoinedUpTo(eDerived, 0)
<1> USE DEF EgressInv
<1>1. /\ eDerived \in EgressDerived /\ DOMAIN eDerived.attempts = DOMAIN Attempts
      /\ \A drop \in eDerived.drops : BySender(drop)
  BY DEF EgressTyped, Attempts, JudgedHonestly
<1>2. ASSUME NEW n \in DOMAIN Attempts
      PROVE  /\ Still(eDerived.attempts[n], Attempts[n])
             /\ IF Attempts[n].netns = "host" \/ eDerived.crafted
                THEN eDerived.attempts[n].packets = Attempts[n].packets
                ELSE /\ Accounted(eDerived, n, 0)
                     /\ Cardinality(Charged(eDerived, n)) <= Cardinality(Senders(0) \cap Mates(n))
  <2>1. eDerived.attempts[n] = Attempts[n] /\ Attempts[n] \in EgressAttempt
    BY EgressFacts DEF Attempts
  <2>2. Still(eDerived.attempts[n], Attempts[n])
    BY <2>1 DEF Still, EgressAttempt
  <2>3. ASSUME Attempts[n].netns # "host"
        PROVE  /\ Accounted(eDerived, n, 0)
               /\ Cardinality(Charged(eDerived, n)) <= Cardinality(Senders(0) \cap Mates(n))
    <3>1. \A a \in Mates(n) : a \in DOMAIN Attempts /\ Attempts[a].netns # "host"
      BY <2>3 DEF Mates, Alike, AttemptsMade, AttemptMade
    <3>2. \A a \in Mates(n) : eDerived.attempts[a].packets = 0
      BY <3>1 DEF AttemptsMade, AttemptMade, Attempts
    <3>3. Charged(eDerived, n) = {}
      BY <3>2 DEF Charged
    <3>4. Accounted(eDerived, n, 0)
      BY <2>1, <2>3 DEF Accounted, AttemptsMade, AttemptMade
    <3>5. Cardinality(Senders(0) \cap Mates(n)) \in Nat
      BY MatesFinite
    <3> QED
      BY <3>3, <3>4, <3>5, FS_EmptySet
  <2> QED
    BY <2>1, <2>2, <2>3
<1> QED
  BY <1>1, <1>2 DEF JoinedUpTo

\* At the end of a capture that lets the calls return, their ports are known.
LEMMA AllReturned ==
    ASSUME EgressInv, CallsReturn, eWindow = "stopped", NEW n \in DOMAIN Attempts
    PROVE  /\ Attempts[n].ret # Egress!NoReturn
           /\ Attempts[n].sport = SportOf(Attempts[n].sk)
           /\ Attempts[n] \in EgressAttempt /\ Attempts[n].sk \in EgressSocket
<1> USE DEF EgressInv
<1>1. Attempts[n] \in EgressAttempt
  BY EgressFacts
<1>2. Attempts[n].sk \in EgressSocket
  BY <1>1 DEF EgressAttempt
<1>3. Len(eCalls[Attempts[n].sk]) = 0
  BY <1>2 DEF SentReturnsWell
<1>4. 1..0 = {}
  OBVIOUS
<1>5. Attempts[n].ret # Egress!NoReturn
  BY <1>3, <1>4 DEF CallsMirrored, ReturnAwaited
<1> QED
  BY <1>1, <1>2, <1>5 DEF AttemptsMade, AttemptMade

\* The sender of a refused packet that is not a kernel's answer.
SenderOf(t, r) ==
    LET a == Attempts[t]
        p == r.packet
    IN /\ t \in DOMAIN Attempts /\ t \in Nat /\ a \in EgressAttempt /\ a.sk \in EgressSocket
       /\ ~ a.delegated /\ a.netns # "host" /\ a.netns = EgressNetns[a.sk]
       /\ a.probe = EgressProbe[a.sk] /\ a.probe \in {"udp", "ping", "tcp"}
       /\ a.kind = "connect" <=> a.probe = "tcp"
       /\ a.dest # Egress!None /\ a.dest = p.dst /\ a.sport = p.sport
       /\ p.proto = CASE a.probe = "tcp" -> "tcp" [] a.probe = "ping" -> "echo" [] OTHER -> "udp"
       /\ t <= r.place /\ t \notin r.closed /\ r.place \in Nat
       /\ a.len \in Nat /\ p.len \in Nat
       /\ a.probe \in {"ping", "tcp"} => p.len = a.len
       /\ p.len = a.len \/ a.len > p.len

LEMMA SenderIs ==
    ASSUME EgressInv, CallsReturn, eWindow = "stopped", ~ eDerived.crafted,
           NEW k \in DOMAIN Refusals, NEW r, r = Refusals[k], r.by # Egress!Kernel
    PROVE  SenderOf(r.by, r)
<1> USE DEF EgressInv
<1> DEFINE t == r.by
           a == Attempts[t]
           p == r.packet
<1>1. OfAttempt(t, p) /\ t <= r.place /\ t \notin r.closed
  BY DEF PacketsKnown, PacketRefused
<1>2. t \in DOMAIN Attempts /\ ~ a.delegated /\ a.netns # "host" /\ a.probe # "pkt"
  BY <1>1 DEF OfAttempt
<1>3. /\ a \in EgressAttempt /\ a.sk \in EgressSocket /\ a.sport = SportOf(a.sk)
      /\ t \in Nat
  BY <1>2, AllReturned, EgressFacts
<1>4. a.dest \in EgressDest /\ a.dest # Egress!None
  BY <1>2, EgressAssumed DEF AttemptsMade, AttemptMade
<1>5. /\ a.probe = EgressProbe[a.sk] /\ a.netns = EgressNetns[a.sk]
      /\ a.kind = "connect" <=> a.probe = "tcp"
      /\ a.probe \in {"ping", "tcp", "pkt"} => a.len = 1
  BY <1>2 DEF AttemptsMade, AttemptMade
<1>6. a.probe \in {"udp", "ping", "tcp"} /\ a.len \in Nat
  BY <1>2, <1>3, <1>5, EgressAssumed DEF EgressAttempt
<1>7. r \in EgressRefusal /\ r.place \in Nat /\ p.len \in Nat
  <2>1. r \in EgressRefusal
    BY EgressFacts
  <2> QED
    BY <2>1 DEF EgressRefusal, EgressPacket
<1>8. \/ p = Egress!PacketOf(a.sk, a.dest, a.len)
      \/ a.len = 2 /\ p = Egress!PacketOf(a.sk, a.dest, 1)
  BY <1>1 DEF OfAttempt
<1>9. PICK len : /\ p = Egress!PacketOf(a.sk, a.dest, len)
                 /\ len = a.len \/ (a.len = 2 /\ len = 1)
  BY <1>8
<1>10. /\ p.dst = a.dest /\ p.len = len
       /\ p.sport = IF EgressProbe[a.sk] = "ping" THEN Egress!NoPort ELSE EgressPort[a.sk]
       /\ p.proto = CASE EgressProbe[a.sk] = "tcp" -> "tcp" [] EgressProbe[a.sk] = "ping" -> "echo"
                      [] OTHER -> "udp"
  BY <1>9 DEF Egress!PacketOf
<1>11. p.sport = a.sport
  BY <1>3, <1>5, <1>6, <1>10 DEF SportOf
<1>12. /\ a.probe \in {"ping", "tcp"} => p.len = a.len
       /\ p.len = a.len \/ a.len > p.len
  BY <1>5, <1>9, <1>10
<1> QED
  BY <1>1, <1>2, <1>3, <1>4, <1>5, <1>6, <1>7, <1>10, <1>11, <1>12 DEF SenderOf

LEMMA SendersGrow ==
    ASSUME NEW k \in Nat, k # 0
    PROVE  Senders(k) = Senders(k - 1) \cup {Refusals[k].by}
<1>1. 1..k = (1..(k - 1)) \cup {k}
  OBVIOUS
<1> QED
  BY <1>1 DEF Senders

\* More senders are as many or more.
LEMMA SendersCount ==
    ASSUME EgressTyped, NEW n, NEW k \in Nat, k # 0
    PROVE  /\ Cardinality(Senders(k - 1) \cap Mates(n)) \in Nat
           /\ Cardinality(Senders(k) \cap Mates(n)) \in Nat
           /\ Cardinality(Senders(k - 1) \cap Mates(n)) <= Cardinality(Senders(k) \cap Mates(n))
           /\ Refusals[k].by \in Mates(n) /\ Refusals[k].by \notin Senders(k - 1) =>
                 Cardinality(Senders(k) \cap Mates(n)) =
                    Cardinality(Senders(k - 1) \cap Mates(n)) + 1
<1> DEFINE W == Senders(k - 1) \cap Mates(n)
           V == Senders(k) \cap Mates(n)
           t == Refusals[k].by
<1>1. /\ IsFiniteSet(W) /\ Cardinality(W) \in Nat
      /\ IsFiniteSet(V) /\ Cardinality(V) \in Nat
  BY MatesFinite
<1>2. W \in SUBSET V
  BY SendersGrow
<1>3. Cardinality(W) <= Cardinality(V)
  BY <1>1, <1>2, FS_Subset
<1>4. ASSUME t \in Mates(n), t \notin Senders(k - 1)
      PROVE  Cardinality(V) = Cardinality(W) + 1
  <2>1. V = W \cup {t} /\ t \notin W
    BY <1>4, SendersGrow
  <2> QED
    BY <1>1, <2>1, FS_AddElement
<1> QED
  BY <1>1, <1>3, <1>4

\* A packet that no attempt is charged with.
LEMMA UnnamedKeeps ==
    ASSUME EgressInv, NEW k \in DOMAIN Refusals, k \in Nat, k # 0, NEW d, JoinedUpTo(d, k - 1),
           NEW class \in EgressClass, class # "ATTEMPT_PACKET",
           NEW r, r = Refusals[k], class # "UNATTRIBUTED" => r.by = Egress!Kernel,
           NEW a \in Nat, NEW e, e = Egress!Judged(d, class, a, r)
    PROVE  JoinedUpTo(e, k)
<1> USE DEF EgressInv
<1> DEFINE drop == [class |-> class, attempt |-> a, by |-> r.by]
<1>1. r.by \in Int
  BY EgressFacts DEF EgressRefusal
<1>2. d \in EgressDerived
  BY DEF JoinedUpTo
<1>3. /\ e \in EgressDerived /\ e.attempts = d.attempts /\ e.drops = d.drops \cup {drop}
      /\ e.crafted = d.crafted /\ e.xsk = d.xsk
  BY ONLY <1>1, <1>2, class \in EgressClass, class # "ATTEMPT_PACKET", a \in Nat,
          e = Egress!Judged(d, class, a, r), JudgedOtherwise
<1>4. BySender(drop)
  BY DEF BySender
<1>5. \A c \in e.drops : BySender(c)
  <2> HIDE DEF drop
  <2> QED
    BY <1>3, <1>4 DEF JoinedUpTo
<1>6. ASSUME NEW n \in DOMAIN Attempts
      PROVE  /\ Still(e.attempts[n], Attempts[n])
             /\ IF Attempts[n].netns = "host" \/ eDerived.crafted
                THEN e.attempts[n].packets = Attempts[n].packets
                ELSE /\ Accounted(e, n, k)
                     /\ Cardinality(Charged(e, n)) <= Cardinality(Senders(k) \cap Mates(n))
  <2>1. /\ Still(d.attempts[n], Attempts[n])
        /\ IF Attempts[n].netns = "host" \/ eDerived.crafted
           THEN d.attempts[n].packets = Attempts[n].packets
           ELSE /\ Accounted(d, n, k - 1)
                /\ Cardinality(Charged(d, n)) <= Cardinality(Senders(k - 1) \cap Mates(n))
    BY DEF JoinedUpTo
  <2>2. Charged(e, n) = Charged(d, n)
    BY <1>3 DEF Charged
  <2>3. Accounted(d, n, k - 1) => Accounted(e, n, k)
    <3>1. 1..(k - 1) \subseteq 1..k
      OBVIOUS
    <3> QED
      BY <1>3, <3>1 DEF Accounted
  <2>4. Cardinality(Charged(d, n)) \in Nat
    BY MatesFinite DEF Charged
  <2>5. Cardinality(Charged(d, n)) <= Cardinality(Senders(k - 1) \cap Mates(n))
           => Cardinality(Charged(e, n)) <= Cardinality(Senders(k) \cap Mates(n))
    <3> DEFINE c == Cardinality(Charged(d, n))
               w == Cardinality(Senders(k - 1) \cap Mates(n))
               v == Cardinality(Senders(k) \cap Mates(n))
    <3>1. w \in Nat /\ v \in Nat /\ w <= v
      BY SendersCount
    <3>2. c \in Nat /\ Cardinality(Charged(e, n)) = c
      BY <2>2, <2>4
    <3> HIDE DEF c, w, v
    <3>3. c <= w => c <= v
      BY <3>1, <3>2
    <3> QED
      BY <3>2, <3>3 DEF c, w, v
  <2> QED
    BY <1>3, <2>1, <2>3, <2>5, Zenon
<1>7. /\ DOMAIN e.attempts = DOMAIN Attempts
      /\ e.crafted <=> eDerived.crafted
      /\ e.xsk <=> eDerived.xsk
  BY <1>3, Zenon DEF JoinedUpTo
<1> QED
  BY <1>3, <1>5, <1>6, <1>7, Zenon DEF JoinedUpTo

\* A packet that an attempt is charged with that is as its sender.
LEMMA NamedKeeps ==
    ASSUME EgressInv, NEW k \in DOMAIN Refusals, k \in Nat, k # 0, NEW d, JoinedUpTo(d, k - 1),
           ~ eDerived.crafted, NEW x \in DOMAIN Attempts, Attempts[x].netns # "host",
           NEW t, t = Refusals[k].by, t \in DOMAIN Attempts,
           Attempts[t].sk = Attempts[x].sk,
           Attempts[t].inWindow <=> Attempts[x].inWindow,
           \A n \in DOMAIN Attempts : x \in Mates(n) => t \in Mates(n) /\ t \notin Senders(k - 1),
           NEW e, e = Egress!Judged(d, "ATTEMPT_PACKET", x, Refusals[k])
    PROVE  JoinedUpTo(e, k)
<1> USE DEF EgressInv
<1> DEFINE r == Refusals[k]
           drop == [class |-> "ATTEMPT_PACKET", attempt |-> x, by |-> t]
           at == [d.attempts[x] EXCEPT !.packets = d.attempts[x].packets + 1]
<1>1. t \in Int /\ x \in Nat
  BY EgressFacts DEF EgressRefusal
<1>2. d \in EgressDerived /\ DOMAIN d.attempts = DOMAIN Attempts
  BY DEF JoinedUpTo
<1>3. /\ e \in EgressDerived /\ e.attempts = [d.attempts EXCEPT ![x] = at]
      /\ e.drops = d.drops \cup {drop}
      /\ e.crafted = d.crafted /\ e.xsk = d.xsk
  BY <1>1, <1>2, JudgedPacket
<1>4. BySender(drop)
  BY DEF BySender
<1>5. \A c \in e.drops : BySender(c)
  <2> HIDE DEF drop
  <2> QED
    BY <1>3, <1>4 DEF JoinedUpTo
<1>6. /\ DOMAIN e.attempts = DOMAIN Attempts /\ e.attempts[x] = at
      /\ \A n \in DOMAIN Attempts : n # x => e.attempts[n] = d.attempts[n]
  <2> HIDE DEF at
  <2> QED
    BY <1>2, <1>3
<1>7. Still(at, Attempts[x]) /\ at.packets # 0
  <2>1. d.attempts[x] \in EgressAttempt
    BY <1>2 DEF EgressDerived
  <2>2. d.attempts[x] = [Attempts[x] EXCEPT !.packets = d.attempts[x].packets]
    BY DEF JoinedUpTo, Still
  <2>3. Attempts[x] \in EgressAttempt /\ d.attempts[x].packets \in Nat
    BY <2>1, EgressFacts DEF EgressAttempt
  <2>4. PICK q \in Nat : q = d.attempts[x].packets
    BY <2>3
  <2>5. at = [[Attempts[x] EXCEPT !.packets = q] EXCEPT !.packets = q + 1]
    BY <2>2, <2>4
  <2>6. at = [Attempts[x] EXCEPT !.packets = q + 1] /\ at.packets = q + 1
    BY <2>3, <2>5 DEF EgressAttempt
  <2> QED
    BY <2>4, <2>6 DEF Still
<1> HIDE DEF at
<1>8. ASSUME NEW n \in DOMAIN Attempts
      PROVE  /\ Still(e.attempts[n], Attempts[n])
             /\ IF Attempts[n].netns = "host" \/ eDerived.crafted
                THEN e.attempts[n].packets = Attempts[n].packets
                ELSE /\ Accounted(e, n, k)
                     /\ Cardinality(Charged(e, n)) <= Cardinality(Senders(k) \cap Mates(n))
  <2>1. /\ Still(d.attempts[n], Attempts[n])
        /\ IF Attempts[n].netns = "host"
           THEN d.attempts[n].packets = Attempts[n].packets
           ELSE /\ Accounted(d, n, k - 1)
                /\ Cardinality(Charged(d, n)) <= Cardinality(Senders(k - 1) \cap Mates(n))
    BY DEF JoinedUpTo
  <2>2. CASE Attempts[n].netns = "host"
    <3>1. n # x
      BY <2>2
    <3> QED
      BY <1>6, <2>1, <2>2, <3>1
  <2>3. CASE Attempts[n].netns # "host"
    <3>1. Accounted(e, n, k)
      <4>1. CASE n = x
        <5>1. k \in 1..k
          OBVIOUS
        <5> QED
          BY <4>1, <5>1, Zenon DEF Accounted
      <4>2. CASE n # x
        <5>1. 1..(k - 1) \subseteq 1..k
          OBVIOUS
        <5> QED
          BY <1>6, <2>1, <2>3, <4>2, <5>1 DEF Accounted
      <4> QED
        BY <4>1, <4>2
    <3>2. Cardinality(Charged(e, n)) <= Cardinality(Senders(k) \cap Mates(n))
      <4> DEFINE C == Charged(d, n)
                 E == Charged(e, n)
                 W == Senders(k - 1) \cap Mates(n)
                 V == Senders(k) \cap Mates(n)
      <4>1. /\ IsFiniteSet(C) /\ Cardinality(C) \in Nat
            /\ IsFiniteSet(E) /\ Cardinality(E) \in Nat
        BY MatesFinite DEF Charged
      <4>2. /\ Cardinality(W) \in Nat /\ Cardinality(V) \in Nat
            /\ Cardinality(W) <= Cardinality(V)
            /\ t \in Mates(n) /\ t \notin Senders(k - 1) => Cardinality(V) = Cardinality(W) + 1
        BY SendersCount
      <4>3. Cardinality(C) <= Cardinality(W)
        BY <2>1, <2>3
      <4>4. CASE x \in Mates(n)
        <5>1. E \in SUBSET (C \cup {x})
          BY <1>6 DEF Charged, Mates
        <5>2. /\ IsFiniteSet(C \cup {x}) /\ Cardinality(C \cup {x}) \in Nat
              /\ Cardinality(C \cup {x}) <= Cardinality(C) + 1
          <6> HIDE DEF C
          <6>1. /\ IsFiniteSet(C \cup {x})
                /\ Cardinality(C \cup {x}) =
                     IF x \in C THEN Cardinality(C) ELSE Cardinality(C) + 1
            BY <4>1, FS_AddElement
          <6> DEFINE c == Cardinality(C)
                     u == Cardinality(C \cup {x})
          <6>2. c \in Nat /\ (u = c \/ u = c + 1)
            BY <4>1, <6>1
          <6> HIDE DEF c, u
          <6>3. u \in Nat /\ u <= c + 1
            BY <6>2
          <6> QED
            BY <6>1, <6>3 DEF c, u
        <5>3. Cardinality(E) <= Cardinality(C \cup {x})
          BY <5>1, <5>2, FS_Subset
        <5>4. Cardinality(V) = Cardinality(W) + 1
          BY <4>2, <4>4
        <5> HIDE DEF C, E, V, W
        <5>5. Cardinality(E) <= Cardinality(V)
          BY <4>1, <4>2, <4>3, <5>2, <5>3, <5>4
        <5> QED
          BY <5>5 DEF E, V
      <4>5. CASE x \notin Mates(n)
        <5>1. E = C
          BY <1>6, <4>5 DEF Charged, Mates
        <5> QED
          BY <4>1, <4>2, <4>3, <5>1
      <4> QED
        BY <4>4, <4>5
    <3>3. Still(e.attempts[n], Attempts[n])
      BY <1>6, <1>7, <2>1
    <3> QED
      BY <2>3, <3>1, <3>2, <3>3
  <2> QED
    BY <2>2, <2>3
<1>9. /\ e.crafted <=> eDerived.crafted
      /\ e.xsk <=> eDerived.xsk
  BY <1>3, Zenon DEF JoinedUpTo
<1> QED
  BY <1>3, <1>5, <1>6, <1>8, <1>9, Zenon DEF JoinedUpTo

\* A datagram that was refused whole was not refused before.
LEMMA WholeSender ==
    ASSUME EgressInv, CallsReturn, eWindow = "stopped", ~ eDerived.crafted,
           NEW k \in DOMAIN Refusals, NEW r, r = Refusals[k], NEW t, t = r.by, t # Egress!Kernel,
           Attempts[t].kind = "send", r.packet.len = Attempts[t].len
    PROVE  t \in Mates(t) /\ t \notin Senders(k - 1)
<1> USE DEF EgressInv
<1>1. t \in DOMAIN Attempts /\ ~ Attempts[t].delegated
  BY SenderIs DEF SenderOf
<1>2. \A j \in DOMAIN Refusals : Refusals[j].by = t => j = k
  BY <1>1 DEF WholeOnce, WholeRefused
<1>3. ~ Split(t)
  BY <1>2 DEF Split
<1>4. DOMAIN Refusals = 1..Len(Refusals) /\ Len(Refusals) \in Nat /\ k \in Nat
  BY EgressFacts
<1>5. t \notin Senders(k - 1)
  <2> SUFFICES ASSUME NEW i \in 1..(k - 1), Refusals[i].by = t  PROVE FALSE
    BY DEF Senders
  <2>1. i \in DOMAIN Refusals /\ i # k
    BY <1>4
  <2> QED
    BY <1>2, <2>1
<1> QED
  BY <1>1, <1>3, <1>5 DEF Mates, Alike

\* One that is as it, and was entered in time, is not charged yet: there are as many
\* as were refused.
LEMMA FreeMate ==
    ASSUME EgressInv, CallsReturn, eWindow = "stopped", ~ eDerived.crafted,
           NEW k \in DOMAIN Refusals, NEW r, r = Refusals[k], NEW t, t = r.by, t # Egress!Kernel,
           Attempts[t].kind = "send", r.packet.len = Attempts[t].len,
           NEW d, JoinedUpTo(d, k - 1)
    PROVE  \E c \in Mates(t) : c <= r.place /\ d.attempts[c].packets = 0
<1> USE DEF EgressInv
<1> DEFINE P == {a \in Mates(t) : a <= r.place}
           W == Senders(k - 1) \cap Mates(t)
           C == Charged(d, t)
<1> SUFFICES ASSUME \A c \in Mates(t) : c <= r.place => d.attempts[c].packets # 0
             PROVE  FALSE
  OBVIOUS
<1>1. t \in Mates(t) /\ t \notin Senders(k - 1)
  BY WholeSender
<1>2. t <= r.place /\ t \in DOMAIN Attempts /\ Attempts[t].netns # "host" /\ r.place \in Nat
  BY SenderIs DEF SenderOf
<1>3. DOMAIN Refusals = 1..Len(Refusals) /\ Len(Refusals) \in Nat /\ k \in 1..Len(Refusals)
  BY EgressFacts
<1>4. W \subseteq P
  <2> SUFFICES ASSUME NEW i \in 1..(k - 1), Refusals[i].by \in Mates(t)
               PROVE  Refusals[i].by <= r.place
    BY DEF Senders
  <2>1. i \in DOMAIN Refusals /\ i <= k
    BY <1>3
  <2>2. Refusals[i].by \in Nat /\ Refusals[i].by # Egress!Kernel
    <3>1. Refusals[i].by \in DOMAIN Attempts
      BY DEF Mates
    <3> QED
      BY <3>1, EgressFacts DEF Egress!Kernel
  <2>3. Refusals[i].by <= Refusals[i].place /\ Refusals[i].place \in Nat
    BY <2>1, <2>2, SenderIs DEF SenderOf
  <2>4. Refusals[i].place <= r.place
    BY <2>1 DEF PacketsKnown
  <2> QED
    BY <1>2, <2>2, <2>3, <2>4
<1>5. W \cup {t} \in SUBSET P /\ t \notin W
  BY <1>1, <1>2, <1>4
<1>6. P \in SUBSET C
  BY DEF Charged
<1>7. /\ IsFiniteSet(P) /\ Cardinality(P) \in Nat
      /\ IsFiniteSet(W) /\ Cardinality(W) \in Nat
      /\ IsFiniteSet(C) /\ Cardinality(C) \in Nat
  <2>1. P \subseteq Mates(t) /\ W \subseteq Mates(t) /\ C \subseteq Mates(t)
    BY DEF Charged
  <2> HIDE DEF P, W, C
  <2> QED
    BY <2>1, MatesFinite
<1>8. Cardinality(C) <= Cardinality(W)
  BY <1>2 DEF JoinedUpTo
<1> HIDE DEF P, W, C
<1>9. IsFiniteSet(W \cup {t}) /\ Cardinality(W \cup {t}) = Cardinality(W) + 1
  BY <1>5, <1>7, FS_AddElement
<1>10. Cardinality(W \cup {t}) <= Cardinality(P)
  BY <1>5, <1>7, FS_Subset
<1>11. Cardinality(P) <= Cardinality(C)
  BY <1>6, <1>7, FS_Subset
<1> QED
  BY <1>7, <1>8, <1>9, <1>10, <1>11

\* Such a one fits the packet.
LEMMA MateFits ==
    ASSUME EgressInv, CallsReturn, eWindow = "stopped", ~ eDerived.crafted,
           NEW k \in DOMAIN Refusals, NEW r, r = Refusals[k], NEW t, t = r.by, t # Egress!Kernel,
           Attempts[t].kind = "send", r.packet.len = Attempts[t].len,
           NEW d, JoinedUpTo(d, k - 1),
           NEW c \in Mates(t), c <= r.place, d.attempts[c].packets = 0
    PROVE  Egress!Fit(d, c, r) = "one"
<1> USE DEF EgressInv
<1> DEFINE a == Attempts[t]
           b == Attempts[c]
           at == d.attempts[c]
           p == r.packet
<1>1. SenderOf(t, r)
  BY SenderIs
<1>2. c \in DOMAIN Attempts /\ c \in Nat /\ b \in EgressAttempt /\ b.sport = SportOf(b.sk)
  BY AllReturned, EgressFacts DEF Mates
<1>3. t \in DOMAIN Attempts /\ a.sport = SportOf(a.sk)
  BY <1>1, AllReturned DEF SenderOf
<1>4. b.sk = a.sk /\ b.dest = a.dest /\ b.len = a.len /\ b.kind = "send" /\ ~ b.delegated
  BY DEF Mates, Alike
<1>5. b.probe = EgressProbe[b.sk] /\ b.netns = EgressNetns[b.sk]
  BY <1>2, <1>4 DEF AttemptsMade, AttemptMade
<1>6. /\ a.probe = EgressProbe[a.sk] /\ a.netns = EgressNetns[a.sk] /\ a.netns # "host"
      /\ a.probe \in {"udp", "ping"} /\ a.dest # Egress!None /\ a.dest = p.dst
      /\ a.sport = p.sport /\ r.place \in Nat
      /\ p.proto = CASE a.probe = "tcp" -> "tcp" [] a.probe = "ping" -> "echo" [] OTHER -> "udp"
  BY <1>1 DEF SenderOf
<1>7. \/ a.probe = "ping" /\ p.proto = "echo"
      \/ a.probe = "udp" /\ p.proto = "udp"
  BY <1>6
<1>8. Still(at, b)
  BY <1>2 DEF JoinedUpTo
<1>9. /\ at.kind = b.kind /\ at.probe = b.probe /\ at.sk = b.sk /\ at.netns = b.netns
      /\ at.dest = b.dest /\ at.len = b.len /\ at.sport = b.sport
      /\ at.delegated = b.delegated
  BY <1>2, <1>8, StillFields
<1>10. ~ d.crafted
  BY DEF JoinedUpTo
<1>11. /\ ~ at.delegated /\ at.netns # "host" /\ at.dest # Egress!None /\ at.dest = p.dst
       /\ at.sport = p.sport /\ at.kind # "connect" /\ at.packets = 0
       /\ \/ at.probe = "ping" /\ p.proto = "echo"
          \/ at.probe = "udp" /\ p.proto = "udp" /\ at.len = p.len
  <2>1. ~ at.delegated
    BY <1>4, <1>9, Zenon
  <2>2. /\ at.netns # "host" /\ at.dest # Egress!None /\ at.dest = p.dst
        /\ at.sport = p.sport /\ at.kind = "send" /\ at.probe = a.probe
        /\ at.len = p.len
    <3> HIDE DEF a, b, at, p
    <3>1. at.netns = a.netns /\ at.probe = a.probe
      BY <1>4, <1>5, <1>6, <1>9
    <3>2. at.dest = a.dest /\ at.len = a.len /\ at.kind = "send"
      BY <1>4, <1>9
    <3>3. at.sport = a.sport
      BY <1>2, <1>3, <1>4, <1>9
    <3>4. p.len = a.len
      BY DEF p, a
    <3> QED
      BY <1>6, <3>1, <3>2, <3>3, <3>4
  <2> HIDE DEF a, b, at, p
  <2> QED
    BY <1>7, <2>1, <2>2 DEF at
<1> HIDE DEF a, b
<1> QED
  BY <1>2, <1>6, <1>10, <1>11, FitsOne

LEMMA SameCardinality ==
    ASSUME NEW S
    PROVE  Egress!Cardinality(S) = Cardinality(S)
BY DEF Egress!Cardinality, Egress!IsFiniteSet, Cardinality, IsFiniteSet

\* Who is named is the only candidate, or is as all the others.
LEMMA NamedIs ==
    ASSUME NEW d, NEW e, NEW C, IsFiniteSet(C), Egress!Named(d, e, C)
    PROVE  /\ C # {}
           /\ \A x, c \in C :
                 \/ c = x
                 \/ /\ Egress!Fit(d, x, e) = "one"
                    /\ d.attempts[x].sk = d.attempts[c].sk
                    /\ d.attempts[x].inWindow = d.attempts[c].inWindow
<1>1. C # {}
  BY FS_EmptySet, SameCardinality DEF Egress!Named
<1>2. CASE Cardinality(C) = 1
  <2>1. PICK y : C = {y}
    BY <1>2, FS_Singleton
  <2> QED
    BY <1>1, <2>1
<1>3. CASE Cardinality(C) # 1
  <2>1. /\ \A a \in C : Egress!Fit(d, a, e) = "one"
        /\ \A a, b \in C : /\ d.attempts[a].sk = d.attempts[b].sk
                           /\ d.attempts[a].inWindow = d.attempts[b].inWindow
    BY <1>3, SameCardinality, Zenon DEF Egress!Named
  <2> QED
    BY <1>1, <2>1, Zenon
<1> QED
  BY <1>1, <1>2, <1>3

\* Each packet that is judged at the end is charged to an attempt that is as its sender.
LEMMA NamedRightly ==
    ASSUME EgressInv, CallsReturn, eWindow = "stopped",
           NEW k \in DOMAIN Refusals, NEW r, r = Refusals[k],
           NEW d, JoinedUpTo(d, k - 1), ~ Egress!kernelMessage(d, r.packet),
           NEW C, C = {a \in DOMAIN d.attempts : Egress!Fit(d, a, r) # Egress!None},
           Egress!Named(d, r, C),
           NEW x \in C, NEW t, t = r.by
    PROVE  /\ ~ eDerived.crafted
           /\ x \in DOMAIN Attempts /\ Attempts[x].netns # "host"
           /\ t \in DOMAIN Attempts /\ Attempts[t].sk = Attempts[x].sk
           /\ Attempts[t].inWindow <=> Attempts[x].inWindow
           /\ \A n \in DOMAIN Attempts :
                 x \in Mates(n) => t \in Mates(n) /\ t \notin Senders(k - 1)
<1> USE DEF EgressInv
<1>1. /\ DOMAIN Attempts = 1..Len(Attempts) /\ Len(Attempts) \in Nat
      /\ DOMAIN d.attempts = DOMAIN Attempts
  BY EgressFacts DEF JoinedUpTo
<1>2. C \subseteq DOMAIN Attempts
  BY <1>1
<1>3. C \subseteq Nat /\ IsFiniteSet(C)
  <2>1. IsFiniteSet(1..Len(Attempts))
    BY <1>1, FS_Interval
  <2> QED
    BY <1>1, <1>2, <2>1, FS_Subset
<1>4. \A c \in C :
         \/ c = x
         \/ /\ Egress!Fit(d, x, r) = "one"
            /\ d.attempts[x].sk = d.attempts[c].sk
            /\ d.attempts[x].inWindow = d.attempts[c].inWindow
  BY <1>3, NamedIs
<1>5. \A n \in DOMAIN Attempts :
         /\ Attempts[n] \in EgressAttempt
         /\ d.attempts[n].kind = Attempts[n].kind /\ d.attempts[n].probe = Attempts[n].probe
         /\ d.attempts[n].sk = Attempts[n].sk /\ d.attempts[n].netns = Attempts[n].netns
         /\ d.attempts[n].dest = Attempts[n].dest /\ d.attempts[n].len = Attempts[n].len
         /\ d.attempts[n].sport = Attempts[n].sport
         /\ d.attempts[n].delegated = Attempts[n].delegated
         /\ d.attempts[n].inWindow = Attempts[n].inWindow
  <2> SUFFICES ASSUME NEW n \in DOMAIN Attempts
               PROVE  /\ Attempts[n] \in EgressAttempt
                      /\ d.attempts[n].kind = Attempts[n].kind
                      /\ d.attempts[n].probe = Attempts[n].probe
                      /\ d.attempts[n].sk = Attempts[n].sk
                      /\ d.attempts[n].netns = Attempts[n].netns
                      /\ d.attempts[n].dest = Attempts[n].dest
                      /\ d.attempts[n].len = Attempts[n].len
                      /\ d.attempts[n].sport = Attempts[n].sport
                      /\ d.attempts[n].delegated = Attempts[n].delegated
                      /\ d.attempts[n].inWindow = Attempts[n].inWindow
    OBVIOUS
  <2>1. Attempts[n] \in EgressAttempt /\ Still(d.attempts[n], Attempts[n])
    BY EgressFacts DEF JoinedUpTo
  <2> QED
    BY <2>1, StillFields
<1>6. x \in DOMAIN Attempts /\ Egress!Fit(d, x, r) # Egress!None
  BY <1>2, <1>4
<1>7. /\ ~ d.crafted /\ ~ Attempts[x].delegated /\ Attempts[x].netns # "host"
      /\ Attempts[x].dest = r.packet.dst
      /\ Egress!Fit(d, x, r) = "one" =>
            /\ Attempts[x].kind # "connect"
            /\ Attempts[x].probe = "ping" \/ (Attempts[x].probe = "udp"
                                                /\ Attempts[x].len = r.packet.len)
  <2>1. Attempts[x].kind = "connect" <=> Attempts[x].probe = "tcp"
    BY <1>6 DEF AttemptsMade, AttemptMade
  <2>2. d.attempts[x].kind = "connect" <=> d.attempts[x].probe = "tcp"
    BY <1>5, <1>6, <2>1
  <2>3. /\ ~ d.crafted /\ ~ d.attempts[x].delegated /\ d.attempts[x].netns # "host"
        /\ d.attempts[x].dest = r.packet.dst
        /\ Egress!Fit(d, x, r) = "one" =>
            /\ d.attempts[x].kind # "connect"
            /\ d.attempts[x].probe = "ping" \/ (d.attempts[x].probe = "udp"
                                                  /\ d.attempts[x].len = r.packet.len)
    <3> DEFINE at == d.attempts[x]
               p == r.packet
    <3>1. at = d.attempts[x] /\ p = r.packet
      OBVIOUS
    <3>2. at.kind = "connect" <=> at.probe = "tcp"
      BY <2>2
    <3> HIDE DEF at, p
    <3>3. /\ ~ d.crafted /\ ~ at.delegated /\ at.netns # "host"
          /\ at.dest = p.dst
          /\ Egress!Fit(d, x, r) = "one" =>
               /\ at.kind # "connect"
               /\ at.probe = "ping" \/ (at.probe = "udp" /\ at.len = p.len)
      BY ONLY <1>6, <3>1, <3>2, WhatFits
    <3> QED
      BY <3>3 DEF at, p
  <2> QED
    BY <1>5, <1>6, <2>3, Zenon
<1>8. ~ eDerived.crafted
  BY <1>7, Zenon DEF JoinedUpTo
<1>9. t # Egress!Kernel
  <2> SUFFICES ASSUME t = Egress!Kernel  PROVE FALSE
    OBVIOUS
  <2>1. t \notin DOMAIN Attempts
    BY <1>1 DEF Egress!Kernel
  <2>2. r.packet.proto = "response" /\ r.packet.src = "host"
    BY <1>8, <2>1 DEF PacketsKnown, PacketRefused, OfAttempt
  <2> QED
    BY <1>7, <2>2 DEF Egress!kernelMessage, Egress!isResponse, Egress!containerCrafted
<1>10. SenderOf(t, r)
  BY <1>8, <1>9, SenderIs
<1>11. /\ t \in DOMAIN Attempts /\ t \in Nat /\ ~ Attempts[t].delegated
       /\ Attempts[t].netns # "host"
  BY <1>10 DEF SenderOf
<1>12. Attempts[t].kind \in {"send", "connect"}
  BY <1>5, <1>11 DEF EgressAttempt
<1>13. CASE Attempts[t].kind = "send" /\ r.packet.len = Attempts[t].len
  <2>1. PICK c \in Mates(t) : c <= r.place /\ d.attempts[c].packets = 0
    BY <1>8, <1>9, <1>13, FreeMate DEF EgressInv
  <2>2. Egress!Fit(d, c, r) = "one"
    BY <1>8, <1>9, <1>13, <2>1, MateFits
  <2>3. c \in DOMAIN Attempts /\ c \in C
    BY <1>1, <2>1, <2>2 DEF Mates, Egress!None
  <2>4. Attempts[c].sk = Attempts[t].sk /\ (Attempts[c].inWindow <=> Attempts[t].inWindow)
    BY DEF Mates, Alike
  <2>5. Egress!Fit(d, x, r) = "one"
    BY <1>4, <2>2, <2>3
  <2>6. d.attempts[x].sk = d.attempts[c].sk /\ d.attempts[x].inWindow = d.attempts[c].inWindow
    BY <1>4, <2>3
  <2>7. Attempts[x].sk = Attempts[t].sk
    BY <1>5, <1>6, <2>3, <2>4, <2>6
  <2>8. Attempts[x].inWindow <=> Attempts[t].inWindow
    <3>1. Attempts[x].inWindow = Attempts[c].inWindow
      BY <1>5, <1>6, <2>3, <2>6
    <3> QED
      BY <2>4, <3>1, Zenon
  <2>9. Attempts[x].dest = Attempts[t].dest /\ Attempts[x].len = Attempts[t].len
    <3>1. Attempts[x].dest = Attempts[t].dest
      BY <1>7, <1>10 DEF SenderOf
    <3>2. Attempts[x].probe = EgressProbe[Attempts[x].sk]
      BY <1>6, <1>7 DEF AttemptsMade, AttemptMade
    <3>3. Attempts[t].probe = EgressProbe[Attempts[t].sk]
      BY <1>10 DEF SenderOf
    <3>4. /\ Attempts[x].probe = "ping" => Attempts[x].len = 1
          /\ Attempts[t].probe = "ping" => Attempts[t].len = 1
      BY <1>6, <1>11 DEF AttemptsMade, AttemptMade
    <3>5. Attempts[x].len = Attempts[t].len
      BY <1>7, <1>13, <2>5, <2>7, <3>2, <3>3, <3>4
    <3> QED
      BY <3>1, <3>5
  <2>10. t \in Mates(t) /\ t \notin Senders(k - 1)
    BY <1>8, <1>9, <1>13, WholeSender
  <2>11. \A n \in DOMAIN Attempts : x \in Mates(n) => t \in Mates(n)
    BY <2>7, <2>8, <2>9, <2>10 DEF Mates, Alike
  <2> QED
    BY <1>6, <1>7, <1>8, <1>11, <2>7, <2>8, <2>10, <2>11
<1>14. CASE ~ (Attempts[t].kind = "send" /\ r.packet.len = Attempts[t].len)
  <2>1. Egress!Fit(d, t, r) = "several"
    <3> DEFINE at == d.attempts[t]
               p == r.packet
    <3>1. /\ ~ at.delegated /\ at.netns # "host" /\ at.dest # Egress!None
          /\ at.dest = p.dst /\ at.sport = p.sport
          /\ r.place \in Nat /\ t <= r.place
          /\ at.len \in Nat /\ p.len \in Nat /\ t \notin r.closed
      BY <1>5, <1>10, <1>11 DEF SenderOf
    <3>2. at.kind = "connect" <=> at.probe = "tcp"
      BY <1>5, <1>10, <1>11 DEF SenderOf
    <3>3. \/ at.kind = "connect" /\ p.proto = "tcp"
          \/ at.kind # "connect" /\ at.probe = "udp" /\ p.proto = "udp" /\ at.len > p.len
      <4>1. CASE Attempts[t].kind = "connect"
        <5>1. p.proto = "tcp"
          BY <1>10, <4>1 DEF SenderOf
        <5> QED
          BY <1>5, <1>11, <4>1, <5>1
      <4>2. CASE Attempts[t].kind = "send"
        <5>1. p.len # Attempts[t].len
          BY <1>14, <4>2
        <5>2. Attempts[t].probe = "udp" /\ Attempts[t].len > p.len
          BY <1>10, <4>2, <5>1 DEF SenderOf
        <5>3. p.proto = "udp"
          BY <1>10, <5>2 DEF SenderOf
        <5> QED
          BY <1>5, <1>11, <4>2, <5>2, <5>3
      <4> QED
        BY <1>12, <4>1, <4>2
    <3> HIDE DEF at, p
    <3>4. at = d.attempts[t] /\ p = r.packet
      BY DEF at, p
    <3> QED
      BY <1>7, <1>11, <3>1, <3>2, <3>3, <3>4, FitsSeveral
  <2>2. t \in C
    BY <1>1, <1>11, <2>1 DEF Egress!None
  <2>3. x = t
    <3>1. t = x \/ Egress!Fit(d, x, r) = "one"
      BY <1>4, <2>2
    <3>2. ASSUME t # x  PROVE FALSE
      <4>1. Cardinality(C) # 1
        <5> SUFFICES ASSUME Cardinality(C) = 1  PROVE FALSE
          OBVIOUS
        <5>1. PICK y : C = {y}
          BY <1>3, FS_Singleton
        <5> QED
          BY <1>4, <2>2, <3>2, <5>1
      <4>2. Egress!Fit(d, t, r) = "one"
        BY <2>2, <4>1, SameCardinality, Zenon DEF Egress!Named
      <4> QED
        BY <2>1, <4>2
    <3> QED
      BY <3>2
  <2>4. \A n \in DOMAIN Attempts : t \notin Mates(n)
    <3>1. Attempts[t].kind = "send" => Split(t)
      BY <1>14 DEF Split
    <3> QED
      BY <3>1 DEF Mates
  <2> QED
    BY <1>6, <1>7, <1>8, <1>11, <2>3, <2>4
<1> QED
  BY <1>13, <1>14

LEMMA DeferredKeeps ==
    ASSUME EgressInv, CallsReturn, eWindow = "stopped",
           NEW k \in DOMAIN Refusals, NEW r, r = Refusals[k],
           NEW d, JoinedUpTo(d, k - 1), NEW e, e = Egress!Deferred(d, r)
    PROVE  JoinedUpTo(e, k)
<1> DEFINE C == {a \in DOMAIN d.attempts : Egress!Fit(d, a, r) # Egress!None}
           x == CHOOSE a \in C : \A b \in C : a <= b
<1>1. k \in Nat /\ k # 0
  BY EgressFacts DEF EgressInv
<1>2. e = IF Egress!kernelMessage(d, r.packet) THEN Egress!Judged(d, "KERNEL_RESPONSE", 0, r)
          ELSE IF Egress!Named(d, r, C) THEN Egress!Judged(d, "ATTEMPT_PACKET", x, r)
          ELSE Egress!Judged(d, "UNATTRIBUTED", 0, r)
  BY DEF Egress!Deferred
<1>3. C = {a \in DOMAIN d.attempts : Egress!Fit(d, a, r) # Egress!None}
  OBVIOUS
<1>4. x = CHOOSE a \in C : \A b \in C : a <= b
  OBVIOUS
<1> HIDE DEF C, x
<1>5. CASE Egress!kernelMessage(d, r.packet)
  <2>1. ~ d.crafted /\ r.packet.proto = "response"
    BY <1>5, Zenon DEF Egress!kernelMessage, Egress!isResponse, Egress!containerCrafted
  <2>2. ~ eDerived.crafted
    BY <2>1, Zenon DEF JoinedUpTo
  <2>3. r.by = Egress!Kernel
    <3> SUFFICES ASSUME r.by # Egress!Kernel  PROVE FALSE
      OBVIOUS
    <3>1. SenderOf(r.by, r)
      BY <2>2, SenderIs
    <3>2. r.packet.proto \in {"tcp", "echo", "udp"}
      BY <3>1 DEF SenderOf
    <3> QED
      BY <2>1, <3>2
  <2>4. /\ e = Egress!Judged(d, "KERNEL_RESPONSE", 0, r)
        /\ "KERNEL_RESPONSE" \in EgressClass /\ "KERNEL_RESPONSE" # "ATTEMPT_PACKET" /\ 0 \in Nat
    BY <1>2, <1>5 DEF EgressClass
  <2> QED
    BY <1>1, <2>3, <2>4, UnnamedKeeps
<1>6. CASE ~ Egress!kernelMessage(d, r.packet) /\ Egress!Named(d, r, C)
  <2>1. /\ ~ eDerived.crafted
        /\ x \in DOMAIN Attempts /\ Attempts[x].netns # "host"
        /\ r.by \in DOMAIN Attempts /\ Attempts[r.by].sk = Attempts[x].sk
        /\ Attempts[r.by].inWindow <=> Attempts[x].inWindow
        /\ \A n \in DOMAIN Attempts :
              x \in Mates(n) => r.by \in Mates(n) /\ r.by \notin Senders(k - 1)
    <3>1. C \subseteq Nat /\ IsFiniteSet(C)
      <4>1. /\ DOMAIN Attempts = 1..Len(Attempts) /\ Len(Attempts) \in Nat
            /\ DOMAIN d.attempts = DOMAIN Attempts
        BY EgressFacts DEF JoinedUpTo, EgressInv
      <4>2. IsFiniteSet(1..Len(Attempts))
        <5>1. 1 \in Int /\ Len(Attempts) \in Int
          BY <4>1
        <5> QED
          BY ONLY <5>1, FS_Interval
      <4>3. C \in SUBSET (1..Len(Attempts))
        BY <1>3, <4>1
      <4>4. IsFiniteSet(C)
        BY ONLY <4>2, <4>3, FS_Subset
      <4>5. C \subseteq Nat
        BY ONLY <4>1, <4>3
      <4> QED
        BY ONLY <4>4, <4>5
    <3>2. C # {}
      BY <1>6, <3>1, NamedIs
    <3>3. \E a \in C : \A b \in C : a <= b
      BY <3>1, <3>2, LeastNumber, Zenon
    <3>4. x \in C
      BY <1>4, <3>3, Zenon
    <3> QED
      BY <1>3, <1>6, <3>4, NamedRightly
  <2>2. e = Egress!Judged(d, "ATTEMPT_PACKET", x, r)
    BY <1>2, <1>6
  <2> QED
    <3>1. PICK by : by = r.by
      OBVIOUS
    <3>2. /\ by \in DOMAIN Attempts /\ Attempts[by].sk = Attempts[x].sk
          /\ Attempts[by].inWindow <=> Attempts[x].inWindow
          /\ \A n \in DOMAIN Attempts :
                x \in Mates(n) => by \in Mates(n) /\ by \notin Senders(k - 1)
          /\ by = Refusals[k].by /\ e = Egress!Judged(d, "ATTEMPT_PACKET", x, Refusals[k])
      BY <2>1, <2>2, <3>1
    <3> QED
      BY <1>1, <2>1, <3>2, NamedKeeps
<1>7. CASE ~ Egress!kernelMessage(d, r.packet) /\ ~ Egress!Named(d, r, C)
  <2>1. /\ e = Egress!Judged(d, "UNATTRIBUTED", 0, r)
        /\ "UNATTRIBUTED" \in EgressClass /\ "UNATTRIBUTED" # "ATTEMPT_PACKET" /\ 0 \in Nat
    BY <1>2, <1>7 DEF EgressClass
  <2> QED
    BY <1>1, <2>1, UnnamedKeeps
<1> QED
  BY <1>5, <1>6, <1>7

LEMMA JoinedToTheEnd ==
    ASSUME EgressInv, CallsReturn, eWindow = "stopped"
    PROVE  JoinedUpTo(Egress!Joined, Len(Refusals))
<1> DEFINE m == Len(Refusals)
<1>1. m \in Nat /\ DOMAIN Refusals = 1..m
  BY EgressFacts DEF EgressInv
<1> HIDE DEF m
<1>2. PICK D : /\ D[0] = eDerived /\ D[m] = Egress!Joined
               /\ \A k \in 1..m : D[k] = Egress!Deferred(D[k - 1], Refusals[k])
  BY <1>1, JoinedStepwise
<1> DEFINE Bad == {k \in 0..m : ~ JoinedUpTo(D[k], k)}
<1>3. Bad = {}
  <2> SUFFICES ASSUME Bad # {}  PROVE FALSE
    OBVIOUS
  <2>1. Bad \subseteq Nat
    BY <1>1
  <2>2. PICK k \in Bad : \A y \in Bad : k <= y
    <3> HIDE DEF Bad
    <3> QED
      BY <2>1, LeastNumber
  <2>3. k \in 0..m /\ ~ JoinedUpTo(D[k], k)
    BY <2>2
  <2>4. k # 0
    BY <1>2, <2>3, JoinedAtFirst
  <2>5. k \in 1..m /\ k - 1 \in 0..m /\ ~ (k <= k - 1)
    BY <1>1, <2>3, <2>4
  <2>6. JoinedUpTo(D[k - 1], k - 1)
    <3>1. k - 1 \notin Bad
      BY <2>2, <2>5
    <3> QED
      BY <2>5, <3>1
  <2>7. D[k] = Egress!Deferred(D[k - 1], Refusals[k])
    BY <1>2, <2>5
  <2>8. JoinedUpTo(D[k], k)
    BY <1>1, <2>5, <2>6, <2>7, DeferredKeeps
  <2> QED
    BY <2>3, <2>8
<1>4. m \in 0..m
  BY <1>1
<1>5. JoinedUpTo(D[m], m)
  BY <1>3, <1>4
<1> QED
  BY <1>2, <1>5 DEF m

-----------------------------------------------------------------------------
(* Egress attribution: complete evidence is of a window that held *)

\* What became of a datagram whose sender was told that it went.
LEMMA SentOutcome ==
    ASSUME NEW b \in EgressAttempt, b.kind = "send", b.ret = 0
    PROVE  /\ b.packets = 0 => Egress!Outcome(b) = "SENT"
           /\ Egress!Outcome(b) \in {"SENT", "REFUSED"}
<1>1. b.packets \in Nat /\ b.kind # "connect" /\ b.ret # Egress!NoReturn
      /\ b.ret # -Egress!EPERM /\ ~ (b.ret < 0)
  BY DEF EgressAttempt, Egress!NoReturn, Egress!EPERM
<1>2. CASE b.packets = 0
  <2>1. ~ (b.packets > 0)
    BY <1>2
  <2> QED
    BY <1>1, <2>1, Zenon DEF Egress!Outcome
<1>3. CASE b.packets # 0
  <2>1. b.packets > 0
    BY <1>1, <1>3
  <2> QED
    BY <1>1, <1>3, <2>1, Zenon DEF Egress!Outcome
<1> QED
  BY <1>2, <1>3

LEMMA JoinedFields ==
    ASSUME EgressInv, NEW k, NEW d, JoinedUpTo(d, k), NEW n \in DOMAIN Attempts
    PROVE  /\ d.attempts[n] \in EgressAttempt /\ Attempts[n] \in EgressAttempt
           /\ d.attempts[n].kind = Attempts[n].kind /\ d.attempts[n].probe = Attempts[n].probe
           /\ d.attempts[n].sk = Attempts[n].sk /\ d.attempts[n].netns = Attempts[n].netns
           /\ d.attempts[n].ret = Attempts[n].ret
           /\ d.attempts[n].delegated = Attempts[n].delegated
           /\ d.attempts[n].inWindow = Attempts[n].inWindow
<1>1. Attempts[n] \in EgressAttempt /\ Still(d.attempts[n], Attempts[n])
  BY EgressFacts DEF JoinedUpTo, EgressInv
<1>2. d.attempts \in Seq(EgressAttempt) /\ n \in DOMAIN d.attempts
  BY DEF JoinedUpTo, EgressDerived
<1> QED
  BY <1>1, <1>2, StillFields

\* A datagram that got past is not charged with a packet.
LEMMA CrossedUncharged ==
    ASSUME EgressInv, NEW k \in Nat, k <= Len(Refusals), NEW d, JoinedUpTo(d, k),
           NEW n \in eCrossed, n > 0, n \in DOMAIN Attempts,
           Attempts[n].kind = "send", Attempts[n].inWindow
    PROVE  d.attempts[n].packets = 0
<1> USE DEF EgressInv
<1>1. SentWell(n) /\ PassedWell(n)
  BY DEF SentReturnsWell
<1>2. ~ Attempts[n].delegated
  BY <1>1 DEF SentWell
<1>3. CASE Attempts[n].netns = "host"
  BY <1>1, <1>3 DEF PassedWell, JoinedUpTo
<1>4. CASE Attempts[n].netns # "host" /\ eDerived.crafted
  BY <1>4 DEF JoinedUpTo, AttemptsMade, AttemptMade
<1>5. CASE Attempts[n].netns # "host" /\ ~ eDerived.crafted
  <2> SUFFICES ASSUME d.attempts[n].packets # 0  PROVE FALSE
    OBVIOUS
  <2>1. Accounted(d, n, k)
    BY <1>5 DEF JoinedUpTo
  <2>2. PICK i \in 1..k :
           /\ Refusals[i].by \in DOMAIN Attempts
           /\ Attempts[Refusals[i].by].sk = Attempts[n].sk
           /\ Attempts[Refusals[i].by].inWindow <=> Attempts[n].inWindow
    BY <2>1 DEF Accounted
  <2>3. PICK t \in DOMAIN Attempts : t = Refusals[i].by
    BY <2>2
  <2>4. i \in DOMAIN Refusals /\ t \in Nat /\ t > 0
    BY EgressFacts
  <2>5. AttemptMade(n) /\ AttemptMade(t)
    BY DEF AttemptsMade
  <2>6. Attempts[t].sk = Attempts[n].sk /\ Attempts[t].inWindow
    BY <2>2, <2>3
  <2>7. Attempts[t].netns = Attempts[n].netns
    BY <2>5, <2>6 DEF AttemptMade
  <2>8. Attempts[t].kind = "send"
    <3>1. Attempts[t] \in EgressAttempt
      BY EgressFacts
    <3>2. Attempts[t].kind \in {"send", "connect"}
      BY <3>1 DEF EgressAttempt
    <3>3. Attempts[n].probe # "tcp" /\ Attempts[n].probe = EgressProbe[Attempts[n].sk]
      BY <1>2, <2>5 DEF AttemptMade
    <3>4. Attempts[t].probe # "tcp"
      BY <2>5, <2>6, <3>3 DEF AttemptMade
    <3> QED
      BY <2>5, <3>2, <3>4 DEF AttemptMade
  <2>9. Refusals[i].by > 0 /\ OfWindow(Refusals[i].by)
    BY <2>3, <2>4, <2>6, <2>8 DEF OfWindow
  <2>10. Attempts[n].netns # Attempts[Refusals[i].by].netns
    BY <2>4, <2>9 DEF BoundaryHolds
  <2> QED
    BY <2>3, <2>7, <2>10
<1> QED
  BY <1>3, <1>4, <1>5

\* What escaped is in the window, leaks or is not known.
LEMMA EscapeShows ==
    ASSUME EgressInv, CallsReturn, eWindow = "stopped", NEW d, d = Egress!Joined,
           NEW n \in Egress!Escaped(d), Egress!Accepted(d), Egress!Complete(d)
    PROVE  FALSE
<1> USE DEF EgressInv
<1> DEFINE m == Len(Refusals)
<1>1. JoinedUpTo(d, m) /\ m \in Nat /\ m <= m
  BY JoinedToTheEnd, EgressFacts
<1>2. n \in eCrossed
  BY DEF Egress!Escaped
<1>3. CASE n = Egress!Unsent
  <2>1. eDerived.xsk
    BY <1>2, <1>3 DEF SentReturnsWell
  <2>2. d.xsk
    BY <1>1, <2>1, Zenon DEF JoinedUpTo
  <2> QED
    BY <2>2, Zenon DEF Egress!Complete
<1>4. CASE n # Egress!Unsent
  <2> DEFINE a == Attempts[n]
             b == d.attempts[n]
  <2>1. /\ n > 0 /\ b.inWindow
        /\ b.probe = "pkt" \/ Egress!Matters(b)
        /\ b.kind = "connect" => b.established
    BY <1>4, Zenon DEF Egress!Escaped
  <2>2. n \in DOMAIN Attempts
    <3>1. n \in Int /\ n <= Len(Attempts)
      BY <1>2 DEF PacketsKnown, EgressTyped
    <3> QED
      BY <2>1, <3>1, EgressFacts
  <2>3. /\ b \in EgressAttempt /\ a \in EgressAttempt
        /\ b.kind = a.kind /\ b.probe = a.probe /\ b.ret = a.ret
        /\ b.delegated = a.delegated /\ b.inWindow = a.inWindow
    BY <1>1, <2>2, JoinedFields
  <2>4. SentWell(n) /\ a.ret # Egress!NoReturn
    BY <1>2, <2>1, <2>2, AllReturned DEF SentReturnsWell
  <2>5. ~ b.delegated /\ (a.kind = "send" => a.ret = 0)
    BY <2>3, <2>4 DEF SentWell
  <2>6. n \in Egress!Counted(d)
    <3>1. n \in DOMAIN d.attempts
      BY <1>1, <2>2 DEF JoinedUpTo
    <3> QED
      BY <2>1, <2>5, <3>1, Zenon DEF Egress!Counted
  <2>7. ~ Egress!Leaked(d) /\ Egress!unseenDestinations(d) = {}
    BY Zenon DEF Egress!Accepted, Egress!Complete
  <2>8. b.kind \in {"send", "connect"}
    BY <2>3 DEF EgressAttempt
  <2>9. CASE b.kind = "connect"
    <3>1. Egress!Outcome(b) = "CONNECTED"
      BY <2>1, <2>9, Zenon DEF Egress!Outcome
    <3>2. b.probe # "pkt"
      BY <2>2, <2>3, <2>9 DEF AttemptsMade, AttemptMade
    <3>3. Egress!Matters(b)
      BY <2>1, <3>2
    <3> QED
      BY <2>6, <2>7, <3>1, <3>3 DEF Egress!Leaked
  <2>10. CASE b.kind = "send"
    <3>1. Egress!Outcome(b) \in {"SENT", "REFUSED"}
      BY <2>3, <2>5, <2>10, SentOutcome
    <3>2. b.probe # "pkt"
      <4> SUFFICES ASSUME b.probe = "pkt"  PROVE FALSE
        OBVIOUS
      <4>1. Egress!Outcome(b) \notin {"NO_PACKET", "REFUSED_NO_PACKET_SEEN"}
        BY <3>1
      <4>2. n \in Egress!unseenDestinations(d)
        BY <2>6, <4>1, Zenon DEF Egress!unseenDestinations
      <4> QED
        BY <2>7, <4>2
    <3>3. Egress!Matters(b)
      BY <2>1, <3>2
    <3>4. a.inWindow
      BY <2>1, <2>3, Zenon
    <3>5. b.packets = 0
      BY <1>1, <1>2, <2>1, <2>2, <2>3, <2>10, <3>4, CrossedUncharged
    <3>6. Egress!Outcome(b) = "SENT"
      BY <2>3, <2>5, <2>10, <3>5, SentOutcome
    <3> QED
      BY <2>6, <2>7, <3>3, <3>6 DEF Egress!Leaked
  <2> QED
    BY <2>8, <2>9, <2>10
<1> QED
  BY <1>3, <1>4

\* What is judged is judged by its sender.
LEMMA JoinedHonestly ==
    ASSUME EgressInv, CallsReturn, eWindow = "stopped", NEW d, d = Egress!Joined,
           NEW drop \in d.drops
    PROVE  /\ drop.class = "ATTEMPT_PACKET" =>
                 drop.by > 0 /\ d.attempts[drop.by].sk = d.attempts[drop.attempt].sk
           /\ drop.class \in {"KERNEL_RESPONSE", "BOUNDARY_RESPONSE"} => drop.by = Egress!Kernel
<1>1. JoinedUpTo(d, Len(Refusals))
  BY JoinedToTheEnd
<1>2. BySender(drop)
  BY <1>1 DEF JoinedUpTo
<1>3. ASSUME drop.class = "ATTEMPT_PACKET"
      PROVE  drop.by > 0 /\ d.attempts[drop.by].sk = d.attempts[drop.attempt].sk
  <2>1. /\ drop.by \in DOMAIN Attempts /\ drop.attempt \in DOMAIN Attempts
        /\ Attempts[drop.by].sk = Attempts[drop.attempt].sk
    BY <1>2, <1>3 DEF BySender
  <2>2. drop.by > 0
    BY <2>1, EgressFacts DEF EgressInv
  <2> QED
    BY <1>1, <2>1, <2>2, JoinedFields
<1> QED
  BY <1>2, <1>3 DEF BySender

\* When the capture goes on until open calls have returned, evidence that is accepted as
\* complete is of a window in which nothing that matters got past the boundary
\* (sp1-egress-attribution.ts:1708), and each refused packet is joined to an attempt of
\* the socket that sent it (sp1-egress-attribution.ts:1489), whatever sockets,
\* namespaces and ports there are and however many packets look the same.
THEOREM EgressAccountsForPackets == CallsReturn => (Spec => []EgressIsAttributed)
<1>1. ASSUME EgressInv, CallsReturn, eWindow = "stopped"
      PROVE  /\ LET d == Egress!Joined IN
                Egress!Accepted(d) /\ Egress!Complete(d) => Egress!Escaped(d) = {}
             /\ LET d == Egress!Joined IN
                \A drop \in d.drops :
                   /\ drop.class = "ATTEMPT_PACKET" =>
                         drop.by > 0 /\ d.attempts[drop.by].sk = d.attempts[drop.attempt].sk
                   /\ drop.class \in {"KERNEL_RESPONSE", "BOUNDARY_RESPONSE"} =>
                         drop.by = Egress!Kernel
  <2> DEFINE d == Egress!Joined
  <2>1. d = Egress!Joined
    OBVIOUS
  <2> HIDE DEF d
  <2>2. Egress!Accepted(d) /\ Egress!Complete(d) => Egress!Escaped(d) = {}
    BY <1>1, <2>1, EscapeShows
  <2>3. \A drop \in d.drops :
           /\ drop.class = "ATTEMPT_PACKET" =>
                 drop.by > 0 /\ d.attempts[drop.by].sk = d.attempts[drop.attempt].sk
           /\ drop.class \in {"KERNEL_RESPONSE", "BOUNDARY_RESPONSE"} =>
                 drop.by = Egress!Kernel
    BY <1>1, <2>1, JoinedHonestly
  <2> QED
    BY <2>2, <2>3 DEF d
<1>2. ASSUME CallsReturn  PROVE Spec => []EgressIsAttributed
  <2>1. EgressInv => EgressIsAttributed
    BY <1>1, <1>2 DEF EgressIsAttributed, CompleteMeansContained, JoinedToItsSender,
                      Egress!CompleteMeansContained, Egress!JoinedToItsSender
  <2> QED
    BY <2>1, EgressHolds, PTL
<1> QED
  BY <1>2
-----------------------------------------------------------------------------
(* One registry, on one chain *)

TwinsAlone ==
    INSTANCE WrapperRegistryProofs WITH
        Operator <- OneChain.operators, Wrapper <- OneChain.wrappers, Stray <- OneChain.strays,
        Consumer <- OneChain.consumers, Chain <- OneChain.chains, ChainOf <- OneChain.chainOf,
        IdentityOf <- OneChain.identityOf, Designated <- OneChain.designated,
        NewConsumer <- OneChain.newConsumers, Founded <- OneChain.founded,
        MaxFacts <- OneChain.maxFacts,
        latest <- rLatest, final <- rFinal, main <- rMain, clone <- rClone, run <- rRun,
        verifier <- rVerifier, pending <- rPending, haltedIdentities <- rHaltedIdentities

\* Alone it is the same registry.
LEMMA TwinsAlike ==
    /\ Twins!RegistryAssumption <=> TwinsAlone!RegistryAssumption
    /\ Twins!Init <=> TwinsAlone!Init
    /\ Twins!Next <=> TwinsAlone!Next
    /\ Twins!vars = TwinsAlone!vars
    /\ Twins!FactsAreFinal <=> TwinsAlone!FactsAreFinal
    /\ Twins!HaltCanBePublished <=> TwinsAlone!HaltCanBePublished
    /\ Twins!NoneLetThroughLate <=> TwinsAlone!NoneLetThroughLate
    /\ Twins!OneHaltReachesAll <=> TwinsAlone!OneHaltReachesAll
BY DEF Twins!FactsAreFinal, TwinsAlone!FactsAreFinal, Twins!HaltCanBePublished,
       TwinsAlone!HaltCanBePublished, Twins!NoneLetThroughLate, TwinsAlone!NoneLetThroughLate,
       Twins!OneHaltReachesAll, TwinsAlone!OneHaltReachesAll, Twins!admittedTo,
       TwinsAlone!admittedTo,
       Twins!RegistryAssumption, TwinsAlone!RegistryAssumption, Twins!Init,
       TwinsAlone!Init, Twins!Next, TwinsAlone!Next, Twins!vars, TwinsAlone!vars,
       Twins!chains, TwinsAlone!chains, Twins!consumers, TwinsAlone!consumers,
       Twins!NotDeployed, TwinsAlone!NotDeployed, Twins!OffPath, TwinsAlone!OffPath,
       Twins!Nothing, TwinsAlone!Nothing, Twins!Idle, TwinsAlone!Idle, Twins!Registered,
       TwinsAlone!Registered, Twins!Halted, TwinsAlone!Halted, Twins!Fact,
       TwinsAlone!Fact, Twins!registered, TwinsAlone!registered, Twins!recordedHalted,
       TwinsAlone!recordedHalted, Twins!haltedIn, TwinsAlone!haltedIn,
       Twins!registryValid, TwinsAlone!registryValid, Twins!published,
       TwinsAlone!published, Twins!mayExtendPublished, TwinsAlone!mayExtendPublished,
       Twins!measured, TwinsAlone!measured, Twins!registrationFact,
       TwinsAlone!registrationFact, Twins!haltFact, TwinsAlone!haltFact,
       Twins!registeredOn, TwinsAlone!registeredOn, Twins!agreesWithChain,
       TwinsAlone!agreesWithChain, Twins!admissibleOnChain,
       TwinsAlone!admissibleOnChain, Twins!twins, TwinsAlone!twins, Twins!bindable,
       TwinsAlone!bindable, Twins!Goes, TwinsAlone!Goes, Twins!deployStray,
       TwinsAlone!deployStray, Twins!halt, TwinsAlone!halt, Twins!finalize,
       TwinsAlone!finalize, Twins!reorganize, TwinsAlone!reorganize, Twins!checkout,
       TwinsAlone!checkout, Twins!merge, TwinsAlone!merge, Twins!startRegistration,
       TwinsAlone!startRegistration, Twins!appendFact, TwinsAlone!appendFact,
       Twins!planWrapperDeployment, TwinsAlone!planWrapperDeployment,
       Twins!deployPlannedWrapper, TwinsAlone!deployPlannedWrapper, Twins!startBinding,
       TwinsAlone!startBinding, Twins!assertBindable, TwinsAlone!assertBindable,
       Twins!send, TwinsAlone!send, Twins!applyRotation, TwinsAlone!applyRotation,
       Twins!SetToSeq, TwinsAlone!SetToSeq, Twins!ToSet, TwinsAlone!ToSet,
       Twins!IsPrefix, TwinsAlone!IsPrefix, Twins!IsInjective, TwinsAlone!IsInjective,
       Twins!Cardinality, TwinsAlone!Cardinality, Twins!IsFiniteSet,
       TwinsAlone!IsFiniteSet

-----------------------------------------------------------------------------
(* Another, on two *)

ChainsAlone ==
    INSTANCE WrapperRegistryProofs WITH
        Operator <- TwoChains.operators, Wrapper <- TwoChains.wrappers, Stray <- TwoChains.strays,
        Consumer <- TwoChains.consumers, Chain <- TwoChains.chains, ChainOf <- TwoChains.chainOf,
        IdentityOf <- TwoChains.identityOf, Designated <- TwoChains.designated,
        NewConsumer <- TwoChains.newConsumers, Founded <- TwoChains.founded,
        MaxFacts <- TwoChains.maxFacts,
        latest <- rLatest, final <- rFinal, main <- rMain, clone <- rClone, run <- rRun,
        verifier <- rVerifier, pending <- rPending, haltedIdentities <- rHaltedIdentities

\* Alone it is the same registry.
LEMMA ChainsAlike ==
    /\ Chains!RegistryAssumption <=> ChainsAlone!RegistryAssumption
    /\ Chains!Init <=> ChainsAlone!Init
    /\ Chains!Next <=> ChainsAlone!Next
    /\ Chains!vars = ChainsAlone!vars
    /\ Chains!FactsAreFinal <=> ChainsAlone!FactsAreFinal
    /\ Chains!HaltCanBePublished <=> ChainsAlone!HaltCanBePublished
    /\ Chains!NoneLetThroughLate <=> ChainsAlone!NoneLetThroughLate
    /\ Chains!OneHaltReachesAll <=> ChainsAlone!OneHaltReachesAll
BY DEF Chains!FactsAreFinal, ChainsAlone!FactsAreFinal, Chains!HaltCanBePublished,
       ChainsAlone!HaltCanBePublished, Chains!NoneLetThroughLate, ChainsAlone!NoneLetThroughLate,
       Chains!OneHaltReachesAll, ChainsAlone!OneHaltReachesAll, Chains!admittedTo,
       ChainsAlone!admittedTo,
       Chains!RegistryAssumption, ChainsAlone!RegistryAssumption, Chains!Init,
       ChainsAlone!Init, Chains!Next, ChainsAlone!Next, Chains!vars, ChainsAlone!vars,
       Chains!chains, ChainsAlone!chains, Chains!consumers, ChainsAlone!consumers,
       Chains!NotDeployed, ChainsAlone!NotDeployed, Chains!OffPath, ChainsAlone!OffPath,
       Chains!Nothing, ChainsAlone!Nothing, Chains!Idle, ChainsAlone!Idle,
       Chains!Registered, ChainsAlone!Registered, Chains!Halted, ChainsAlone!Halted,
       Chains!Fact, ChainsAlone!Fact, Chains!registered, ChainsAlone!registered,
       Chains!recordedHalted, ChainsAlone!recordedHalted, Chains!haltedIn,
       ChainsAlone!haltedIn, Chains!registryValid, ChainsAlone!registryValid,
       Chains!published, ChainsAlone!published, Chains!mayExtendPublished,
       ChainsAlone!mayExtendPublished, Chains!measured, ChainsAlone!measured,
       Chains!registrationFact, ChainsAlone!registrationFact, Chains!haltFact,
       ChainsAlone!haltFact, Chains!registeredOn, ChainsAlone!registeredOn,
       Chains!agreesWithChain, ChainsAlone!agreesWithChain, Chains!admissibleOnChain,
       ChainsAlone!admissibleOnChain, Chains!twins, ChainsAlone!twins, Chains!bindable,
       ChainsAlone!bindable, Chains!Goes, ChainsAlone!Goes, Chains!deployStray,
       ChainsAlone!deployStray, Chains!halt, ChainsAlone!halt, Chains!finalize,
       ChainsAlone!finalize, Chains!reorganize, ChainsAlone!reorganize, Chains!checkout,
       ChainsAlone!checkout, Chains!merge, ChainsAlone!merge, Chains!startRegistration,
       ChainsAlone!startRegistration, Chains!appendFact, ChainsAlone!appendFact,
       Chains!planWrapperDeployment, ChainsAlone!planWrapperDeployment,
       Chains!deployPlannedWrapper, ChainsAlone!deployPlannedWrapper,
       Chains!startBinding, ChainsAlone!startBinding, Chains!assertBindable,
       ChainsAlone!assertBindable, Chains!send, ChainsAlone!send, Chains!applyRotation,
       ChainsAlone!applyRotation, Chains!SetToSeq, ChainsAlone!SetToSeq, Chains!ToSet,
       ChainsAlone!ToSet, Chains!IsPrefix, ChainsAlone!IsPrefix, Chains!IsInjective,
       ChainsAlone!IsInjective, Chains!Cardinality, ChainsAlone!Cardinality,
       Chains!IsFiniteSet, ChainsAlone!IsFiniteSet

-----------------------------------------------------------------------------
(* Whichever moves *)

RegistryInv ==
    /\ part = "twins" => TwinsAlone!IInv
    /\ part = "chains" => ChainsAlone!IInv

LEMMA RegistriesKept ==
    /\ Init => RegistryInv
    /\ RegistryInv /\ [Next]_<<part, egress, advisories, target, registry>> => RegistryInv'
<1>1. TwinsAlone!RegistryAssumption /\ ChainsAlone!RegistryAssumption
  BY RegistriesAssumption, TwinsAlike, ChainsAlike
<1>2. Init => RegistryInv
  <2>1. TwinsAlone!Init => TwinsAlone!IInv
    BY <1>1, TwinsAlone!InitIInv
  <2>2. ChainsAlone!Init => ChainsAlone!IInv
    BY <1>1, ChainsAlone!InitIInv
  <2> QED
    BY <2>1, <2>2, TwinsAlike, ChainsAlike DEF Init, RegistryInv
<1>3. ASSUME RegistryInv, [Next]_<<part, egress, advisories, target, registry>>
      PROVE  RegistryInv'
  <2>1. part' = part
    BY <1>3 DEF Next, Only
  <2>2. ASSUME part = "twins" PROVE [TwinsAlone!Next]_(TwinsAlone!vars)
    BY <1>3, <2>2, TwinsAlike
       DEF Next, Only, registry, TwinsAlone!vars, TwinsAlone!chains, TwinsAlone!consumers
  <2>3. ASSUME part = "chains" PROVE [ChainsAlone!Next]_(ChainsAlone!vars)
    BY <1>3, <2>3, ChainsAlike
       DEF Next, Only, registry, ChainsAlone!vars, ChainsAlone!chains, ChainsAlone!consumers
  <2>4. part = "twins" => TwinsAlone!IInv'
    BY <1>1, <1>3, <2>2, TwinsAlone!NextKeeps DEF RegistryInv
  <2>5. part = "chains" => ChainsAlone!IInv'
    BY <1>1, <1>3, <2>3, ChainsAlone!NextKeeps DEF RegistryInv
  <2> QED
    BY <2>1, <2>4, <2>5 DEF RegistryInv
<1> QED
  BY <1>2, <1>3

\* No reorganisation, of whichever chain, takes back what the registry says
\* (sp1-registration.ts:10-13).
THEOREM RegistryIsFinal == Spec => []FactsAreFinal
<1>1. RegistryInv => FactsAreFinal
  BY TwinsAlone!ShowsFactsAreFinal, ChainsAlone!ShowsFactsAreFinal, TwinsAlike, ChainsAlike
     DEF RegistryInv, FactsAreFinal
<1> QED
  BY <1>1, RegistriesKept, PTL DEF Spec

\* A halt that is final on its chain can be published, stops every script that
\* starts after that, and reaches every consumer of the identity, since they are
\* all on one wrapper (sp1-registration.ts:100, verifier-binding.ts:486-495).
THEOREM HaltsTakeEffect == Spec => []HaltTakesEffect
<1>1. RegistryInv => HaltTakesEffect
  <2>1. TwinsAlone!IInv => Twins!HaltCanBePublished /\ Twins!OneHaltReachesAll
    BY TwinsAlone!ShowsHaltCanBePublished, TwinsAlone!ShowsOneHaltReachesAll, TwinsAlike
  <2>2. ChainsAlone!IInv => Chains!HaltCanBePublished /\ Chains!NoneLetThroughLate
    BY ChainsAlone!ShowsHaltCanBePublished, ChainsAlone!ShowsNoneLetThroughLate, ChainsAlike
  <2> QED
    BY <2>1, <2>2
       DEF RegistryInv, HaltTakesEffect, HaltCanBePublished, NoneLetThroughLate,
           OneHaltReachesAll
<1> QED
  BY <1>1, RegistriesKept, PTL DEF Spec

-----------------------------------------------------------------------------
(* The verifier to trust: the options, and what each accepts *)

Options == {Target!A, Target!AF, Target!B, Target!B0, Target!C, Target!D}

Pinned(g) == tGateway[g].routes["pinned"]

LEMMA Components ==
    /\ Target!A.id = "A" /\ Target!AF.id = "AF" /\ Target!B.id = "B"
    /\ Target!B0.id = "B0" /\ Target!C.id = "C" /\ Target!D.id = "D"
    /\ \A o \in Options : o.length \in Nat /\ (o.length <= 3 => o = Target!A)
    /\ Target!A.length = 3
    /\ \A o \in Options :
          /\ "upstreamGateway" \in o.components <=> o.id \in {"B", "B0", "D"}
          /\ "walletwallGateway" \in o.components <=> o.id = "C"
          /\ "upstreamFreezeBit" \in o.components <=> o.id = "AF"
          /\ "selector" \in o.pins <=> o.id \in {"AF", "B", "B0"}
          /\ "routeVerifier" \in o.pins <=> o.id \in {"AF", "B"}
          /\ Target!FULL_GATEWAY_PINS \subseteq o.pins <=> o.id \in {"AF", "B"}
BY DEF Options, Target!A, Target!AF, Target!B, Target!B0, Target!C, Target!D, Target!Option,
       Target!FULL_GATEWAY_PINS

\* On TargetHome.
Takes(o, p) ==
    \/ o.id = "A" /\ p # "crafted" /\ Target!RunVerifier(TargetHome, p)
    \/ /\ o.id = "AF" /\ ~ Pinned(TargetHome).frozen
       /\ p # "crafted" /\ Target!RunVerifier(TargetHome, p)
    \/ o.id \in {"B", "B0"} /\ p # "crafted" /\ Target!Route(TargetHome, TargetHome, p)
    \/ o.id = "C" /\ Target!Route("walletwall", TargetHome, p)
    \/ o.id = "D" /\ Target!Route(TargetHome, TargetHome, p)

AcceptsWhatItTakes ==
    \A o \in Options : \A p : Target!Accepts(o, TargetHome, p) <=> Takes(o, p)

LEMMA WhatIsAccepted == AcceptsWhatItTakes
<1> SUFFICES ASSUME NEW o \in Options, NEW p
             PROVE  Target!Accepts(o, TargetHome, p) <=> Takes(o, p)
  BY DEF AcceptsWhatItTakes
<1>1. o.id \in {"A", "AF", "B", "B0", "C", "D"}
  BY Components DEF Options
<1>2. Target!SelectorOf(p) = "pinned" <=> p # "crafted"
  BY DEF Target!SelectorOf
<1>3. CASE o.id \in {"B", "B0", "D"}
  BY <1>2, <1>3, Components DEF Target!Accepts, Takes
<1>4. CASE o.id = "C"
  BY <1>4, Components DEF Target!Accepts, Takes
<1>5. CASE o.id \in {"A", "AF"}
  BY <1>2, <1>5, Components DEF Target!Accepts, Pinned, Takes
<1> QED
  BY <1>1, <1>3, <1>4, <1>5

LEMMA Levers ==
  ASSUME NEW o \in Options
  PROVE  /\ o.id = "B0" => Target!Unrouted \subseteq Target!widen(o)
         /\ o.id = "C" => TargetChain \subseteq Target!widen(o)
         /\ o.id = "D" => Target!Owned \subseteq Target!widen(o)
         /\ ~ Target!established => TargetChain \subseteq Target!widen(o)
         /\ o.id = "A" /\ Target!established => Target!widen(o) = {}
         /\ o.id \in {"AF", "B", "B0", "D"} => Target!disable(o) = Target!Owned
         /\ o.id = "C" => Target!disable(o) = TargetChain
         /\ o.id = "A" => Target!disable(o) = {}
<1>1. Target!FULL_GATEWAY_PINS \subseteq o.pins <=> o.id \in {"AF", "B"}
  BY Components
<1>2. /\ "upstreamGateway" \in o.components <=> o.id \in {"B", "B0", "D"}
      /\ "walletwallGateway" \in o.components <=> o.id = "C"
      /\ "upstreamFreezeBit" \in o.components <=> o.id = "AF"
      /\ "selector" \in o.pins <=> o.id \in {"AF", "B", "B0"}
  BY Components
<1>3. /\ o.id = "B0" => Target!Unrouted \subseteq Target!widen(o)
      /\ o.id = "C" => TargetChain \subseteq Target!widen(o)
      /\ o.id = "D" => Target!Owned \subseteq Target!widen(o)
      /\ ~ Target!established => TargetChain \subseteq Target!widen(o)
      /\ o.id = "A" /\ Target!established => Target!widen(o) = {}
  BY <1>1, <1>2 DEF Target!widen, Target!Everywhere
<1>4. o.components \cap {"upstreamGateway", "upstreamFreezeBit"} # {}
         <=> o.id \in {"AF", "B", "B0", "D"}
  BY <1>2
<1>5. /\ o.id \in {"AF", "B", "B0", "D"} => Target!disable(o) = Target!Owned
      /\ o.id = "C" => Target!disable(o) = TargetChain
      /\ o.id = "A" => Target!disable(o) = {}
  BY <1>2, <1>4 DEF Target!disable, Target!Everywhere
<1> QED
  BY <1>3, <1>5

-----------------------------------------------------------------------------
(* The inductive invariant: what was measured is as it was, where it cannot change. *)

Routes ==
    [Target!Selector -> [verifier : {Target!None, "target", "squatter"}, frozen : BOOLEAN]]

Reading ==
    [agree : BOOLEAN, stateCorroborated : BOOLEAN,
     read : [code : {"target", "other"}, owner : BOOLEAN, routed : BOOLEAN]]

TargetTyped ==
    /\ tRuntime \in {"closed", "destructible", "environment"}
    /\ tCode \in [TargetChain -> {"target", "other"}]
    /\ tPairing \in [TargetChain -> BOOLEAN]
    /\ tMoved \in BOOLEAN
    /\ tLies \in [TargetChain -> {Target!None, "code", "owner", "verdicts"}]
    /\ tGateway \in [Target!Gateway -> [owner : BOOLEAN, routes : Routes]]
    /\ tState \in [TargetChain -> {Target!Unmeasured} \cup Reading]
    /\ tExecution \in [TargetChain -> {Target!Unmeasured} \cup
                                      [agree : BOOLEAN, accepted : SUBSET Target!Proof]]
    /\ tOptions \subseteq Options

\* Without an owner, a gateway's routes are those it had.
OwnersRoute ==
    \A g \in Target!Gateway :
        ~ tGateway[g].owner =>
            /\ Pinned(g).verifier # "squatter"
            /\ tGateway[g].routes["other"].verifier = Target!None

\* Owners stay, routes do, and so does the code where the runtime is closed.
ReadingsHold ==
    \A c \in TargetChain :
        tState[c] # Target!Unmeasured =>
            /\ tState[c].stateCorroborated => tState[c].read.owner = tGateway[c].owner
            /\ tState[c].read.routed => Pinned(c).verifier = "target"
            /\ tState[c].agree /\ tRuntime = "closed" => tState[c].read.code = tCode[c]

\* And the verdicts, of which the canary's is the one that tells.
ExecutionsHold ==
    \A c \in TargetChain :
        /\ tExecution[c] # Target!Unmeasured /\ tExecution[c].agree /\ tRuntime = "closed"
        /\ "canary" \notin tExecution[c].accepted
        => tPairing[c]

\* The verifier on TargetHome accepts valid proofs only, and will.
Exact == tRuntime = "closed" /\ tCode[TargetHome] = "target" /\ tPairing[TargetHome]

Deployed ==
    tConsumer # Target!NoConsumer =>
        LET id == tConsumer.option.id IN
        /\ tConsumer.option \in Options
        /\ id \in {"AF", "B"} => Pinned(TargetHome).verifier = "target"
        /\ tConsumer.viable => Exact /\ TargetHome \notin tConsumer.widen
        /\ tConsumer.viable /\ tConsumer.decided /\ Target!A \in tOptions => id = "A"
        /\ TargetHome \notin tConsumer.widen =>
              /\ tRuntime = "closed"
              /\ id # "C"
              /\ id = "B0" => Pinned(TargetHome).verifier = "target"
              /\ id = "D" /\ tConsumer.corroborated => ~ tGateway[TargetHome].owner
        /\ TargetHome \notin tConsumer.disable =>
              /\ id # "C"
              /\ tConsumer.corroborated /\ id # "A" => ~ tGateway[TargetHome].owner

TargetInv ==
    TargetTyped /\ OwnersRoute /\ ReadingsHold /\ ExecutionsHold /\ Deployed

\* What the decision rests on does hold.
LEMMA EstablishedIsExact ==
  ASSUME TargetInv, Target!established
  PROVE  Exact
<1>1. TargetHome \in TargetChain
  BY TargetAssumption DEF Target!ChainsAssumption
<1>2. /\ tRuntime = "closed"
      /\ tState[TargetHome].agree /\ tState[TargetHome].read.code = "target"
      /\ tExecution[TargetHome].agree
      /\ ("canary" \in tExecution[TargetHome].accepted)
            = Target!REQUIRED_CHAIN_VERDICTS["canary"]
  BY <1>1 DEF Target!established, Target!RuntimeIsClosed, Target!REQUIRED_CHAIN_VERDICTS
<1>3. "canary" \notin tExecution[TargetHome].accepted
  BY <1>2 DEF Target!REQUIRED_CHAIN_VERDICTS
<1>4. tState[TargetHome] # Target!Unmeasured /\ tExecution[TargetHome] # Target!Unmeasured
  BY <1>2 DEF Target!Unmeasured
<1>5. tCode[TargetHome] = "target"
  BY <1>1, <1>2, <1>4 DEF TargetInv, ReadingsHold
<1>6. tPairing[TargetHome]
  BY <1>1, <1>2, <1>3, <1>4 DEF TargetInv, ExecutionsHold
<1> QED
  BY <1>2, <1>5, <1>6 DEF Exact

LEMMA TargetInitially ==
  ASSUME Target!Init
  PROVE  TargetInv
<1>0. TargetHome \in TargetChain /\ "walletwall" \notin TargetChain
  BY TargetAssumption DEF Target!ChainsAssumption
<1>1. PICK owned \in SUBSET TargetChain, routed \in SUBSET TargetChain :
        tGateway = [g \in Target!Gateway |->
                       [owner |-> g \in owned \cup {"walletwall"},
                        routes |-> [s \in Target!Selector |->
                            IF s = "pinned" /\ g \in routed \cup {"walletwall"}
                            THEN [Target!NoRoute EXCEPT !.verifier = "target"]
                            ELSE Target!NoRoute]]]
  BY DEF Target!Init
<1>2. /\ Target!NoRoute \in [verifier : {Target!None, "target", "squatter"}, frozen : BOOLEAN]
      /\ [Target!NoRoute EXCEPT !.verifier = "target"]
            \in [verifier : {Target!None, "target", "squatter"}, frozen : BOOLEAN]
      /\ [Target!NoRoute EXCEPT !.verifier = "target"].verifier = "target"
      /\ Target!NoRoute.verifier = Target!None
  BY DEF Target!NoRoute
<1>3. tGateway \in [Target!Gateway -> [owner : BOOLEAN, routes : Routes]]
  BY <1>1, <1>2 DEF Routes
<1>4. TargetTyped
  BY <1>3 DEF TargetTyped, Target!Init, Options
<1>5. OwnersRoute
  BY <1>1, <1>2 DEF OwnersRoute, Pinned, Target!Selector, Target!None
<1>6. ReadingsHold /\ ExecutionsHold /\ Deployed
  BY DEF Target!Init, ReadingsHold, ExecutionsHold, Deployed
<1> QED
  BY <1>4, <1>5, <1>6 DEF TargetInv

LEMMA readChainKeeps ==
  ASSUME TargetInv, NEW c \in TargetChain, Target!readChain(c)
  PROVE  TargetInv'
<1> DEFINE now == [agree |-> tLies[c] # "code", stateCorroborated |-> tLies[c] = Target!None,
                   read |-> [code |-> IF tLies[c] = "code" THEN "target" ELSE tCode[c],
                             owner |-> IF tLies[c] = "owner" THEN FALSE ELSE tGateway[c].owner,
                             routed |-> Pinned(c) = [verifier |-> "target", frozen |-> FALSE]]]
<1>1. /\ tConsumer = Target!NoConsumer
      /\ tState' = [tState EXCEPT ![c] = now]
      /\ UNCHANGED <<tRuntime, tCode, tPairing, tMoved, tGateway, tLies, tExecution, tOptions,
                     tConsumer>>
  BY DEF Target!readChain, Pinned
<1>2. c \in Target!Gateway /\ tState \in [TargetChain -> {Target!Unmeasured} \cup Reading]
  BY DEF Target!Gateway, TargetInv, TargetTyped
<1>3. now \in Reading
  BY <1>2 DEF Reading, TargetInv, TargetTyped
<1>4. /\ now.stateCorroborated => now.read.owner = tGateway[c].owner
      /\ now.read.routed => Pinned(c).verifier = "target"
      /\ now.agree => now.read.code = tCode[c]
  <2>1. /\ now.stateCorroborated <=> tLies[c] = Target!None
        /\ now.agree <=> tLies[c] # "code"
        /\ now.read.owner = IF tLies[c] = "owner" THEN FALSE ELSE tGateway[c].owner
        /\ now.read.code = IF tLies[c] = "code" THEN "target" ELSE tCode[c]
        /\ now.read.routed <=> Pinned(c) = [verifier |-> "target", frozen |-> FALSE]
    OBVIOUS
  <2>2. now.stateCorroborated => now.read.owner = tGateway[c].owner
    BY <2>1 DEF Target!None
  <2>3. now.read.routed => Pinned(c).verifier = "target"
    BY <2>1
  <2>4. now.agree => now.read.code = tCode[c]
    BY <2>1
  <2> QED
    BY <2>2, <2>3, <2>4
<1> HIDE DEF now
<1>5. TargetTyped'
  BY <1>1, <1>2, <1>3 DEF TargetInv, TargetTyped
<1>6. ReadingsHold'
  <2>1. tState'[c] = now /\ \A d \in TargetChain : d # c => tState'[d] = tState[d]
    BY <1>1, <1>2
  <2>2. Target!Unmeasured' = Target!Unmeasured /\ \A d \in TargetChain : Pinned(d)' = Pinned(d)
    BY <1>1 DEF Target!Unmeasured, Pinned
  <2> QED
    BY <1>1, <1>4, <2>1, <2>2 DEF TargetInv, ReadingsHold
<1>7. OwnersRoute' /\ ExecutionsHold' /\ Deployed'
  BY <1>1 DEF TargetInv, OwnersRoute, ExecutionsHold, Deployed, Pinned
<1> QED
  BY <1>5, <1>6, <1>7 DEF TargetInv

LEMMA executeOnChainKeeps ==
  ASSUME TargetInv, NEW c \in TargetChain, Target!executeOnChain(c)
  PROVE  TargetInv'
<1> DEFINE now == [agree |-> tLies[c] # "verdicts",
                   accepted |-> IF tLies[c] = "verdicts" THEN {"valid"}
                                ELSE {p \in Target!expectedChainCalls : Target!RunVerifier(c, p)}]
<1>1. /\ tConsumer = Target!NoConsumer
      /\ tExecution' = [tExecution EXCEPT ![c] = now]
      /\ UNCHANGED <<tRuntime, tCode, tPairing, tMoved, tGateway, tLies, tState, tOptions,
                     tConsumer>>
  BY DEF Target!executeOnChain
<1>2. tExecution \in [TargetChain -> {Target!Unmeasured} \cup
                                     [agree : BOOLEAN, accepted : SUBSET Target!Proof]]
  BY DEF TargetInv, TargetTyped
<1>3. now \in [agree : BOOLEAN, accepted : SUBSET Target!Proof]
  BY DEF Target!expectedChainCalls, Target!Proof
<1>4. now.agree /\ "canary" \notin now.accepted => tPairing[c]
  BY DEF Target!expectedChainCalls, Target!RunVerifier
<1> HIDE DEF now
<1>5. TargetTyped'
  BY <1>1, <1>2, <1>3 DEF TargetInv, TargetTyped
<1>6. ExecutionsHold'
  BY <1>1, <1>2, <1>4 DEF TargetInv, ExecutionsHold
<1>7. OwnersRoute' /\ ReadingsHold' /\ Deployed'
  BY <1>1 DEF TargetInv, OwnersRoute, ReadingsHold, Deployed, Pinned
<1> QED
  BY <1>5, <1>6, <1>7 DEF TargetInv

\* Who decides for an option has the direct one to compare with.
LEMMA DecidedIsDirect ==
  ASSUME NEW o \in Options, Target!viable(o), o \in Target!decideTrustTarget,
         Target!A \in tOptions
  PROVE  o.id = "A"
<1>1. Target!A \in Options /\ Target!A.id = "A" /\ Target!A.length = 3
  BY Components DEF Options
<1>2. Target!viable(Target!A)
  BY <1>1, Levers DEF Target!viable
<1>3. \/ Target!External(o) < Target!External(Target!A)
      \/ Target!External(o) = Target!External(Target!A) /\ o.length <= Target!A.length
  BY <1>2 DEF Target!decideTrustTarget
<1>4. \A S : Target!Cardinality(S) = Cardinality(S)
  BY DEF Target!Cardinality, Target!IsFiniteSet, Cardinality, IsFiniteSet
<1>5. IsFiniteSet(TargetChain)
  BY TargetAssumption DEF Target!ChainsAssumption, Target!IsFiniteSet, IsFiniteSet
<1>6. Target!External(Target!A) = 0
  BY <1>1, <1>4, Components, Levers, FS_EmptySet DEF Target!External
<1>7. Target!External(o) \in Nat
  <2>1. Target!disable(o) \subseteq TargetChain
    BY Levers, Components DEF Options, Target!Owned
  <2>2. Cardinality(Target!disable(o)) \in Nat
    BY <1>5, <2>1, FS_Subset, FS_CardinalityType
  <2> QED
    BY <1>4, <2>2 DEF Target!External
<1>8. o.length <= 3
  BY <1>1, <1>3, <1>6, <1>7
<1> QED
  BY <1>8, Components

LEMMA deployKeeps ==
  ASSUME TargetInv, NEW o \in tOptions, Target!deploy(o)
  PROVE  TargetInv'
<1>0. TargetHome \in TargetChain /\ o \in Options
  BY TargetAssumption DEF Target!ChainsAssumption, TargetInv, TargetTyped
<1>1. /\ UNCHANGED <<tRuntime, tCode, tPairing, tMoved, tGateway, tLies, tState, tExecution,
                     tOptions>>
      /\ Target!Constructible(o, TargetHome)
      /\ tState[TargetHome] # Target!Unmeasured
  BY <1>0 DEF Target!deploy
<1>2. /\ tConsumer'.option = o /\ tConsumer'.viable = Target!viable(o)
      /\ tConsumer'.decided = (o \in Target!decideTrustTarget)
      /\ tConsumer'.corroborated = (\A d \in TargetChain : tState[d].stateCorroborated)
      /\ tConsumer'.widen = Target!widen(o) /\ tConsumer'.disable = Target!disable(o)
  BY DEF Target!deploy
<1>3. TargetTyped' /\ OwnersRoute' /\ ReadingsHold' /\ ExecutionsHold'
  BY <1>1 DEF TargetInv, TargetTyped, OwnersRoute, ReadingsHold, ExecutionsHold, Pinned
<1>4. o.id \in {"AF", "B"} => Pinned(TargetHome).verifier = "target"
  BY <1>0, <1>1, Components DEF Target!Constructible, Pinned
<1>5. Target!viable(o) => Exact /\ TargetHome \notin Target!widen(o)
  BY EstablishedIsExact DEF Target!viable
<1>6. Target!viable(o) /\ o \in Target!decideTrustTarget /\ Target!A \in tOptions => o.id = "A"
  BY <1>0, DecidedIsDirect
<1>7. ASSUME TargetHome \notin Target!widen(o)
      PROVE  /\ tRuntime = "closed" /\ o.id # "C"
             /\ o.id = "B0" => Pinned(TargetHome).verifier = "target"
             /\ o.id = "D" /\ tState[TargetHome].stateCorroborated => ~ tGateway[TargetHome].owner
  <2>1. Target!established /\ o.id # "C"
    BY <1>0, <1>7, Levers
  <2>2. o.id = "B0" => tState[TargetHome].read.routed
    BY <1>0, <1>7, Levers DEF Target!Unrouted
  <2>3. o.id = "D" => ~ tState[TargetHome].read.owner
    BY <1>0, <1>7, Levers DEF Target!Owned
  <2> QED
    BY <1>0, <1>1, <2>1, <2>2, <2>3
       DEF Target!established, Target!RuntimeIsClosed, TargetInv, ReadingsHold
<1>8. ASSUME TargetHome \notin Target!disable(o)
      PROVE  /\ o.id # "C"
             /\ tState[TargetHome].stateCorroborated /\ o.id # "A" => ~ tGateway[TargetHome].owner
  <2>1. o.id # "C" /\ (o.id # "A" => TargetHome \notin Target!Owned)
    BY <1>0, <1>8, Levers, Components DEF Options
  <2> QED
    BY <1>0, <1>1, <2>1 DEF Target!Owned, TargetInv, ReadingsHold
<1>9. Deployed'
  <2>1. Target!A' = Target!A
    BY DEF Target!A, Target!Option
  <2>2. Exact' <=> Exact
    BY <1>1 DEF Exact
  <2>3. tConsumer'.corroborated => tState[TargetHome].stateCorroborated
    BY <1>0, <1>2
  <2> QED
    BY <1>0, <1>1, <1>2, <1>4, <1>5, <1>6, <1>7, <1>8, <2>1, <2>2, <2>3 DEF Deployed, Pinned
<1> QED
  BY <1>3, <1>9 DEF TargetInv

LEMMA moveVerifierKeeps ==
  ASSUME TargetInv, Target!moveVerifier(TargetHome)
  PROVE  TargetInv'
<1>1. /\ tRuntime # "closed" /\ tRuntime' = tRuntime
      /\ UNCHANGED <<tPairing, tGateway, tLies, tState, tExecution, tOptions, tConsumer>>
      /\ tCode' \in [TargetChain -> {"target", "other"}] /\ tMoved' \in BOOLEAN
  BY DEF Target!moveVerifier, TargetInv, TargetTyped
<1>2. TargetTyped'
  BY <1>1 DEF TargetInv, TargetTyped
<1>3. OwnersRoute' /\ ReadingsHold' /\ ExecutionsHold' /\ Deployed'
  BY <1>1 DEF TargetInv, OwnersRoute, ReadingsHold, ExecutionsHold, Deployed, Exact, Pinned
<1> QED
  BY <1>2, <1>3 DEF TargetInv

\* A gateway's owner writes routes once.
LEMMA RouteStep ==
  ASSUME TargetInv, NEW g \in Target!Gateway, tGateway[g].owner,
         tGateway' \in [Target!Gateway -> [owner : BOOLEAN, routes : Routes]],
         \A h \in Target!Gateway :
            /\ tGateway'[h].owner = tGateway[h].owner
            /\ h # g => tGateway'[h] = tGateway[h]
            /\ Pinned(h).verifier = "target" => Pinned(h)'.verifier = "target",
         UNCHANGED <<tRuntime, tCode, tPairing, tMoved, tLies, tState, tExecution, tOptions,
                     tConsumer>>
  PROVE  TargetInv'
<1>1. TargetTyped'
  BY DEF TargetInv, TargetTyped
<1>2. OwnersRoute'
  BY DEF TargetInv, OwnersRoute, Pinned
<1>3. TargetHome \in Target!Gateway /\ \A c \in TargetChain : c \in Target!Gateway
  BY TargetAssumption DEF Target!ChainsAssumption, Target!Gateway
<1>4. ReadingsHold' /\ ExecutionsHold'
  BY <1>3 DEF TargetInv, ReadingsHold, ExecutionsHold
<1>5. Deployed'
  BY <1>3 DEF TargetInv, Deployed, Exact
<1> QED
  BY <1>1, <1>2, <1>4, <1>5 DEF TargetInv

LEMMA addRouteKeeps ==
  ASSUME TargetInv, NEW g \in Target!Gateway, Target!addRoute(g)
  PROVE  TargetInv'
<1>1. PICK s \in Target!Selector, v \in {"target", "squatter"} :
         /\ tGateway[g].routes[s].verifier = Target!None
         /\ tGateway' = [tGateway EXCEPT ![g].routes[s].verifier = v]
  BY DEF Target!addRoute
<1>2. /\ tGateway \in [Target!Gateway -> [owner : BOOLEAN, routes : Routes]]
      /\ s \in {"pinned", "other"}
  BY DEF TargetInv, TargetTyped, Target!Selector
<1>3. tGateway' \in [Target!Gateway -> [owner : BOOLEAN, routes : Routes]]
  BY <1>1, <1>2 DEF Routes, Target!Selector
<1>4. ASSUME NEW h \in Target!Gateway
      PROVE  /\ tGateway'[h].owner = tGateway[h].owner
             /\ h # g => tGateway'[h] = tGateway[h]
             /\ Pinned(h).verifier = "target" => Pinned(h)'.verifier = "target"
  BY <1>1, <1>2 DEF Pinned, Routes, Target!Selector, Target!None
<1> QED
  BY <1>3, <1>4, RouteStep DEF Target!addRoute

LEMMA freezeRouteKeeps ==
  ASSUME TargetInv, NEW g \in Target!Gateway, Target!freezeRoute(g)
  PROVE  TargetInv'
<1>1. PICK s \in Target!Selector :
         tGateway' = [tGateway EXCEPT ![g].routes[s].frozen = TRUE]
  BY DEF Target!freezeRoute
<1>2. /\ tGateway \in [Target!Gateway -> [owner : BOOLEAN, routes : Routes]]
      /\ s \in {"pinned", "other"}
  BY DEF TargetInv, TargetTyped, Target!Selector
<1>3. tGateway' \in [Target!Gateway -> [owner : BOOLEAN, routes : Routes]]
  <2> DEFINE R == [verifier : {Target!None, "target", "squatter"}, frozen : BOOLEAN]
             routes == [tGateway[g].routes EXCEPT ![s] = [@ EXCEPT !.frozen = TRUE]]
  <2>1. /\ tGateway[g] \in [owner : BOOLEAN, routes : Routes]
        /\ tGateway[g].routes \in [Target!Selector -> R]
    BY <1>2 DEF Routes
  <2>2. [tGateway[g].routes[s] EXCEPT !.frozen = TRUE] \in R
    BY <2>1
  <2>3. routes \in Routes
    BY <2>1, <2>2 DEF Routes
  <2>4. [tGateway[g] EXCEPT !.routes = routes] \in [owner : BOOLEAN, routes : Routes]
    BY <2>1, <2>3
  <2>5. tGateway' = [tGateway EXCEPT ![g] = [tGateway[g] EXCEPT !.routes = routes]]
    BY <1>1
  <2> QED
    BY <1>2, <2>4, <2>5
<1>4. ASSUME NEW h \in Target!Gateway
      PROVE  /\ tGateway'[h].owner = tGateway[h].owner
             /\ h # g => tGateway'[h] = tGateway[h]
             /\ Pinned(h).verifier = "target" => Pinned(h)'.verifier = "target"
  BY <1>1, <1>2 DEF Pinned, Routes, Target!Selector
<1> QED
  BY <1>3, <1>4, RouteStep DEF Target!freezeRoute

LEMMA TargetKept ==
  ASSUME TargetInv, [Target!Next]_target
  PROVE  TargetInv'
<1>1. CASE \E c \in TargetChain : Target!readChain(c) \/ Target!executeOnChain(c)
  BY <1>1, readChainKeeps, executeOnChainKeeps
<1>2. CASE \E o \in tOptions : Target!deploy(o)
  BY <1>2, deployKeeps
<1>3. CASE Target!moveVerifier(TargetHome)
  BY <1>3, moveVerifierKeeps
<1>4. CASE \E g \in {TargetHome, "walletwall"} : Target!addRoute(g) \/ Target!freezeRoute(g)
  <2>1. {TargetHome, "walletwall"} \subseteq Target!Gateway
    BY TargetAssumption DEF Target!ChainsAssumption, Target!Gateway
  <2> QED
    BY <1>4, <2>1, addRouteKeeps, freezeRouteKeeps
<1>5. CASE UNCHANGED target
  BY <1>5 DEF target, TargetInv, TargetTyped, OwnersRoute, ReadingsHold, ExecutionsHold,
              Deployed, Exact, Pinned
<1> QED
  BY <1>1, <1>2, <1>3, <1>4, <1>5 DEF Target!Next

LEMMA TargetRuns == Spec => []TargetInv /\ [][Target!Next]_target
<1>1. Init => TargetInv
  BY TargetInitially DEF Init, Target!Unflawed
<1>2. [Next]_<<part, egress, advisories, target, registry>> => [Target!Next]_target
  BY DEF Next
<1>3. TargetInv /\ [Target!Next]_target => TargetInv'
  BY TargetKept
<1> QED
  BY <1>1, <1>2, <1>3, PTL DEF Spec

-----------------------------------------------------------------------------
(* What the consumer accepts, now and after a step *)

\* The consumer of a viable option never accepts anything but valid proofs, whatever
\* the owners of gateways do after it was measured (sp1-td1-decision.ts:1297): its
\* verifier is exact and cannot change, and the routes it takes are either pinned
\* and written or on a gateway without an owner.
THEOREM ViableStaysExact == Spec => []ViableIsExact
<1>1. TargetInv => ViableIsExact
  <2> SUFFICES ASSUME TargetInv, tConsumer # Target!NoConsumer, tConsumer.viable,
                      tConsumer.corroborated \/ (tConsumer.decided /\ Target!A \in tOptions),
                      NEW p \in Target!Proof,
                      Target!Accepts(tConsumer.option, TargetHome, p)
               PROVE  p = "valid"
    BY DEF ViableIsExact, Target!ViableIsExact, Target!Accepted
  <2> DEFINE o == tConsumer.option
  <2>1. o \in Options /\ Exact /\ TargetHome \notin tConsumer.widen
    BY DEF TargetInv, Deployed
  <2>2. Target!RunVerifier(TargetHome, p) => p = "valid"
    BY <2>1 DEF Exact, Target!RunVerifier
  <2>3. TargetHome \in Target!Gateway
    BY TargetAssumption DEF Target!ChainsAssumption, Target!Gateway
  <2>4. CASE o.id = "A" \/ o.id = "AF"
    BY <2>1, <2>2, <2>4, WhatIsAccepted DEF AcceptsWhatItTakes, Takes
  <2>5. CASE o.id \in {"B", "B0"}
    <3>1. p # "crafted" /\ Target!Route(TargetHome, TargetHome, p)
      BY <2>1, <2>5, WhatIsAccepted DEF AcceptsWhatItTakes, Takes
    <3>2. Pinned(TargetHome).verifier = "target"
      BY <2>1, <2>5 DEF TargetInv, Deployed
    <3> QED
      BY <2>2, <3>1, <3>2 DEF Target!Route, Target!SelectorOf, Pinned
  <2>6. CASE o.id = "D"
    <3>1. Target!Route(TargetHome, TargetHome, p)
      BY <2>1, <2>6, WhatIsAccepted DEF AcceptsWhatItTakes, Takes
    <3>2. tConsumer.corroborated
      BY <2>6 DEF TargetInv, Deployed
    <3>3. ~ tGateway[TargetHome].owner
      BY <2>1, <2>6, <3>2 DEF TargetInv, Deployed
    <3>4. /\ Pinned(TargetHome).verifier # "squatter"
          /\ tGateway[TargetHome].routes["other"].verifier = Target!None
      BY <2>3, <3>3 DEF TargetInv, OwnersRoute
    <3> QED
      BY <2>2, <3>1, <3>4 DEF Target!Route, Target!SelectorOf, Pinned, Target!None
  <2>7. o.id # "C"
    BY <2>1 DEF TargetInv, Deployed
  <2>8. o.id \in {"A", "AF", "B", "B0", "C", "D"}
    BY <2>1, Components DEF Options
  <2> QED
    BY <2>4, <2>5, <2>6, <2>7, <2>8
<1> QED
  BY <1>1, TargetRuns, PTL

\* A step does not change the consumer, nor more than one of what it goes by.
LEMMA OthersSteps ==
  ASSUME TargetInv, Target!Next, tConsumer # Target!NoConsumer
  PROVE  /\ tConsumer' = tConsumer
         /\ \/ Target!moveVerifier(TargetHome)
            \/ Target!addRoute(TargetHome) \/ Target!freezeRoute(TargetHome)
            \/ /\ Target!addRoute("walletwall") \/ Target!freezeRoute("walletwall")
               /\ tConsumer.option.id = "C"
<1>1. tConsumer.option \in Options
  BY DEF TargetInv, Deployed
<1>2. Target!Reachable("walletwall") => tConsumer.option.id = "C"
  BY <1>1, Components DEF Target!Reachable
<1>3. \/ Target!moveVerifier(TargetHome)
      \/ \E g \in {TargetHome, "walletwall"} : Target!addRoute(g) \/ Target!freezeRoute(g)
  BY DEF Target!Next, Target!readChain, Target!executeOnChain, Target!deploy
<1> QED
  BY <1>2, <1>3 DEF Target!moveVerifier, Target!addRoute, Target!freezeRoute

\* What a route lets through, before and after one is added or frozen.
LEMMA RouteAfter ==
  ASSUME TargetInv, NEW g \in Target!Gateway, NEW h \in Target!Gateway, NEW p,
         UNCHANGED <<tRuntime, tCode, tPairing, tMoved>>
  PROVE  /\ Target!addRoute(g) =>
               /\ Target!Route(h, TargetHome, p) => Target!Route(h, TargetHome, p)'
               /\ Pinned(h)'.frozen = Pinned(h).frozen
               /\ h # g \/ (Pinned(h).verifier = "target" /\ p # "crafted")
                     => (Target!Route(h, TargetHome, p)' => Target!Route(h, TargetHome, p))
         /\ Target!freezeRoute(g) =>
               /\ Target!Route(h, TargetHome, p)' => Target!Route(h, TargetHome, p)
               /\ Pinned(h).frozen => Pinned(h)'.frozen
               /\ h # g => (Target!Route(h, TargetHome, p) => Target!Route(h, TargetHome, p)')
<1> DEFINE sel == Target!SelectorOf(p)
<1>1. /\ sel \in {"pinned", "other"} /\ (p # "crafted" => sel = "pinned")
      /\ Target!SelectorOf(p)' = sel
  BY DEF Target!SelectorOf
<1>2. Target!RunVerifier(TargetHome, p)' <=> Target!RunVerifier(TargetHome, p)
  BY DEF Target!RunVerifier
<1>3. /\ tGateway \in [Target!Gateway -> [owner : BOOLEAN, routes : Routes]]
      /\ \A i \in Target!Gateway : /\ tGateway[i].routes \in Routes
                                   /\ DOMAIN tGateway[i].routes = {"pinned", "other"}
  BY DEF TargetInv, TargetTyped, Routes, Target!Selector
<1>4. /\ Target!Route(h, TargetHome, p) <=>
            /\ ~ tGateway[h].routes[sel].frozen
            /\ \/ /\ tGateway[h].routes[sel].verifier = "target"
                  /\ Target!RunVerifier(TargetHome, p)
               \/ tGateway[h].routes[sel].verifier = "squatter"
      /\ Target!Route(h, TargetHome, p)' <=>
            /\ ~ tGateway'[h].routes[sel].frozen
            /\ \/ /\ tGateway'[h].routes[sel].verifier = "target"
                  /\ Target!RunVerifier(TargetHome, p)
               \/ tGateway'[h].routes[sel].verifier = "squatter"
  BY <1>1, <1>2 DEF Target!Route
<1> HIDE DEF sel
<1>5. ASSUME Target!addRoute(g)
      PROVE  /\ h # g => tGateway'[h] = tGateway[h]
             /\ \A t \in {"pinned", "other"} :
                   /\ tGateway'[h].routes[t].frozen = tGateway[h].routes[t].frozen
                   /\ tGateway[h].routes[t].verifier # Target!None =>
                        tGateway'[h].routes[t].verifier = tGateway[h].routes[t].verifier
  <2>1. PICK s \in {"pinned", "other"}, v \in {"target", "squatter"} :
           /\ tGateway[g].routes[s].verifier = Target!None
           /\ tGateway' = [tGateway EXCEPT ![g].routes[s].verifier = v]
    BY <1>5 DEF Target!addRoute, Target!Selector
  <2> QED
    BY <1>3, <2>1 DEF Routes, Target!Selector
<1>6. ASSUME Target!freezeRoute(g)
      PROVE  /\ h # g => tGateway'[h] = tGateway[h]
             /\ \A t \in {"pinned", "other"} :
                   /\ tGateway[h].routes[t].frozen => tGateway'[h].routes[t].frozen
                   /\ tGateway'[h].routes[t].verifier = tGateway[h].routes[t].verifier
  <2>1. PICK s \in {"pinned", "other"} :
           tGateway' = [tGateway EXCEPT ![g].routes[s].frozen = TRUE]
    BY <1>6 DEF Target!freezeRoute, Target!Selector
  <2> QED
    BY <1>3, <2>1 DEF Routes, Target!Selector
<1>7. Target!None # "target" /\ Target!None # "squatter"
  BY DEF Target!None
<1>8. ASSUME Target!addRoute(g)
      PROVE  /\ Target!Route(h, TargetHome, p) => Target!Route(h, TargetHome, p)'
             /\ Pinned(h)'.frozen = Pinned(h).frozen
             /\ h # g \/ (Pinned(h).verifier = "target" /\ p # "crafted")
                   => (Target!Route(h, TargetHome, p)' => Target!Route(h, TargetHome, p))
  BY <1>1, <1>4, <1>5, <1>7, <1>8 DEF Pinned
<1>9. ASSUME Target!freezeRoute(g)
      PROVE  /\ Target!Route(h, TargetHome, p)' => Target!Route(h, TargetHome, p)
             /\ Pinned(h).frozen => Pinned(h)'.frozen
             /\ h # g => (Target!Route(h, TargetHome, p) => Target!Route(h, TargetHome, p)')
  BY <1>1, <1>4, <1>6, <1>9 DEF Pinned
<1> QED
  BY <1>8, <1>9

\* The levers an option is listed with are all there are: whatever step makes the
\* consumer accept more or less, its chain is among those the lever reaches
\* (sp1-td1-decision.ts:1079-1209).
THEOREM LeversAreNamed == Spec => ChangesAreNamed
<1>1. TargetInv /\ AcceptsWhatItTakes /\ AcceptsWhatItTakes' /\ [Target!Next]_target
        => [tConsumer # Target!NoConsumer /\ tConsumer.corroborated =>
              /\ ~ (Target!Accepted' \subseteq Target!Accepted) => TargetHome \in tConsumer.widen
              /\ ~ (Target!Accepted \subseteq Target!Accepted')
                    => TargetHome \in tConsumer.disable]_(Target!vars)
  <2> SUFFICES ASSUME TargetInv, AcceptsWhatItTakes, AcceptsWhatItTakes', Target!Next,
                      tConsumer # Target!NoConsumer, tConsumer.corroborated
               PROVE  /\ ~ (Target!Accepted' \subseteq Target!Accepted)
                            => TargetHome \in tConsumer.widen
                      /\ ~ (Target!Accepted \subseteq Target!Accepted')
                            => TargetHome \in tConsumer.disable
    BY DEF target, Target!vars
  <2> DEFINE o == tConsumer.option
  <2>1. o \in Options /\ o.id \in {"A", "AF", "B", "B0", "C", "D"}
    BY Components DEF TargetInv, Deployed, Options
  <2>2. tConsumer' = tConsumer
    BY OthersSteps
  <2>3. \A p \in Target!Proof : /\ p \in Target!Accepted <=> Takes(o, p)
                                /\ p \in Target!Accepted' <=> Takes(o, p)'
    BY <2>1, <2>2 DEF AcceptsWhatItTakes, Target!Accepted
  <2>4. Target!Accepted \subseteq Target!Proof /\ Target!Accepted' \subseteq Target!Proof
    BY DEF Target!Accepted, Target!Proof
  <2>5. TargetHome \in Target!Gateway /\ "walletwall" \in Target!Gateway /\ TargetHome # "walletwall"
    BY TargetAssumption DEF Target!ChainsAssumption, Target!Gateway
  <2> SUFFICES ASSUME NEW p \in Target!Proof
               PROVE  /\ Takes(o, p)' /\ ~ Takes(o, p) => TargetHome \in tConsumer.widen
                      /\ Takes(o, p) /\ ~ Takes(o, p)' => TargetHome \in tConsumer.disable
    BY <2>3, <2>4
  <2>6. CASE Target!moveVerifier(TargetHome)
    <3>1. tRuntime # "closed" /\ UNCHANGED <<tRuntime, tPairing, tGateway>>
      BY <2>6 DEF Target!moveVerifier
    <3>2. TargetHome \in tConsumer.widen
      BY <3>1 DEF TargetInv, Deployed
    <3>3. Target!RunVerifier(TargetHome, p) => Target!RunVerifier(TargetHome, p)'
      BY <2>6, TargetAssumption
         DEF Target!moveVerifier, Target!RunVerifier, TargetInv, TargetTyped,
             Target!ChainsAssumption
    <3>4. Takes(o, p) => Takes(o, p)'
      BY <2>2, <3>1, <3>3 DEF Takes, Target!Route, Target!SelectorOf, Pinned
    <3> QED
      BY <3>2, <3>4
  <2>7. CASE Target!addRoute(TargetHome)
    <3>1. /\ UNCHANGED <<tRuntime, tCode, tPairing, tMoved>> /\ tGateway[TargetHome].owner
          /\ Target!RunVerifier(TargetHome, p)' <=> Target!RunVerifier(TargetHome, p)
      BY <2>7 DEF Target!addRoute, Target!RunVerifier
    <3>2. Takes(o, p) => Takes(o, p)'
      BY <2>2, <2>5, <2>7, <3>1, RouteAfter DEF Takes
    <3>3. TargetHome \notin tConsumer.widen =>
             o.id \notin {"C", "D"} /\ (o.id \in {"B", "B0"} => Pinned(TargetHome).verifier = "target")
      BY <3>1 DEF TargetInv, Deployed
    <3>4. TargetHome \notin tConsumer.widen => (Takes(o, p)' => Takes(o, p))
      BY <2>2, <2>5, <2>7, <3>1, <3>3, RouteAfter DEF Takes
    <3> QED
      BY <3>2, <3>4
  <2>8. CASE Target!freezeRoute(TargetHome)
    <3>1. /\ UNCHANGED <<tRuntime, tCode, tPairing, tMoved>> /\ tGateway[TargetHome].owner
          /\ Target!RunVerifier(TargetHome, p)' <=> Target!RunVerifier(TargetHome, p)
      BY <2>8 DEF Target!freezeRoute, Target!RunVerifier
    <3>2. Takes(o, p)' => Takes(o, p)
      BY <2>2, <2>5, <2>8, <3>1, RouteAfter DEF Takes
    <3>3. TargetHome \notin tConsumer.disable => o.id = "A"
      BY <3>1 DEF TargetInv, Deployed
    <3>4. o.id = "A" => (Takes(o, p) => Takes(o, p)')
      BY <2>2, <3>1 DEF Takes
    <3> QED
      BY <3>2, <3>3, <3>4
  <2>9. ASSUME o.id = "C" PROVE TargetHome \in tConsumer.widen /\ TargetHome \in tConsumer.disable
    BY <2>9 DEF TargetInv, Deployed
  <2> QED
    BY <2>6, <2>7, <2>8, <2>9, OthersSteps
<1> QED
  BY <1>1, WhatIsAccepted, TargetRuns, PTL DEF ChangesAreNamed, Target!ChangesAreNamed

-----------------------------------------------------------------------------
(* The host's advisories: what a valid record rests on *)

Obs == hObservation
Derived == Advisories!deriveFindings(Obs, Advisories!evidenceResults(Obs))

\* The tree that was measured is, in what it locks, compiles and shows, the designated one.
LEMMA ValidIsCurrent ==
  ASSUME Advisories!evaluateHostAdvisories = "ASSESSMENT_VALID"
  PROVE  /\ hHead = Advisories!Designated /\ Obs.tool = hTool
         /\ Obs.tree \notin {"bumped", "refeatured"}
         /\ Advisories!Lock(Obs.tree) = {"p1", "p2", "q1"}
         /\ Advisories!catalogSound
         /\ hRecord = Advisories!deriveRecord
         /\ Advisories!evidenceResults(Obs) = Advisories!Evidence
         /\ \A r \in Derived : /\ r.reach \notin {"UNSUPPORTED", "UNASSESSED"}
                               /\ r.bucket # "MUST_FIX"
<1>1. ~ Advisories!stale /\ ~ Advisories!invalid
  BY DEF Advisories!evaluateHostAdvisories
<1>2. /\ hHead = Advisories!Designated /\ hDisk = Advisories!Designated /\ Obs.tool = hTool
      /\ Advisories!Lock(Advisories!Designated) = Advisories!Lock(Obs.tree)
  BY <1>1 DEF Advisories!stale, Advisories!subjectCurrent, Advisories!observationCurrent, Obs
<1>3. Advisories!Lock(Obs.tree) = {"p1", "p2", "q1"} /\ Obs.tree # "bumped"
  BY <1>2 DEF Advisories!Lock, Advisories!Designated
<1>4. /\ Advisories!deriveRecord.evidence = Advisories!Evidence
      /\ \A r \in Advisories!deriveRecord.findings : r.reach # "UNSUPPORTED"
  BY <1>1, <1>2 DEF Advisories!stale, Obs
<1>5. /\ Advisories!deriveRecord.evidence = Advisories!evidenceResults(Obs)
      /\ Advisories!deriveRecord.findings = Derived
  BY DEF Advisories!deriveRecord, Derived, Obs
<1>6. /\ Advisories!catalogSound
      /\ hRecord = Advisories!deriveRecord
      /\ \A r \in Advisories!deriveRecord.findings :
            r.reach # "UNASSESSED" /\ r.bucket # "MUST_FIX"
  BY <1>1, <1>2 DEF Advisories!invalid, Advisories!recordDrift, Obs
<1>7. Obs.tree # "refeatured"
  BY <1>4, <1>5 DEF Advisories!evidenceResults, Advisories!Evidence, Advisories!FactsOf,
                    Advisories!Assumptions
<1> QED
  BY <1>2, <1>3, <1>4, <1>5, <1>6, <1>7

\* Claims are never other than those there are.
KnownClaims == hClaims \subseteq Advisories!Claims

LEMMA ClaimsStay == Spec => []KnownClaims
<1>1. Init => KnownClaims
  BY DEF Init, Advisories!Init, KnownClaims
<1>2. /\ KnownClaims
      /\ [Next]_<<part, egress, advisories, target, registry>>
      => KnownClaims'
  <2>1. Advisories!Claims' = Advisories!Claims
    BY DEF Advisories!Claims
  <2>2. Advisories!Next => hClaims' = hClaims \/ Advisories!editClaims
    BY DEF Advisories!Next, Advisories!fetchDatabase, Advisories!readIndex, Advisories!audit,
           Advisories!finish, Advisories!failMeasurement, Advisories!generate,
           Advisories!worldChanges, Advisories!editHost, Advisories!editElsewhere,
           Advisories!editRecord, Advisories!repository, Advisories!world
  <2>3. Advisories!editClaims /\ hClaims \subseteq Advisories!Claims
          => hClaims' \subseteq Advisories!Claims
    BY DEF Advisories!editClaims
  <2>4. [Next]_<<part, egress, advisories, target, registry>>
          => hClaims' = hClaims \/ Advisories!Next
    BY DEF Next, advisories
  <2> QED
    BY <2>1, <2>2, <2>3, <2>4 DEF KnownClaims
<1> QED
  BY <1>1, <1>2, PTL DEF Spec

LEMMA ShowsValidRestsOnToday ==
  ASSUME KnownClaims
  PROVE  Advisories!ValidRestsOnToday
<1> SUFFICES ASSUME Advisories!evaluateHostAdvisories = "ASSESSMENT_VALID",
                    NEW package \in Obs.rustsec.hits \cap Advisories!Lock(hHead)
             PROVE  /\ \E r \in hRecord.findings :
                          /\ r.finding.package = package /\ r.finding.lockfile = "host"
                          /\ r.finding.kind = Obs.rustsec.kind
                          /\ r.compiled = (package \in Advisories!Compiled(hHead))
                    /\ Obs.rustsec.kind = "vulnerability" /\ package \in Advisories!Compiled(hHead)
                         => \E c \in hClaims :
                              /\ c.lockfile = "host" /\ c.crate = Advisories!Crate(package)
                              /\ c.requires \subseteq
                                   Advisories!FactsOf(hHead, hTool) \cup Advisories!Assumptions
                              /\ c.requires \cap {"feature", "source"} # {}
  BY DEF Advisories!ValidRestsOnToday, Obs
<1> DEFINE holding == Advisories!evidenceResults(Obs)
           f == [lockfile |-> "host", kind |-> Obs.rustsec.kind, id |-> "A",
                 package |-> package, advisory |-> Obs.rustsec.hits]
           r == [finding |-> f, compiled |-> Advisories!compiledIn(f, Obs),
                 fix |-> Advisories!lockfileOnly(f, Obs),
                 reach |-> Advisories!reachability(f, Obs, holding),
                 bucket |-> Advisories!bucketOf(f, Obs, Advisories!reachability(f, Obs, holding))]
<1>1. /\ hHead = Advisories!Designated /\ Obs.tool = hTool
      /\ Obs.tree \notin {"bumped", "refeatured"}
      /\ Advisories!Lock(Obs.tree) = {"p1", "p2", "q1"}
      /\ Advisories!catalogSound
      /\ hRecord = Advisories!deriveRecord
      /\ \A x \in Derived : /\ x.reach \notin {"UNSUPPORTED", "UNASSESSED"}
                            /\ x.bucket # "MUST_FIX"
  BY ValidIsCurrent
<1>2. /\ Advisories!Lock(hHead) = Advisories!Lock(Obs.tree)
      /\ Advisories!Compiled(hHead) = Advisories!Compiled(Obs.tree)
      /\ Advisories!FactsOf(hHead, hTool) = Advisories!FactsOf(Obs.tree, Obs.tool)
  BY <1>1 DEF Advisories!Lock, Advisories!Compiled, Advisories!FactsOf, Advisories!Designated
<1>3. f \in Advisories!measuredFindingsOf("host", Advisories!Lock(Obs.tree), Obs)
  BY <1>2 DEF Advisories!measuredFindingsOf
<1>4. f.lockfile = "host" /\ f.kind = Obs.rustsec.kind /\ f.package = package /\ f.id = "A"
  OBVIOUS
<1> HIDE DEF f
<1>5. r \in Derived
  BY <1>3 DEF Derived, Advisories!deriveFindings
<1>6. /\ r.finding = f /\ r.compiled = Advisories!compiledIn(f, Obs)
      /\ r.reach = Advisories!reachability(f, Obs, holding)
      /\ r.bucket = Advisories!bucketOf(f, Obs, r.reach)
  OBVIOUS
<1> HIDE DEF r, holding
<1>7. Advisories!compiledIn(f, Obs) = (package \in Advisories!Compiled(hHead))
  BY <1>2, <1>4 DEF Advisories!compiledIn
<1>8. hRecord.findings = Derived
  BY <1>1 DEF Advisories!deriveRecord, Derived, Obs
<1>9. ASSUME Obs.rustsec.kind = "vulnerability", package \in Advisories!Compiled(hHead)
      PROVE  \E c \in hClaims :
               /\ c.lockfile = "host" /\ c.crate = Advisories!Crate(package)
               /\ c.requires \subseteq
                    Advisories!FactsOf(hHead, hTool) \cup Advisories!Assumptions
               /\ c.requires \cap {"feature", "source"} # {}
  <2>1. r.reach \notin {"UNSUPPORTED", "UNASSESSED"} /\ r.bucket # "MUST_FIX"
    BY <1>1, <1>5
  <2>2. Advisories!claimFor(f) # {}
    BY <1>4, <1>6, <1>7, <1>9, <2>1 DEF Advisories!reachability
  <2> DEFINE c == CHOOSE d \in Advisories!claimFor(f) : TRUE
  <2>3. c \in Advisories!claimFor(f)
    BY <2>2
  <2>4. c.requires \subseteq holding /\ r.reach = c.reach
    BY <1>6, <2>1, <2>2 DEF Advisories!reachability
  <2> HIDE DEF c
  <2>5. /\ c \in hClaims /\ c.lockfile = "host" /\ c.crate = Advisories!Crate(package)
    BY <1>4, <2>3 DEF Advisories!claimFor
  <2>6. c.reach \in {"CONDITIONAL", "REACHABLE"}
    BY <2>5 DEF Advisories!Claims, KnownClaims
  <2>7. c.reach # "REACHABLE"
    BY <1>4, <1>6, <1>9, <2>1, <2>4 DEF Advisories!bucketOf
  <2>8. c.requires \cap {"feature", "source"} # {}
    BY <1>1, <2>5, <2>6, <2>7 DEF Advisories!catalogSound
  <2>9. holding = Advisories!FactsOf(hHead, hTool) \cup Advisories!Assumptions
    BY <1>2 DEF holding, Advisories!evidenceResults
  <2> QED
    BY <2>4, <2>5, <2>8, <2>9
<1> QED
  BY <1>4, <1>5, <1>6, <1>7, <1>8, <1>9

\* Findings are told apart by what they are identified by, and judged by that, what the
\* tree compiles of them and whether there is a fix.
LEMMA JudgedAlike ==
  ASSUME NEW f, NEW g, NEW o, NEW q, NEW holding,
         f.lockfile = g.lockfile, f.kind = g.kind, f.id = g.id, f.package = g.package,
         Advisories!compiledIn(f, o) <=> Advisories!compiledIn(g, q),
         Advisories!lockfileOnly(f, o) <=> Advisories!lockfileOnly(g, q)
  PROVE  /\ Advisories!identOf(f) = Advisories!identOf(g)
         /\ Advisories!reachability(f, o, holding) = Advisories!reachability(g, q, holding)
         /\ Advisories!bucketOf(f, o, Advisories!reachability(f, o, holding))
              = Advisories!bucketOf(g, q, Advisories!reachability(g, q, holding))
<1>1. Advisories!claimFor(f) = Advisories!claimFor(g)
  BY DEF Advisories!claimFor
<1>2. Advisories!reachability(f, o, holding) = Advisories!reachability(g, q, holding)
  BY <1>1 DEF Advisories!reachability
<1>3. \A reach : Advisories!bucketOf(f, o, reach) = Advisories!bucketOf(g, q, reach)
  BY DEF Advisories!bucketOf
<1> QED
  BY <1>2, <1>3 DEF Advisories!identOf

Found(o) ==
    Advisories!measuredFindingsOf("host", Advisories!Lock(o.tree), o)
        \cup Advisories!measuredFindingsOf("harness", o.harness, o)

Judgment(f, o, holding) ==
    [finding |-> f, compiled |-> Advisories!compiledIn(f, o),
     fix |-> Advisories!lockfileOnly(f, o),
     reach |-> Advisories!reachability(f, o, holding),
     bucket |-> Advisories!bucketOf(f, o, Advisories!reachability(f, o, holding))]

LEMMA DerivedAre ==
  ASSUME NEW o, NEW holding
  PROVE  Advisories!deriveFindings(o, holding) = {Judgment(f, o, holding) : f \in Found(o)}
BY DEF Advisories!deriveFindings, Judgment, Found

LEMMA JudgmentsAre ==
  ASSUME NEW o, NEW holding, NEW f
  PROVE  LET r == Judgment(f, o, holding) IN
         /\ r.finding = f
         /\ r.compiled = Advisories!compiledIn(f, o) /\ r.fix = Advisories!lockfileOnly(f, o)
         /\ r.reach = Advisories!reachability(f, o, holding)
         /\ r.bucket = Advisories!bucketOf(f, o, Advisories!reachability(f, o, holding))
BY DEF Judgment

\* A finding of an advisory says which versions the advisory hits.
LEMMA AdvisoryFindings ==
  ASSUME NEW o, NEW f \in Found(o), f.id = "A"
  PROVE  /\ f.kind = o.rustsec.kind /\ f.advisory = o.rustsec.hits
         /\ f = [lockfile |-> f.lockfile, kind |-> f.kind, id |-> "A", package |-> f.package,
                 advisory |-> f.advisory]
         /\ f.package \in o.rustsec.hits
         /\ \/ f.lockfile = "host" /\ f.package \in Advisories!Lock(o.tree)
            \/ f.lockfile = "harness" /\ f.package \in o.harness
BY DEF Found, Advisories!measuredFindingsOf, Advisories!None

LEMMA FindingsAreOfTwoKinds ==
  ASSUME NEW o, NEW f \in Found(o)
  PROVE  f.id = "A" \/ f.id = Advisories!None
BY DEF Found, Advisories!measuredFindingsOf

LEMMA AdvisoryFound ==
  ASSUME NEW o, NEW lockfile, NEW package \in o.rustsec.hits,
         \/ lockfile = "host" /\ package \in Advisories!Lock(o.tree)
         \/ lockfile = "harness" /\ package \in o.harness
  PROVE  [lockfile |-> lockfile, kind |-> o.rustsec.kind, id |-> "A", package |-> package,
          advisory |-> o.rustsec.hits] \in Found(o)
BY DEF Found, Advisories!measuredFindingsOf

LEMMA ShowsMatchLeavesNothing == Advisories!MatchLeavesNothing
<1> DEFINE live == hRun.obs
           E == Advisories!Evidence
<1> SUFFICES ASSUME Advisories!evaluateHostAdvisories = "ASSESSMENT_VALID",
                    Advisories!rustsecDrift(live) = "MATCH"
             PROVE  Advisories!Judged(Advisories!deriveFindings(live,
                                          Advisories!evidenceResults(live)))
                      = Advisories!Judged(hRecord.findings)
  BY DEF Advisories!MatchLeavesNothing
<1>1. /\ hRecord = Advisories!deriveRecord /\ Advisories!evidenceResults(Obs) = E
  BY ValidIsCurrent
<1>2. /\ hRecord.observation = Obs /\ hRecord.evidence = E
      /\ hRecord.findings = Advisories!deriveFindings(Obs, E)
  BY <1>1 DEF Advisories!deriveRecord, Obs
<1>3. ~ Advisories!securityDrift(live) /\ ~ Advisories!disappeared(live)
  BY DEF Advisories!rustsecDrift
<1> HIDE DEF live, E
<1>4. /\ Advisories!Lock(Obs.tree) = Advisories!Lock(live.tree) /\ Obs.harness = live.harness
      /\ E \ {"assumption"} = Advisories!FactsOf(live.tree, live.tool)
  BY <1>2, <1>3 DEF Advisories!securityDrift
<1>5. Advisories!evidenceResults(live) = E
  <2>1. E = {"assumption", "feature", "source"}
    BY DEF E, Advisories!Evidence
  <2>2. "assumption" \in Advisories!Assumptions
    BY <1>1, <2>1 DEF Advisories!evidenceResults, Advisories!FactsOf
  <2>3. Advisories!Assumptions \subseteq {"assumption"}
    BY DEF Advisories!Assumptions
  <2> QED
    BY <1>4, <2>1, <2>2, <2>3 DEF Advisories!evidenceResults
<1>6. ASSUME NEW f \in Found(Obs), NEW g \in Found(live),
             Advisories!identOf(f) = Advisories!identOf(g)
      PROVE  /\ f.advisory = g.advisory
             /\ LET r == Judgment(f, Obs, E)
                    l == Judgment(g, live, E)
                IN <<Advisories!identOf(r.finding), r.reach, r.bucket>>
                     = <<Advisories!identOf(l.finding), l.reach, l.bucket>>
  <2> DEFINE r == Judgment(f, Obs, E)
             l == Judgment(g, live, {})
  <2>1. r \in hRecord.findings /\ l \in Advisories!deriveFindings(live, {})
    BY <1>2, DerivedAre
  <2>2. r.finding = f /\ l.finding = g
    BY JudgmentsAre
  <2>3. Advisories!sameFacts(r, l)
    BY <1>3, <1>6, <2>1, <2>2 DEF Advisories!securityDrift
  <2>4. /\ f.advisory = g.advisory
        /\ Advisories!compiledIn(f, Obs) = Advisories!compiledIn(g, live)
        /\ Advisories!lockfileOnly(f, Obs) = Advisories!lockfileOnly(g, live)
    BY <2>2, <2>3, JudgmentsAre DEF Advisories!sameFacts
  <2>5. f.lockfile = g.lockfile /\ f.kind = g.kind /\ f.id = g.id /\ f.package = g.package
    BY <1>6 DEF Advisories!identOf
  <2>6. /\ Advisories!reachability(f, Obs, E) = Advisories!reachability(g, live, E)
        /\ Advisories!bucketOf(f, Obs, Advisories!reachability(f, Obs, E))
             = Advisories!bucketOf(g, live, Advisories!reachability(g, live, E))
    BY <2>4, <2>5, JudgedAlike
  <2> QED
    BY <1>6, <2>4, <2>6, JudgmentsAre
<1>7. ASSUME NEW f \in Found(Obs)
      PROVE  \E g \in Found(live) : Advisories!identOf(f) = Advisories!identOf(g)
  <2> DEFINE r == Judgment(f, Obs, E)
  <2>1. r \in hRecord.findings /\ r.finding = f
    BY <1>2, DerivedAre, JudgmentsAre
  <2>2. PICK l \in Advisories!deriveFindings(live, {}) :
           Advisories!identOf(l.finding) = Advisories!identOf(f)
    BY <1>3, <2>1 DEF Advisories!disappeared
  <2>3. PICK g \in Found(live) : l = Judgment(g, live, {})
    BY <2>2, DerivedAre
  <2>4. l.finding = g
    BY <2>3, JudgmentsAre
  <2> QED
    BY <2>2, <2>4
<1>8. ASSUME NEW g \in Found(live)
      PROVE  \E f \in Found(Obs) : Advisories!identOf(f) = Advisories!identOf(g)
  <2> DEFINE l == Judgment(g, live, {})
  <2>1. l \in Advisories!deriveFindings(live, {}) /\ l.finding = g
    BY DerivedAre, JudgmentsAre
  <2>2. PICK r \in hRecord.findings :
           \/ Advisories!identOf(r.finding) = Advisories!identOf(g)
           \/ Advisories!covers(r.finding, g)
    BY <1>3, <2>1 DEF Advisories!securityDrift
  <2>3. PICK f \in Found(Obs) : r = Judgment(f, Obs, E)
    BY <1>2, <2>2, DerivedAre
  <2>4. r.finding = f
    BY <2>3, JudgmentsAre
  <2>5. CASE Advisories!identOf(f) = Advisories!identOf(g)
    BY <2>5
  <2>6. CASE Advisories!covers(f, g)
    <3>1. f.id = "A" /\ g.id = "A"
      BY <2>6, FindingsAreOfTwoKinds DEF Advisories!covers
    <3>2. PICK m \in Found(live) : Advisories!identOf(f) = Advisories!identOf(m)
      BY <1>7
    <3>3. f.advisory = m.advisory /\ f.kind = m.kind /\ m.id = "A"
      BY <1>6, <3>1, <3>2 DEF Advisories!identOf
    <3>4. Obs.rustsec.hits = live.rustsec.hits /\ Obs.rustsec.kind = live.rustsec.kind
      BY <3>1, <3>3, AdvisoryFindings
    <3>5. g \in Found(Obs)
      BY <1>4, <3>1, <3>4, AdvisoryFindings, AdvisoryFound
    <3> QED
      BY <3>5
  <2> QED
    BY <2>2, <2>4, <2>5, <2>6
<1>9. Advisories!deriveFindings(live, E) = {Judgment(g, live, E) : g \in Found(live)}
      /\ hRecord.findings = {Judgment(f, Obs, E) : f \in Found(Obs)}
  BY <1>2, DerivedAre
<1>10. Advisories!Judged(Advisories!deriveFindings(live, E)) = Advisories!Judged(hRecord.findings)
  <2>1. ASSUME NEW x \in Advisories!Judged(Advisories!deriveFindings(live, E))
        PROVE  x \in Advisories!Judged(hRecord.findings)
    <3>1. PICK g \in Found(live) :
             LET l == Judgment(g, live, E)
             IN x = <<Advisories!identOf(l.finding), l.reach, l.bucket>>
      BY <1>9, <2>1 DEF Advisories!Judged
    <3>2. PICK f \in Found(Obs) : Advisories!identOf(f) = Advisories!identOf(g)
      BY <1>8
    <3>3. LET r == Judgment(f, Obs, E)
          IN x = <<Advisories!identOf(r.finding), r.reach, r.bucket>>
      BY <1>6, <3>1, <3>2
    <3> QED
      BY <1>9, <3>3 DEF Advisories!Judged
  <2>2. ASSUME NEW x \in Advisories!Judged(hRecord.findings)
        PROVE  x \in Advisories!Judged(Advisories!deriveFindings(live, E))
    <3>1. PICK f \in Found(Obs) :
             LET r == Judgment(f, Obs, E)
             IN x = <<Advisories!identOf(r.finding), r.reach, r.bucket>>
      BY <1>9, <2>2 DEF Advisories!Judged
    <3>2. PICK g \in Found(live) : Advisories!identOf(f) = Advisories!identOf(g)
      BY <1>7
    <3>3. LET l == Judgment(g, live, E)
          IN x = <<Advisories!identOf(l.finding), l.reach, l.bucket>>
      BY <1>6, <3>1, <3>2
    <3> QED
      BY <1>9, <3>3 DEF Advisories!Judged
  <2> QED
    BY <2>1, <2>2
<1> QED
  BY <1>5, <1>10 DEF live

\* Neither the record nor the networked job is quiet while there is something to
\* reassess: a valid record has what today's host and evidence derive, and a job that
\* matches would have the record judged as it is, whatever changed in between
\* (sp1-host-advisories.ts:20, :3083).
THEOREM QuietIsHonest == Spec => []QuietMeansNothingNew
<1>1. KnownClaims => QuietMeansNothingNew
  BY ShowsValidRestsOnToday, ShowsMatchLeavesNothing
     DEF QuietMeansNothingNew, ValidRestsOnToday, MatchLeavesNothing
<1> QED
  BY <1>1, ClaimsStay, PTL

=============================================================================
