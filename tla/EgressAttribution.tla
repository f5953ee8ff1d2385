------------------------- MODULE EgressAttribution -------------------------
(***************************************************************************)
(* scripts/lib/sp1-egress-attribution.ts, next to the kernel it reads: the *)
(* sends of the host and of container namespaces, the boundary that        *)
(* refuses their packets or lets them past, and what deriveAttribution and *)
(* assuranceOf make of the trace the observer kept.                        *)
(*                                                                         *)
(* derived is the derivation so far: an event reaches it as its probe      *)
(* fires.  A place in the trace is the number of attempts entered before,  *)
(* which is all the joins compare.  What really happened is kept beside:   *)
(* by, the attempt a refused packet is of, which the derivation never      *)
(* reads, and crossed.  A thread is named by the socket it uses.           *)
(***************************************************************************)
EXTENDS Integers, Sequences, FiniteSets, SequencesExt

CONSTANTS
    Socket,
    Netns,              \* Socket -> network namespace, "host" or a container's
    Probe,              \* Socket -> "udp", "ping", "tcp", "pkt"
    Port,               \* Socket -> source port
    Dest,               \* "resolver", "far" (an address beyond the machine)
    Length,             \* lengths of datagrams
    Casts,              \* sets of sockets: one of them is used in a behaviour
    CallsReturn,        \* the capture goes on until open calls have returned
    MaxAttempts,
    MaxEvents           \* answers, retransmissions and changes of the boundary

\* An address is known by name; the host has no packet sockets.
EgressAssumption ==
    /\ "none" \notin Socket /\ "none" \notin Dest
    /\ \A s \in Socket :
          /\ Probe[s] \in {"udp", "ping", "tcp", "pkt"}
          /\ Probe[s] = "pkt" => Netns[s] # "host"
    /\ Length \subseteq Nat
    /\ Casts \subseteq (SUBSET Socket) \ {{}}

VARIABLES
    derived,
    window,             \* "before", "open", "after", "stopped"
    calls,              \* Socket -> the calls its thread is in, the outermost first
    air,                \* packets between a container's socket and the host's boundary
    session,            \* TCP sockets: "none", "connecting", "open", "closed"
    crossed,            \* history: attempts of which a packet got past in the window
    cast,               \* the sockets in use
    past,               \* the namespaces whose packets the boundary lets past
    spent               \* answers, retransmissions and changes so far

vars == <<derived, window, calls, air, session, crossed, cast, past, spent>>

None == "none"
NoPort == 0
NoReturn == 1           \* no call returns it
EPERM == 1
Kernel == 0             \* who sent a packet that is of no attempt
Unsent == -1            \* an AF_XDP socket used in the window
UnsentOutside == -2

-----------------------------------------------------------------------------
(* The derivation, event by event *)

Nothing == [attempts |-> <<>>, open |-> [s \in Socket |-> <<>>],
            sessions |-> [s \in Socket |-> 0], socketless |-> <<>>, drops |-> {},
            crafted |-> FALSE, xsk |-> FALSE, leaked |-> FALSE, consistent |-> TRUE]

inWindow == window = "open"

Top(stack) == IF stack = <<>> THEN 0 ELSE Last(stack)

\* A call nested in another on the same socket is that one, delegated.
Entry(d, e) ==
    LET outer == Top(d.open[e.sk]) IN
    [d EXCEPT
       !.attempts = Append(@,
          [kind |-> e.k, probe |-> e.probe, sk |-> e.sk, netns |-> Netns[e.sk],
           dest |-> e.dest, len |-> e.len, ret |-> NoReturn, sport |-> NoPort,
           packets |-> 0, delegated |-> outer # 0, inWindow |-> inWindow,
           established |-> FALSE, closedInSynSent |-> FALSE, closed |-> FALSE]),
       !.open[e.sk] = Append(@, Len(d.attempts) + 1),
       !.crafted = @ \/ (e.probe = "pkt" /\ Netns[e.sk] # "host")]

\* A return that does not close the thread's innermost call makes the trace
\* inconsistent.  A connect that did not fail opens a session on its socket.
Return(d, e) ==
    LET top == Top(d.open[e.sk]) IN
    IF top = 0 \/ d.attempts[top].probe # e.probe
    THEN [d EXCEPT !.consistent = FALSE]
    ELSE [d EXCEPT !.open[e.sk] = Front(@),
                   !.attempts[top].ret = e.ret,
                   !.attempts[top].sport = e.sport,
                   !.sessions[e.sk] =
                       IF e.probe = "tcp" /\ e.ret >= 0 /\ ~ d.attempts[top].delegated
                       THEN top ELSE @]

TcpState(d, e) ==
    LET s == d.sessions[e.sk] IN
    IF s = 0 THEN d
    ELSE [d EXCEPT
            !.attempts[s].established = @ \/ (e.from = "SYN_SENT" /\ e.to = "ESTABLISHED"),
            !.attempts[s].closedInSynSent = @ \/ (e.from = "SYN_SENT" /\ e.to = "CLOSE"),
            !.attempts[s].closed = e.to = "CLOSE",
            !.sessions[e.sk] = IF e.to = "CLOSE" THEN 0 ELSE @]

Judged(d, class, a, e) ==
    LET judged == [d EXCEPT !.drops = @ \cup {[class |-> class, attempt |-> a, by |-> e.by]}]
    IN IF class = "ATTEMPT_PACKET" THEN [judged EXCEPT !.attempts[a].packets = @ + 1]
       ELSE judged

\* A reset or an ICMP answer.
isResponse(p) == p.proto = "response"

\* J1: inside the attempt's own call, on its socket.  J1b: the boundary's own
\* answer inside a call.  J2: the socket of a connection an attempt opened.  What
\* is left without a socket is judged when the capture is whole.
Drop(d, e) ==
    LET stack == IF e.ctx = "task" THEN d.open[e.tid] ELSE <<>>
        owners == {a \in ToSet(stack) : d.attempts[a].sk = e.sk /\ ~ d.attempts[a].delegated}
        opened == IF e.sk = None THEN 0 ELSE d.sessions[e.sk]
    IN IF owners # {} THEN Judged(d, "ATTEMPT_PACKET", CHOOSE a \in owners : TRUE, e)
       ELSE IF stack # <<>> /\ isResponse(e.packet)
            THEN Judged(d, "BOUNDARY_RESPONSE", Head(stack), e)
       ELSE IF opened # 0 THEN Judged(d, "ATTEMPT_PACKET", opened, e)
       ELSE IF e.sk # None THEN Judged(d, "UNATTRIBUTED", 0, e)
       ELSE [d EXCEPT !.socketless =
               Append(@, [packet |-> e.packet, by |-> e.by,
                          place |-> Len(d.attempts),
                          closed |-> {a \in DOMAIN d.attempts : d.attempts[a].closed}])]

Xmit(d) == [d EXCEPT !.leaked = @ \/ inWindow]

\* An AF_XDP socket sent to or polled.
Xsk(d) == [d EXCEPT !.crafted = TRUE, !.xsk = @ \/ inWindow]

-----------------------------------------------------------------------------
(* The derivation of a whole capture *)

\* Slip: crafted packets are taken at their headers' word.
NothingCrafted(d) == FALSE

\* A container that sent through a packet or an AF_XDP socket, anywhere in the
\* capture, may have crafted any header.
containerCrafted(d) == d.crafted

\* What a kernel says, from an address of the host.
kernelMessage(d, p) == isResponse(p) /\ p.src = "host" /\ ~ containerCrafted(d)

\* Whether an attempt of another namespace can have sent a packet: as its one
\* packet, as one of several, or not at all.
Fit(d, a, e) ==
    LET at == d.attempts[a]
        p == e.packet
    IN IF \/ containerCrafted(d) \/ at.delegated \/ at.netns = "host" \/ a > e.place
          \/ at.dest = None \/ at.dest # p.dst \/ at.sport # p.sport
       THEN None
       ELSE CASE at.kind = "connect" ->
                   IF p.proto = "tcp" /\ a \notin e.closed THEN "several" ELSE None
              [] at.probe = "ping" ->
                   IF p.proto = "echo" /\ at.packets = 0 THEN "one" ELSE None
              [] at.probe = "udp" /\ p.proto = "udp" ->
                   IF at.len = p.len THEN (IF at.packets = 0 THEN "one" ELSE None)
                   ELSE IF at.len > p.len THEN "several" ELSE None
              [] OTHER -> None

\* Slip: the first attempt that fits is named.
FirstNamed(d, e, candidates) == candidates # {}

\* An attempt is named when it is the only candidate, or every candidate is a send
\* of one socket of exactly this length, all inside the window or all outside.
Named(d, e, candidates) ==
    \/ Cardinality(candidates) = 1
    \/ /\ candidates # {}
       /\ \A a \in candidates : Fit(d, a, e) = "one"
       /\ \A a, b \in candidates :
             /\ d.attempts[a].sk = d.attempts[b].sk
             /\ d.attempts[a].inWindow = d.attempts[b].inWindow

\* J3, and what no attempt sent.
Deferred(d, e) ==
    LET candidates == {a \in DOMAIN d.attempts : Fit(d, a, e) # None} IN
    IF kernelMessage(d, e.packet) THEN Judged(d, "KERNEL_RESPONSE", 0, e)
    ELSE IF Named(d, e, candidates)
         THEN Judged(d, "ATTEMPT_PACKET", CHOOSE a \in candidates : \A b \in candidates : a <= b, e)
         ELSE Judged(d, "UNATTRIBUTED", 0, e)

Joined == FoldLeft(Deferred, derived, derived.socketless)

\* A refused packet makes an attempt refused whatever its sender was told.
Outcome(a) ==
    IF a.kind = "connect" /\ a.established THEN "CONNECTED"
    ELSE IF a.packets > 0 THEN "REFUSED"
    ELSE IF a.kind = "connect" /\ a.closedInSynSent THEN "CLOSED_UNREFUSED"
    ELSE IF a.ret = NoReturn THEN "UNKNOWN"
    ELSE IF a.ret = -EPERM THEN "REFUSED_NO_PACKET_SEEN"
    ELSE IF a.ret < 0 THEN "NO_PACKET"
    ELSE IF a.kind = "send" THEN "SENT" ELSE "UNKNOWN"

\* To a resolver from any namespace, or beyond the machine from the host's.
Matters(a) == a.dest = "resolver" \/ (a.dest = "far" /\ a.netns = "host")

Counted(d) == {n \in DOMAIN d.attempts : d.attempts[n].inWindow /\ ~ d.attempts[n].delegated}

\* EGRESS_LEAKED: a frame on an uplink, or an attempt that went through.
Leaked(d) ==
    \/ d.leaked
    \/ \E n \in Counted(d) :
          Matters(d.attempts[n]) /\ Outcome(d.attempts[n]) \in {"SENT", "CONNECTED"}

Accepted(d) == d.consistent /\ ~ Leaked(d)

unknownOutcomes(d) ==
    {n \in Counted(d) : Matters(d.attempts[n]) /\ Outcome(d.attempts[n]) = "UNKNOWN"}

unseenDestinations(d) ==
    {n \in Counted(d) :
        /\ d.attempts[n].probe = "pkt"
        /\ Outcome(d.attempts[n]) \notin {"NO_PACKET", "REFUSED_NO_PACKET_SEEN"}}

\* CONTINUOUS_ATTRIBUTED rather than CONTINUOUS_PARTIALLY_ATTRIBUTED.
Complete(d) ==
    /\ \A drop \in d.drops : drop.class # "UNATTRIBUTED"
    /\ unknownOutcomes(d) = {}
    /\ unseenDestinations(d) = {} /\ ~ d.xsk

-----------------------------------------------------------------------------
(* The kernel and the boundary *)

Running == window # "stopped"
Entered == Len(derived.attempts)
InCall(s) == calls[s] # <<>>
Call(s) == Last(calls[s])
Past(n) == crossed' = IF inWindow THEN crossed \cup {n} ELSE crossed

EntryOf(s, probe, dest, len) ==
    [k |-> IF probe = "tcp" THEN "connect" ELSE "send", sk |-> s, probe |-> probe,
     dest |-> IF probe = "pkt" THEN None ELSE dest, len |-> len]

PacketOf(s, dest, len) ==
    [proto |-> CASE Probe[s] = "tcp" -> "tcp" [] Probe[s] = "ping" -> "echo" [] OTHER -> "udp",
     src |-> Netns[s], dst |-> dest,
     sport |-> IF Probe[s] = "ping" THEN NoPort ELSE Port[s], len |-> len]

\* A thread enters a send or a connect; a packet socket names no destination.
enter(s, dest, len) ==
    /\ Running /\ ~ InCall(s) /\ Entered < MaxAttempts
    /\ Probe[s] = "tcp" => session[s] = "none"
    /\ Probe[s] # "udp" => len = 1
    /\ derived' = Entry(derived, EntryOf(s, Probe[s], dest, len))
    /\ calls' = [calls EXCEPT ![s] = <<[n |-> Entered + 1, probe |-> Probe[s], dest |-> dest,
                                        len |-> len, out |-> "nothing"]>>]
    /\ UNCHANGED <<window, air, session, crossed, cast, past, spent>>

\* An IPv6 send to an IPv4-mapped address is handed to IPv4 on the same socket.
delegate(s) ==
    /\ Running /\ Len(calls[s]) = 1 /\ Call(s).out = "nothing"
    /\ Probe[s] = "udp" /\ Netns[s] = "host" /\ Entered < MaxAttempts
    /\ derived' = Entry(derived, EntryOf(s, "udp4", Call(s).dest, Call(s).len))
    /\ calls' = [calls EXCEPT ![s] = Append(@, [Call(s) EXCEPT !.probe = "udp4"])]
    /\ UNCHANGED <<window, air, session, crossed, cast, past, spent>>

Becomes(s, out) ==
    calls' = [calls EXCEPT ![s] = [k \in DOMAIN @ |-> [@[k] EXCEPT !.out = out]]]

\* The host's own packet meets the boundary inside the call.
meetBoundary(s) ==
    LET c == Call(s) IN
    /\ Running /\ InCall(s) /\ c.out = "nothing" /\ Netns[s] = "host"
    /\ \/ /\ "host" \notin past
          /\ derived' = Drop(derived, [ctx |-> "task", tid |-> s, sk |-> s, by |-> c.n,
                                       packet |-> PacketOf(s, c.dest, c.len)])
          /\ Becomes(s, "refused")
          /\ UNCHANGED crossed
       \/ /\ "host" \in past
          /\ derived' = IF c.dest = "far" THEN Xmit(derived) ELSE derived
          /\ Becomes(s, "passed")
          /\ Past(c.n)
    /\ UNCHANGED <<window, air, session, cast, past, spent>>

Flying(s, n, packet, copies) ==
    [by |-> n, from |-> Netns[s], packet |-> packet, copies |-> copies]

\* A container's packet leaves its namespace: whole or as two segments.
leave(s) ==
    LET c == Call(s) IN
    /\ Running /\ InCall(s) /\ c.out = "nothing" /\ Netns[s] # "host" /\ Probe[s] # "pkt"
    /\ \/ air' = air \cup {Flying(s, c.n, PacketOf(s, c.dest, c.len), 1)}
       \/ c.len = 2 /\ air' = air \cup {Flying(s, c.n, PacketOf(s, c.dest, 1), 2)}
    /\ Becomes(s, "left")
    /\ UNCHANGED <<derived, window, session, crossed, cast, past, spent>>

\* A crafted packet: any header, that of another socket of the machine or of an
\* answer of the host's.
Craftable(s) ==
    {PacketOf(t, d, 1) : t \in cast \ {s}, d \in Dest}
    \cup {[proto |-> "response", src |-> "host", dst |-> d, sport |-> NoPort, len |-> 1] : d \in Dest}

craft(s) ==
    /\ Running /\ InCall(s) /\ Call(s).out = "nothing" /\ Probe[s] = "pkt"
    /\ \E p \in Craftable(s) : air' = air \cup {Flying(s, Call(s).n, p, 1)}
    /\ Becomes(s, "left")
    /\ UNCHANGED <<derived, window, session, crossed, cast, past, spent>>

\* A container's packet socket in AF_XDP mode: no send, no destination, one frame.
craftUnsent(s) ==
    /\ Running /\ ~ InCall(s) /\ Probe[s] = "pkt" /\ s \in cast /\ ~ derived.crafted
    /\ derived' = Xsk(derived)
    /\ \E p \in Craftable(s) :
          air' = air \cup {Flying(s, IF inWindow THEN Unsent ELSE UnsentOutside, p, 1)}
    /\ UNCHANGED <<window, calls, session, crossed, cast, past, spent>>

\* Whatever happened to the packet, its sender may be told that it went; a failure
\* of its own means there was none.
Results(out) ==
    CASE out = "nothing" -> {-2}
      [] out = "refused" -> {0, -EPERM}
      [] OTHER -> {0}

return(s) ==
    /\ Running /\ InCall(s)
    /\ \E ret \in Results(Call(s).out) :
          /\ derived' = Return(derived, [sk |-> s, probe |-> Call(s).probe, ret |-> ret,
                                         sport |-> IF Probe[s] \in {"udp", "tcp"} THEN Port[s] ELSE NoPort])
          /\ session' = [session EXCEPT ![s] = IF Probe[s] = "tcp" /\ ret >= 0 THEN "connecting" ELSE @]
    /\ calls' = [calls EXCEPT ![s] = Front(@)]
    /\ UNCHANGED <<window, air, crossed, cast, past, spent>>

\* Threads that are in a call, or any one when none is.
Busy == IF \E s \in cast : InCall(s) THEN {s \in cast : InCall(s)} ELSE {CHOOSE s \in cast : TRUE}

\* A container's packet meets the host's boundary later, in whatever thread the
\* machine runs.
arrive(p) ==
    /\ Running
    /\ air' = (air \ {p}) \cup (IF p.copies = 2 THEN {[p EXCEPT !.copies = 1]} ELSE {})
    /\ \/ /\ p.from \notin past
          /\ \E tid \in Busy :
                derived' = Drop(derived, [ctx |-> "softirq", tid |-> tid, sk |-> None,
                                          by |-> p.by, packet |-> p.packet])
          /\ UNCHANGED crossed
       \/ /\ p.from \in past
          /\ derived' = IF p.packet.dst = "far" THEN Xmit(derived) ELSE derived
          /\ Past(p.by)
    /\ UNCHANGED <<window, calls, session, cast, past, spent>>

Spend == spent < MaxEvents /\ spent' = spent + 1

\* The attempt that opened the connection of a socket: the one that did not fail.
ConnectOf(s) ==
    CHOOSE n \in DOMAIN derived.attempts :
        derived.attempts[n].sk = s /\ derived.attempts[n].ret = 0

\* The first packet of a connection again, from the host's own timer or across the
\* boundary of a container.
retransmit(s) ==
    LET n == ConnectOf(s)
        p == PacketOf(s, derived.attempts[n].dest, 1)
    IN /\ Running /\ session[s] = "connecting"
       /\ Spend
       /\ IF Netns[s] # "host"
          THEN air' = air \cup {Flying(s, n, p, 1)} /\ UNCHANGED <<derived, crossed>>
          ELSE /\ UNCHANGED air
               /\ IF "host" \in past
                  THEN Past(n) /\ UNCHANGED derived
                  ELSE /\ derived' = Drop(derived, [ctx |-> "softirq", tid |-> s, sk |-> s,
                                                    by |-> n, packet |-> p])
                       /\ UNCHANGED crossed
       /\ UNCHANGED <<window, calls, session, cast, past>>

answered(s) ==
    /\ Running /\ session[s] = "connecting" /\ ConnectOf(s) \in crossed
    /\ derived' = TcpState(derived, [sk |-> s, from |-> "SYN_SENT", to |-> "ESTABLISHED"])
    /\ session' = [session EXCEPT ![s] = "open"]
    /\ UNCHANGED <<window, calls, air, crossed, cast, past, spent>>

\* The derivation looks for a connection's packets until its socket closes: none
\* of them is still on its way then.
close(s) ==
    /\ Running /\ session[s] \in {"connecting", "open"}
    /\ \A p \in air : p.by # ConnectOf(s)
    /\ derived' = TcpState(derived, [sk |-> s, to |-> "CLOSE",
                              from |-> IF session[s] = "open" THEN "ESTABLISHED" ELSE "SYN_SENT"])
    /\ session' = [session EXCEPT ![s] = "closed"]
    /\ UNCHANGED <<window, calls, air, crossed, cast, past, spent>>

\* The boundary rejects with an answer of the host's kernel, which is refused too:
\* in the call it answers, or while some thread runs.
kernelAnswers(ctx, tid) ==
    /\ Running
    /\ tid \in Busy /\ (ctx = "task" => InCall(tid) /\ Call(tid).out = "refused")
    /\ derived' = Drop(derived, [ctx |-> ctx, tid |-> tid, sk |-> None, by |-> Kernel,
                         packet |-> [proto |-> "response", src |-> "host", dst |-> "host",
                                     sport |-> NoPort, len |-> 1]])
    /\ Spend
    /\ UNCHANGED <<window, calls, air, session, crossed, cast, past>>

\* The rules of the declared table are the same at both of its snapshots, which
\* lie around the window; nothing is being sent while they change.
boundaryChanges(ns) ==
    /\ Running /\ ~ inWindow /\ air = {} /\ \A s \in cast : ~ InCall(s)
    /\ past' = IF ns \in past THEN past \ {ns} ELSE past \cup {ns}
    /\ Spend
    /\ UNCHANGED <<derived, window, calls, air, session, crossed, cast>>

\* PROBES_BEFORE_BEGIN, PROBES_AFTER_END, and the end of the capture.
mark ==
    /\ Running
    /\ window' = CASE window = "before" -> "open" [] window = "open" -> "after" [] OTHER -> "stopped"
    /\ window = "after" /\ CallsReturn => \A s \in Socket : ~ InCall(s)
    /\ UNCHANGED <<derived, calls, air, session, crossed, cast, past, spent>>

Init ==
    /\ cast \in Casts
    /\ past \in SUBSET {Netns[s] : s \in cast}
    /\ derived = Nothing
    /\ window = "before"
    /\ calls = [s \in Socket |-> <<>>]
    /\ air = {}
    /\ session = [s \in Socket |-> "none"]
    /\ crossed = {}
    /\ spent = 0

Next ==
    \/ \E s \in cast, d \in Dest, n \in Length : enter(s, d, n)
    \/ \E s \in cast :
          \/ delegate(s) \/ meetBoundary(s) \/ leave(s) \/ craft(s) \/ craftUnsent(s) \/ return(s)
          \/ retransmit(s) \/ answered(s) \/ close(s)
          \/ boundaryChanges(Netns[s])
    \/ \E p \in air : arrive(p)
    \/ \E ctx \in {"task", "softirq"}, tid \in cast : kernelAnswers(ctx, tid)
    \/ mark

Spec == Init /\ [][Next]_vars

-----------------------------------------------------------------------------
(* Properties *)

\* What the boundary really let past inside the window: datagrams that matter, or
\* that were crafted, and established connections.
Escaped(d) ==
    {n \in crossed :
        \/ n = Unsent
        \/ /\ n > 0 /\ d.attempts[n].inWindow
           /\ d.attempts[n].probe = "pkt" \/ Matters(d.attempts[n])
           /\ d.attempts[n].kind = "connect" => d.attempts[n].established}

\* "Complete means every refused packet the capture holds is attributed ... and no
\* send that matters has an unseen outcome or destination"
\* (sp1-egress-attribution.ts:1708): evidence that is accepted as complete is of a
\* window in which nothing that matters got past the boundary, however alike the
\* packets of two namespaces are.
CompleteMeansContained ==
    window = "stopped" =>
        LET d == Joined IN Accepted(d) /\ Complete(d) => Escaped(d) = {}

\* "An attempt is named only when no other could have sent the packet"
\* (sp1-egress-attribution.ts:1489): a refused packet joins an attempt of the
\* socket that sent it, and what is called a kernel's answer is one.
JoinedToItsSender ==
    window = "stopped" =>
        LET d == Joined IN
        \A drop \in d.drops :
            /\ drop.class = "ATTEMPT_PACKET" =>
                  drop.by > 0 /\ d.attempts[drop.by].sk = d.attempts[drop.attempt].sk
            /\ drop.class \in {"KERNEL_RESPONSE", "BOUNDARY_RESPONSE"} => drop.by = Kernel
=============================================================================
