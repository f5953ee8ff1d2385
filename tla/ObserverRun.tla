----------------------------- MODULE ObserverRun -----------------------------
(***************************************************************************)
(* scripts/sp1-egress-observer.ts and the tool it starts                   *)
(* (scripts/measure-sp1-attributed-proof-exercise.ts with ObserverClient): *)
(* the root observer opens a tracefs session, starts the unprivileged tool *)
(* and writes one marker for every request of the tool before it answers.  *)
(* Two pipes, two processes, heartbeats, timeouts, lost trace events, a    *)
(* kernel that refuses, and either process gone at any moment.             *)
(*                                                                         *)
(* What a phase measures is left out: the tool acts, then asks again.  A   *)
(* second observer starts when the first has ended, however it ended.      *)
(***************************************************************************)
EXTENDS Integers, Sequences, SequencesExt

CONSTANTS
    PhaseNames,                     \* PHASES, in order; cut down where a run needs to
    MaxContainers, MaxTimeouts, MaxObservers

VARIABLES
    tracefs,                        \* instances and probes, by the observer that made them
    trace,                          \* the markers of the present session
    observer,                       \* the observer process
    toTool, toObserver,             \* its pipes to and from the tool
    tool,                           \* the tool process
    client,                         \* its ObserverClient
    timeouts,
    lostBeforeDone                  \* history: a trace event was lost before DONE

pipes == <<toTool, toObserver>>
vars == <<tracefs, trace, observer, pipes, tool, client, timeouts, lostBeforeDone>>

\* What the tool asks for, in its order.
Script == <<"HELLO">> \o PhaseNames \o <<"DONE">>

Phases == ToSet(PhaseNames)

\* What else is sent or marked.
Words == {"HELLO", "CONTAINER", "DONE", "ABORT", "READY", "COUNTERS", "HEARTBEAT", "SPAWNED",
          "FAIL", "TOOL_DONE", "TOOL_DONE_OK", "STOP", "STOP_CLEAN"}

PhaseAssumption ==
    /\ PhaseNames \in Seq(Phases) /\ Phases \cap Words = {}
    /\ \A i, j \in DOMAIN PhaseNames : PhaseNames[i] = PhaseNames[j] => i = j

NoTool == [pid |-> "none", at |-> 0, asking |-> FALSE, host |-> "none", containers |-> 0,
           wrote |-> FALSE]

NoClient == [failure |-> FALSE, ended |-> FALSE, lines |-> <<>>, queue |-> <<>>, waiting |-> FALSE]

NewObserver(n) ==
    [nonce |-> n, pc |-> "precheck", failures |-> 0, next |-> 1, hello |-> FALSE,
     stopping |-> FALSE, early |-> FALSE, exitCode |-> 3]

-----------------------------------------------------------------------------
(* TraceSession *)

Clean == tracefs.instances = {} /\ tracefs.probes = {}

Precheck == Clean

\* mark: the next marker of this session, when it is open.
Mark(what) ==
    trace' = IF observer.nonce \in tracefs.instances THEN Append(trace, what) ELSE trace

\* Every step undone that can be: what the kernel keeps is reported.
Close ==
    \E keptInstance \in SUBSET (tracefs.instances \cap {observer.nonce}),
       keptProbes \in SUBSET (tracefs.probes \cap {observer.nonce}) :
        /\ tracefs' = [tracefs EXCEPT
                         !.instances = (@ \ {observer.nonce}) \cup keptInstance,
                         !.probes = (@ \ {observer.nonce}) \cup keptProbes]
        /\ LET left == keptInstance \cup keptProbes # {}
               failed == observer.failures + (IF left THEN 1 ELSE 0)
           IN  /\ observer' = [observer EXCEPT !.pc = "waiting", !.failures = failed]
               /\ toTool' = IF tool.pid # "running" THEN toTool
                            ELSE Append(toTool, IF failed = 0 THEN "STOPPED" ELSE "FAIL")

-----------------------------------------------------------------------------
(* The observer: main() *)

Fails(then) ==
    /\ observer' = [then EXCEPT !.failures = IF @ = 0 THEN 1 ELSE @]
    /\ Mark("FAIL")
    /\ toTool' = IF tool.pid = "running" THEN Append(toTool, "FAIL") ELSE toTool

Running == observer.pc = "running"

precheck ==
    /\ observer.pc = "precheck"
    /\ IF Precheck
       THEN observer' = [observer EXCEPT !.pc = "open"] /\ UNCHANGED <<trace, toTool>>
       ELSE Fails([observer EXCEPT !.pc = "closing"])
    /\ UNCHANGED <<tracefs, toObserver, tool, client, timeouts, lostBeforeDone>>

\* The instance first, then its probes; the kernel may refuse either.
open ==
    /\ observer.pc = "open"
    /\ \E made \in {"nothing", "instance", "all"} :
         /\ tracefs' = [tracefs EXCEPT
                          !.instances = IF made = "nothing" THEN @ ELSE @ \cup {observer.nonce},
                          !.probes = IF made = "all" THEN @ \cup {observer.nonce} ELSE @,
                          !.lost = FALSE]
         /\ IF made = "all"
            THEN observer' = [observer EXCEPT !.pc = "starting"] /\ UNCHANGED <<trace, toTool>>
            ELSE Fails([observer EXCEPT !.pc = "closing"])
    /\ UNCHANGED <<toObserver, tool, client, timeouts, lostBeforeDone>>

\* READY, the first counters and heartbeat, then the tool.
start ==
    /\ observer.pc = "starting"
    /\ IF tracefs.lost
       THEN Fails([observer EXCEPT !.pc = "closing"]) /\ UNCHANGED <<tool, client>>
       ELSE /\ observer' = [observer EXCEPT !.pc = "running"]
            /\ trace' = trace \o <<"READY", "COUNTERS", "HEARTBEAT", "SPAWNED">>
            /\ tool' = [NoTool EXCEPT !.pid = "running"]
            /\ client' = NoClient
            /\ toTool' = <<"READY">>
    /\ UNCHANGED <<tracefs, toObserver, timeouts, lostBeforeDone>>

\* The interval's beat: any loss so far fails the run, and goes on failing it.
beat ==
    /\ Running
    /\ tracefs.lost /\ observer.failures = 0
    /\ Fails(observer)
    /\ UNCHANGED <<tracefs, toObserver, tool, client, timeouts, lostBeforeDone>>

\* ControlProtocol.accept: whether a request is in order.
InOrder(msg) ==
    CASE msg = "HELLO" -> ~observer.hello
      [] msg = "CONTAINER" -> observer.hello
      [] msg = "DONE" -> observer.hello /\ observer.next = Len(PhaseNames) + 1
      [] msg = "ABORT" -> FALSE
      [] OTHER -> /\ observer.hello
                  /\ observer.next \in DOMAIN PhaseNames /\ PhaseNames[observer.next] = msg

\* A served request is marked, then answered.
accept ==
    /\ Running /\ ~observer.stopping /\ toObserver # <<>>
    /\ toObserver' = Tail(toObserver)
    /\ LET msg == Head(toObserver) IN
         IF ~InOrder(msg) THEN Fails(observer)
         ELSE IF msg = "DONE"
         THEN /\ observer' = [observer EXCEPT !.stopping = TRUE, !.pc = "stopping"]
              /\ UNCHANGED <<trace, toTool>>
         ELSE /\ Mark(msg)
              /\ toTool' = Append(toTool, "ACK")
              /\ observer' = [observer EXCEPT
                                !.hello = @ \/ msg = "HELLO",
                                !.next = IF msg \in Phases THEN @ + 1 ELSE @]
    /\ UNCHANGED <<tracefs, tool, client, timeouts, lostBeforeDone>>

\* The tool's exit before DONE.
toolExit ==
    /\ Running /\ tool.pid = "gone"
    /\ Fails([observer EXCEPT !.stopping = TRUE, !.early = TRUE, !.pc = "stopping"])
    /\ UNCHANGED <<tracefs, toObserver, tool, client, timeouts, lostBeforeDone>>

\* Slip: only the interval's beats look for loss.
NoFinalBeat == FALSE

\* The beat after DONE sees every loss so far.
FinalBeatFails == tracefs.lost

\* TOOL_DONE, the last counters and heartbeat, STOP and the drain, which may not
\* bring STOP in time; then the session is closed.
stop ==
    /\ observer.pc = "stopping"
    /\ \E drained \in BOOLEAN :
         IF FinalBeatFails \/ ~drained
         THEN Fails([observer EXCEPT !.pc = "closing"])
         ELSE /\ observer' = [observer EXCEPT !.pc = "closing",
                                              !.exitCode = IF observer.early THEN 4 ELSE 0]
              /\ trace' = trace \o
                    <<IF observer.failures = 0 /\ ~observer.early THEN "TOOL_DONE_OK" ELSE "TOOL_DONE",
                      "COUNTERS", "HEARTBEAT", IF observer.failures = 0 THEN "STOP_CLEAN" ELSE "STOP">>
              /\ UNCHANGED toTool
    /\ UNCHANGED <<tracefs, toObserver, tool, client, timeouts, lostBeforeDone>>

close ==
    /\ observer.pc = "closing"
    /\ Close
    /\ UNCHANGED <<trace, toObserver, tool, client, timeouts, lostBeforeDone>>

\* Slip: waits for the tool however long it takes.
WaitsForTool == tool.pid # "running"

\* Ten minutes are over, or the tool is gone.
WaitIsOver == TRUE

\* Its exit waits for the tool's, then kills it; either way the pipes close.
exit ==
    /\ observer.pc = "waiting" /\ WaitIsOver
    /\ tool' = [tool EXCEPT !.pid = IF @ = "running" THEN "killed" ELSE @]
    /\ observer' = [observer EXCEPT !.pc = "exited",
                      !.exitCode = IF observer.failures > 0 THEN 3
                                   ELSE IF @ = 0 /\ tool.pid # "gone" THEN 1 ELSE @]
    /\ UNCHANGED <<tracefs, trace, pipes, client, timeouts, lostBeforeDone>>

\* SIGKILL, at any moment: nothing is undone.
crash ==
    /\ observer.pc \notin {"exited", "crashed"}
    /\ observer' = [observer EXCEPT !.pc = "crashed"]
    /\ UNCHANGED <<tracefs, trace, pipes, tool, client, timeouts, lostBeforeDone>>

\* The next run, once both processes are gone.
again ==
    /\ observer.pc \in {"exited", "crashed"} /\ tool.pid # "running"
    /\ observer.nonce < MaxObservers
    /\ observer' = NewObserver(observer.nonce + 1)
    /\ trace' = <<>> /\ toTool' = <<>> /\ toObserver' = <<>>
    /\ tool' = NoTool /\ client' = NoClient /\ lostBeforeDone' = FALSE
    /\ UNCHANGED <<tracefs, timeouts>>

\* A full buffer, a missed probe, one switched off and left so.
loseEvent ==
    /\ observer.pc \in {"starting", "running", "stopping"} /\ ~tracefs.lost
    /\ tracefs' = [tracefs EXCEPT !.lost = TRUE]
    /\ lostBeforeDone' = ~observer.stopping
    /\ UNCHANGED <<trace, observer, pipes, tool, client, timeouts>>

-----------------------------------------------------------------------------
(* ObserverClient *)

Alive == tool.pid = "running"

\* onFail kills the host; the spawner then ends and asks for HOST_EXIT.
HostAfter(failure) == IF failure /\ tool.host = "running" THEN "ended" ELSE tool.host

\* What a request's outcome does: a phase lets the tool go on, or throws.
Settled(word, answer) ==
    IF word = "CONTAINER" THEN [tool EXCEPT !.host = HostAfter(client.failure)]
    ELSE IF (word = "DONE" /\ answer = "STOPPED") \/ (word # "DONE" /\ answer = "ACK")
    THEN [tool EXCEPT !.at = @ + 1, !.asking = FALSE,
                      !.host = IF word = "HOST_SPAWN" THEN "running" ELSE @]
    ELSE [tool EXCEPT !.at = Len(Script) + 2, !.asking = FALSE]

\* Slip: a container that could not be marked is only left out.
FailureAfterLenient(word, answer) == client.failure

\* A container that could not be marked fails the client, and does so before the
\* next request of the queue looks at the failure.
FailureAfter(word, answer) == client.failure \/ (word = "CONTAINER" /\ answer # "ACK")

\* The request at the head of the queue ends with this answer, the rest of the
\* client being c.
Answered(c, answer) ==
    LET word == Head(client.queue)
        failure == FailureAfter(word, answer) \/ c.failure
    IN  /\ client' = [c EXCEPT !.queue = Tail(@), !.waiting = FALSE, !.failure = failure]
        /\ tool' = [Settled(word, answer) EXCEPT
                      !.host = IF failure /\ @ = "running" THEN "ended" ELSE @]

\* The next request is sent; an answer that is already there is taken at once.
request ==
    /\ Alive /\ client.queue # <<>> /\ ~client.waiting
    /\ IF client.failure
       THEN Answered(client, "rejected") /\ UNCHANGED toObserver
       ELSE /\ toObserver' = Append(toObserver, Head(client.queue))
            /\ IF client.lines # <<>>
               THEN Answered([client EXCEPT !.lines = Tail(@)], Head(client.lines))
               ELSE IF client.ended THEN Answered(client, "rejected")
               ELSE client' = [client EXCEPT !.waiting = TRUE] /\ UNCHANGED tool
    /\ UNCHANGED <<tracefs, trace, observer, toTool, timeouts, lostBeforeDone>>

\* A line goes to the waiter, or is kept for the next request.
receive ==
    /\ Alive /\ toTool # <<>> /\ tool.at > 0
    /\ toTool' = Tail(toTool)
    /\ LET line == Head(toTool)
           told == [client EXCEPT !.failure = @ \/ line = "FAIL"]
       IN  IF client.waiting THEN Answered(told, line)
           ELSE /\ client' = [told EXCEPT !.lines = Append(@, line)]
                /\ tool' = [tool EXCEPT !.host = HostAfter(told.failure)]
    /\ UNCHANGED <<tracefs, trace, observer, toObserver, timeouts, lostBeforeDone>>

\* Thirty seconds without an answer, which may still come.
timeout ==
    /\ Alive /\ client.waiting /\ timeouts < MaxTimeouts
    /\ timeouts' = timeouts + 1
    /\ Answered(client, "rejected")
    /\ UNCHANGED <<tracefs, trace, observer, pipes, lostBeforeDone>>

\* The end of the observer's stream.
streamEnds ==
    /\ Alive /\ ~client.ended /\ toTool = <<>> /\ observer.pc \in {"exited", "crashed"}
    /\ LET told == [client EXCEPT !.ended = TRUE, !.failure = TRUE] IN
         IF client.waiting THEN Answered(told, "rejected")
         ELSE client' = told /\ tool' = [tool EXCEPT !.host = HostAfter(TRUE)]
    /\ UNCHANGED <<tracefs, trace, observer, pipes, timeouts, lostBeforeDone>>

-----------------------------------------------------------------------------
(* The tool *)

\* ready(), then HELLO or, when a precondition fails, ABORT.
toolReady ==
    /\ Alive /\ tool.at = 0 /\ toTool # <<>>
    /\ toTool' = Tail(toTool)
    /\ IF Head(toTool) = "READY"
       THEN \E word \in {"HELLO", "ABORT"} :
              /\ client' = [client EXCEPT !.queue = <<word>>]
              /\ tool' = [tool EXCEPT !.at = 1, !.asking = TRUE]
       ELSE client' = [client EXCEPT !.failure = TRUE] /\ tool' = [tool EXCEPT !.at = Len(Script) + 2]
    /\ UNCHANGED <<tracefs, trace, observer, toObserver, timeouts, lostBeforeDone>>

\* The tool acts for the phase it is in and asks for the next; HOST_EXIT waits
\* for the host.
toolAsks ==
    /\ Alive /\ tool.at \in 2..Len(Script) /\ ~tool.asking
    /\ Script[tool.at] = "HOST_EXIT" => tool.host = "ended"
    /\ client' = [client EXCEPT !.queue = Append(@, Script[tool.at])]
    /\ tool' = [tool EXCEPT !.asking = TRUE]
    /\ UNCHANGED <<tracefs, trace, observer, pipes, timeouts, lostBeforeDone>>

\* The sampler registers a container it sees while the host runs.
toolSees ==
    /\ Alive /\ tool.host = "running" /\ tool.containers < MaxContainers
    /\ client' = [client EXCEPT !.queue = Append(@, "CONTAINER")]
    /\ tool' = [tool EXCEPT !.containers = @ + 1]
    /\ UNCHANGED <<tracefs, trace, observer, pipes, timeouts, lostBeforeDone>>

hostEnds ==
    /\ Alive /\ tool.host = "running"
    /\ tool' = [tool EXCEPT !.host = "ended"]
    /\ UNCHANGED <<tracefs, trace, observer, pipes, client, timeouts, lostBeforeDone>>

\* STOPPED: the raw evidence is read and the observation written.
toolWrites ==
    /\ Alive /\ tool.at = Len(Script) + 1 /\ ~tool.wrote
    /\ tool' = [tool EXCEPT !.wrote = TRUE]
    /\ UNCHANGED <<tracefs, trace, observer, pipes, client, timeouts, lostBeforeDone>>

\* runScript sets an exit code; the process ends when nothing is left to wait
\* for, and the reader of its stdin waits for the observer's end of the pipe.
toolEnds ==
    /\ Alive /\ client.ended
    /\ tool.wrote \/ tool.at = Len(Script) + 2
    /\ tool' = [tool EXCEPT !.pid = "gone"]
    /\ UNCHANGED <<tracefs, trace, observer, pipes, client, timeouts, lostBeforeDone>>

\* The tool is killed from outside.
toolDies ==
    /\ Alive
    /\ tool' = [tool EXCEPT !.pid = "gone", !.host = IF @ = "running" THEN "ended" ELSE @]
    /\ UNCHANGED <<tracefs, trace, observer, pipes, client, timeouts, lostBeforeDone>>

Init ==
    /\ tracefs = [instances |-> {}, probes |-> {}, lost |-> FALSE]
    /\ trace = <<>> /\ toTool = <<>> /\ toObserver = <<>>
    /\ observer = NewObserver(1)
    /\ tool = NoTool /\ client = NoClient
    /\ timeouts = 0 /\ lostBeforeDone = FALSE

ObserverStep == precheck \/ open \/ start \/ beat \/ accept \/ toolExit \/ stop \/ close \/ exit
ClientStep == request \/ receive \/ streamEnds
ToolStep == toolReady \/ toolAsks \/ hostEnds \/ toolWrites \/ toolEnds
Faults == crash \/ again \/ loseEvent \/ timeout \/ toolDies \/ toolSees

Next == ObserverStep \/ ClientStep \/ ToolStep \/ Faults

Spec == Init /\ [][Next]_vars

-----------------------------------------------------------------------------
(* Properties *)

Marked(word) == word \in ToSet(trace)

\* "So its marker is in the trace before the tool acts"
\* (sp1-egress-attribution.ts:1937): no answer to another request, and none that
\* came too late, ever lets the tool go on.
ActsAreMarked ==
    /\ \A i \in 1..(Len(Script) - 1) :
         tool.at \in (i + 1)..(Len(Script) + 1) => Marked(Script[i])
    /\ tool.host = "running" /\ Alive => Marked("HOST_SPAWN") /\ ~Marked("HOST_EXIT")

\* The phases of the trace are the ones of the list up to the next one, each once and in
\* its order.
InPhaseOrder(next) ==
    /\ \A i \in DOMAIN PhaseNames : Marked(PhaseNames[i]) <=> i < next
    /\ \A i, j \in DOMAIN PhaseNames : \A p, q \in DOMAIN trace :
          trace[p] = PhaseNames[i] /\ trace[q] = PhaseNames[j] => (p < q <=> i < j)

\* An observation is only written of a session that served every phase in order,
\* stopped clean, lost nothing before the tool was done, and left nothing behind.
ObservationIsOfACleanRun ==
    tool.wrote =>
        /\ InPhaseOrder(Len(PhaseNames) + 1)
        /\ Marked("STOP_CLEAN") /\ Marked("TOOL_DONE_OK") /\ ~Marked("FAIL")
        /\ ~lostBeforeDone
        /\ observer.nonce \notin tracefs.instances \cup tracefs.probes

\* Once the tool has said DONE or is gone, the observer comes to its end.
StopsWhenToolIsDone == (observer.pc \in {"stopping", "closing", "waiting"}) ~> (observer.pc \in {"exited", "crashed"})

\* "Any loss stops the run" (sp1-egress-observer.ts:21).
LossStopsTheRun == (Running /\ tracefs.lost) ~> ~Running
=============================================================================
