------------------------------- MODULE Ownership -------------------------------
(***************************************************************************)
(* Who is the active process of a service: HandoverManager (uns/handover-  *)
(* manager.ts) without a reviewed state, that is its start-up timer, the   *)
(* heartbeats of StatusMonitor, the three instance modes and the first     *)
(* handover protocol.  Handover.tla has the second protocol.               *)
(*                                                                         *)
(* All processes run one version of the service and so share the topics:   *)
(* what one publishes reaches all others.  Time passes in ticks of five    *)
(* seconds: a message is delivered, or lost, within its tick, in any order *)
(* with all else that happens in it.  An activation takes any time.        *)
(***************************************************************************)
EXTENDS Naturals, FiniteSets

CONSTANTS
    Procs,
    Modes,        \* instance modes a process may be started in
    None,
    MaxCrashes,   \* bound: processes that disappear
    MaxLosses,    \* bound: lost handover messages
    MaxFailures,  \* bound: activations that fail
    MaxActivations \* bound: activations of one process at the same time

ASSUME OwnershipAssumption ==
    /\ Modes \subseteq {"wait", "handover", "force"} /\ Modes # {}
    /\ None \notin Procs
    /\ MaxCrashes \in Nat /\ MaxLosses \in Nat /\ MaxFailures \in Nat
    /\ MaxActivations \in Nat

HeartbeatInterval == 2     \* MQTT_UPDATE_INTERVAL, 10 s

\* Fault: the time-out is shorter than the interval of the heartbeats.
ActiveTimeoutShort == 1

ActiveTimeout == 5         \* ACTIVE_TIMEOUT, 25 s
RequestDelay == 2          \* from the first fresh heartbeat to the request, 10 s
StatusExpiry == 6          \* ACTIVE_STATUS_EXPIRY_SECONDS, 30 s

Fired == ActiveTimeout + 1     \* activeTimeout has fired
Cleared == ActiveTimeout + 2   \* activeTimeout is undefined
Idle == RequestDelay + 1       \* no delayed request

VARIABLES
    st,          \* "off" | "up" | "gone"
    mode,
    active,
    timer,       \* ticks until activeTimeout fires, or Fired, or Cleared
    activating,  \* calls of activateApplication() that have not returned
    requesting,  \* requestingHandover
    delay,       \* ticks until the delayed request is sent, or Idle
    peer,        \* sourcePeerId: to whom a process releases ownership
    input,       \* its subscribers: "closed", "open", or "stopped" for good
    beat,        \* ticks until the next heartbeat
    beats,       \* heartbeats on their way: from, to, retained
    retained,    \* who sent the retained active status, and its remaining ticks
    msgs,        \* handover messages on their way
    since,       \* history: ticks a process has been active
    contended,   \* history: two candidates were passive together, or one forced
    faults       \* crashes, losses, failures so far

ownershipVars ==
    <<st, mode, active, timer, activating, requesting, delay, peer, input, beat, beats,
      retained, msgs, since, contended, faults>>

UpProcs == {p \in Procs : st[p] = "up"}

OwnershipTypeOK ==
    /\ st \in [Procs -> {"off", "up", "gone"}] /\ mode \in [Procs -> Modes]
    /\ active \in [Procs -> BOOLEAN] /\ requesting \in [Procs -> BOOLEAN]
    /\ input \in [Procs -> {"closed", "open", "stopped"}] /\ contended \in BOOLEAN
    /\ timer \in [Procs -> 0..Cleared] /\ delay \in [Procs -> 0..Idle]
    /\ activating \in [Procs -> 0..MaxActivations] /\ beat \in [Procs -> 0..HeartbeatInterval]
    /\ peer \in [Procs -> Procs \cup {None}]
    /\ beats \subseteq (Procs \X Procs \X BOOLEAN)
    /\ retained \in [from : Procs \cup {None}, ttl : 0..StatusExpiry]
    /\ msgs \subseteq [type : {"request", "subscriber", "fin", "ack"}, from : Procs, to : Procs]
    /\ since \in [Procs -> 0..(HeartbeatInterval + 1)]

OwnershipInit ==
    /\ st = [p \in Procs |-> "off"] /\ mode \in [Procs -> Modes]
    /\ active = [p \in Procs |-> FALSE] /\ requesting = [p \in Procs |-> FALSE]
    /\ input = [p \in Procs |-> "closed"]
    /\ timer = [p \in Procs |-> Cleared] /\ delay = [p \in Procs |-> Idle]
    /\ activating = [p \in Procs |-> 0]
    /\ beat = [p \in Procs |-> HeartbeatInterval]
    /\ peer = [p \in Procs |-> None]
    /\ beats = {} /\ retained = [from |-> None, ttl |-> 0] /\ msgs = {}
    /\ since = [p \in Procs |-> 0]
    /\ contended = FALSE
    /\ faults = [crash |-> 0, loss |-> 0, failure |-> 0]

\* To every other process: they share the handover topic.
Published(type, p) ==
    {[type |-> type, from |-> p, to |-> q] : q \in UpProcs \ {p}}

-----------------------------------------------------------------------------
(* Time.                                                                   *)

Down(n, last) == IF n > 0 /\ n <= last THEN n - 1 ELSE n

\* Nothing that is due in this tick may be left for the next one.
Tick ==
    /\ beats = {} /\ msgs = {}
    /\ \A p \in UpProcs : timer[p] # 0 /\ delay[p] # 0 /\ beat[p] # 0
    /\ timer' = [p \in Procs |-> Down(timer[p], ActiveTimeout)]
    /\ delay' = [p \in Procs |-> Down(delay[p], RequestDelay)]
    /\ beat' = [p \in Procs |-> IF p \in UpProcs THEN beat[p] - 1 ELSE beat[p]]
    /\ retained' = IF retained.ttl > 1 THEN [retained EXCEPT !.ttl = @ - 1]
                   ELSE [from |-> None, ttl |-> 0]
    /\ since' = [p \in Procs |-> IF active[p] /\ since[p] <= HeartbeatInterval
                                 THEN since[p] + 1 ELSE since[p]]
    /\ UNCHANGED <<st, mode, active, activating, requesting, peer, input, beats,
                   msgs, contended, faults>>

-----------------------------------------------------------------------------
(* A process starts, publishes its status, and may disappear.              *)

\* The manager is created; its subscription brings the retained status.
Begin(p) ==
    /\ st[p] = "off"
    /\ st' = [st EXCEPT ![p] = "up"]
    /\ timer' = [timer EXCEPT ![p] = ActiveTimeout]
    /\ beats' = IF retained.from = None THEN beats
                ELSE beats \cup {<<retained.from, p, TRUE>>}
    /\ UNCHANGED <<mode, active, activating, requesting, delay, peer, input, beat,
                   retained, msgs, since, faults>>

\* publishStatusUpdates(): retained, and fresh to those that are subscribed.
Heartbeat(p) ==
    /\ p \in UpProcs /\ beat[p] = 0
    /\ beat' = [beat EXCEPT ![p] = HeartbeatInterval]
    /\ IF active[p]
       THEN /\ beats' = beats \cup {<<p, q, FALSE>> : q \in UpProcs \ {p}}
            /\ retained' = [from |-> p, ttl |-> StatusExpiry]
       ELSE beats' = beats /\ retained' = [from |-> None, ttl |-> 0]
    /\ UNCHANGED <<st, mode, active, timer, activating, requesting, delay, peer,
                   input, msgs, since, faults>>

Gone(p) ==
    /\ st' = [st EXCEPT ![p] = "gone"]
    /\ active' = [active EXCEPT ![p] = FALSE]
    /\ input' = [input EXCEPT ![p] = "closed"]
    /\ activating' = [activating EXCEPT ![p] = 0]
    /\ timer' = [timer EXCEPT ![p] = Cleared]
    /\ delay' = [delay EXCEPT ![p] = Idle]
    /\ requesting' = [requesting EXCEPT ![p] = FALSE]
    /\ peer' = [peer EXCEPT ![p] = None]
    /\ beat' = [beat EXCEPT ![p] = HeartbeatInterval]
    /\ since' = [since EXCEPT ![p] = 0]
    /\ beats' = {b \in beats : b[2] # p}
    /\ msgs' = {m \in msgs : m.to # p}

Crash(p) ==
    /\ p \in UpProcs /\ faults.crash < MaxCrashes
    /\ faults' = [faults EXCEPT !.crash = @ + 1]
    /\ Gone(p)
    /\ UNCHANGED <<mode, retained>>

-----------------------------------------------------------------------------
(* Promotion.                                                              *)

\* activeTimeout fires: publishers open, the application is activated.
TimerFires(p) ==
    /\ p \in UpProcs /\ timer[p] = 0 /\ activating[p] < MaxActivations
    /\ timer' = [timer EXCEPT ![p] = Fired]
    /\ activating' = [activating EXCEPT ![p] = @ + 1]
    /\ UNCHANGED <<st, mode, active, requesting, delay, peer, input, beat, beats,
                   retained, msgs, since, faults>>

Become(p) ==
    /\ active' = [active EXCEPT ![p] = TRUE]
    /\ input' = [input EXCEPT ![p] = IF @ = "stopped" THEN @ ELSE "open"]
    /\ since' = [since EXCEPT ![p] = IF active[p] THEN @ ELSE 0]

\* activateApplication() returns: the process is active, input opens last.
Activated(p) ==
    /\ activating[p] > 0
    /\ activating' = [activating EXCEPT ![p] = @ - 1]
    /\ Become(p)
    /\ UNCHANGED <<st, mode, timer, requesting, delay, peer, beat, beats, retained,
                   msgs, faults>>

\* activateApplication() throws after deactivateApplication().
ActivationFails(p) ==
    /\ activating[p] > 0 /\ faults.failure < MaxFailures
    /\ faults' = [faults EXCEPT !.failure = @ + 1]
    /\ activating' = [activating EXCEPT ![p] = @ - 1]
    /\ active' = [active EXCEPT ![p] = FALSE]
    /\ input' = [input EXCEPT ![p] = IF @ = "stopped" THEN @ ELSE "closed"]
    /\ UNCHANGED <<st, mode, timer, requesting, delay, peer, beat, beats, retained,
                   msgs, since>>

-----------------------------------------------------------------------------
(* handleMqttMessage(): the active status of another process.              *)

\* Fault: the timer is cleared, as before a request.
ClearedTimer(p) == [timer EXCEPT ![p] = Cleared]

\* activeTimeout?.refresh(), which arms a timer that has fired once more.
Refreshed(p) == [timer EXCEPT ![p] = IF @ = Cleared THEN @ ELSE ActiveTimeout]

\* handoverInProgress is set by a request, sent or accepted.
Listens(p) == ~requesting[p] /\ ~active[p] /\ peer[p] = None

IsFresh(b) == ~b[3]

HearHeartbeat(b) ==
    LET p == b[2] IN
    /\ beats' = beats \ {b}
    /\ \/ /\ ~Listens(p)
          /\ UNCHANGED <<timer, requesting, delay, activating>>
       \/ /\ Listens(p) /\ (~IsFresh(b) \/ mode[p] = "wait")
          /\ timer' = Refreshed(p)
          /\ UNCHANGED <<requesting, delay, activating>>
       \/ /\ Listens(p) /\ IsFresh(b) /\ mode[p] = "handover"
          /\ timer' = [timer EXCEPT ![p] = Cleared]
          /\ requesting' = [requesting EXCEPT ![p] = TRUE]
          /\ delay' = [delay EXCEPT ![p] = RequestDelay]
          /\ UNCHANGED activating
       \/ /\ Listens(p) /\ IsFresh(b) /\ mode[p] = "force"
          /\ activating[p] < MaxActivations
          /\ timer' = [timer EXCEPT ![p] = Cleared]
          /\ activating' = [activating EXCEPT ![p] = @ + 1]
          /\ UNCHANGED <<requesting, delay>>
    /\ UNCHANGED <<st, mode, active, peer, input, beat, retained, msgs, since, faults>>

SendRequest(p) ==
    /\ p \in UpProcs /\ delay[p] = 0
    /\ delay' = [delay EXCEPT ![p] = Idle]
    /\ msgs' = msgs \cup Published("request", p)
    /\ UNCHANGED <<st, mode, active, timer, activating, requesting, peer, input,
                   beat, beats, retained, since, faults>>

-----------------------------------------------------------------------------
(* handleHandover(), first protocol.                                       *)

MayRelease(p) == active[p] /\ peer[p] = None

\* Fault: the source counts as active until it exits.
StillActive(p) == active

Relinquished(p) == [active EXCEPT ![p] = FALSE]

\* handover_request: ownership is released at once, the subscribers drain next.
AcceptRequest(m) ==
    LET p == m.to IN
    /\ m.type = "request"
    /\ msgs' = msgs \ {m}
    /\ IF MayRelease(p)
       THEN /\ active' = Relinquished(p)
            /\ peer' = [peer EXCEPT ![p] = m.from]
            /\ timer' = [timer EXCEPT ![p] = Cleared]
       ELSE UNCHANGED <<active, peer, timer>>
    /\ UNCHANGED <<st, mode, activating, requesting, delay, input, beat, beats,
                   retained, since, faults>>

\* The subscribers are passive and drained: cursors, the fin, and all proxies stop.
Release(p) ==
    /\ p \in UpProcs /\ peer[p] # None /\ input[p] # "stopped"
    /\ input' = [input EXCEPT ![p] = "stopped"]
    /\ \E types \in {{"fin"}, {"subscriber", "fin"}} :
         msgs' = msgs \cup UNION {Published(t, p) : t \in types}
    /\ UNCHANGED <<st, mode, active, timer, activating, requesting, delay, peer, beat,
                   beats, retained, since, faults>>

\* handover_subscriber: the subscriber it names starts behind its cursor.
AcceptSubscriber(m) ==
    /\ m.type = "subscriber"
    /\ msgs' = msgs \ {m}
    /\ input' = [input EXCEPT ![m.to] = IF peer[m.to] = None THEN "open" ELSE @]
    /\ UNCHANGED <<st, mode, active, timer, activating, requesting, delay, peer, beat,
                   beats, retained, since, faults>>

AcceptFin(m) ==
    LET p == m.to IN
    /\ m.type = "fin"
    /\ \/ /\ peer[p] # None
          /\ msgs' = msgs \ {m}
          /\ UNCHANGED <<active, input, since>>
       \/ /\ peer[p] = None
          /\ Become(p)
          /\ msgs' = (msgs \ {m}) \cup Published("ack", p)
    /\ UNCHANGED <<st, mode, timer, activating, requesting, delay, peer, beat, beats,
                   retained, faults>>

\* finishSourceHandover(): the source drains and exits.
AcceptAck(m) ==
    LET p == m.to IN
    /\ m.type = "ack"
    /\ \/ /\ peer[p] # m.from
          /\ msgs' = msgs \ {m}
          /\ UNCHANGED <<st, active, input, activating, timer, requesting, delay,
                         peer, beat, beats, since>>
       \/ /\ peer[p] = m.from /\ input[p] = "stopped"
          /\ Gone(p)
    /\ UNCHANGED <<mode, retained, faults>>

Lose(m) ==
    /\ faults.loss < MaxLosses
    /\ faults' = [faults EXCEPT !.loss = @ + 1]
    /\ msgs' = msgs \ {m}
    /\ UNCHANGED <<st, mode, active, timer, activating, requesting, delay, peer,
                   input, beat, beats, retained, since>>

-----------------------------------------------------------------------------
\* Passive, and not releasing to a process that is there.  A source whose peer has
\* died is one until its drain ends: its input is still open, but it is silent.
Unowned(p) ==
    /\ p \in UpProcs /\ ~active[p]
    /\ peer[p] # None => peer[p] \notin UpProcs /\ input[p] # "stopped"

\* Two of them at a time, or one that takes by force.
Contention ==
    \/ \E p, q \in Procs : p # q /\ Unowned(p) /\ Unowned(q)
    \/ \E p \in UpProcs : mode[p] = "force" /\ activating[p] > 0 /\ timer[p] = Cleared

Deliver(m) == AcceptRequest(m) \/ AcceptSubscriber(m) \/ AcceptFin(m) \/ AcceptAck(m)

\* Every step but Tick also keeps the history of contention.
Noted(A) == A /\ contended' = (contended \/ Contention')

OwnershipNext ==
    \/ \E p \in Procs :
         Noted(Begin(p) \/ Heartbeat(p) \/ Crash(p) \/ TimerFires(p) \/ Activated(p)
               \/ ActivationFails(p) \/ SendRequest(p) \/ Release(p))
    \/ \E b \in beats : Noted(HearHeartbeat(b))
    \/ \E m \in msgs : Noted(Deliver(m) \/ Lose(m))
    \/ Tick

OwnershipSpec == OwnershipInit /\ [][OwnershipNext]_ownershipVars

\* Timers fire, heartbeats arrive, the hooks of the application return.
OwnershipFairness ==
    /\ WF_ownershipVars(Tick)
    /\ \A p \in Procs : /\ WF_ownershipVars(Noted(Heartbeat(p)))
                        /\ WF_ownershipVars(Noted(TimerFires(p)))
                        /\ WF_ownershipVars(Noted(Activated(p)))
                        /\ WF_ownershipVars(Noted(SendRequest(p)))
    /\ WF_ownershipVars(\E b \in beats : Noted(HearHeartbeat(b)))

-----------------------------------------------------------------------------
(* Properties.                                                             *)

\* process-config.ts gives a process that has just subscribed time to receive a
\* complete heartbeat interval: a passive process does not promote itself over one
\* that has been active for longer than that, whatever retained status it found.
PromotionHeard ==
    [][\A p \in Procs : ~active[p] /\ timer[p] = 0 /\ timer'[p] = Fired =>
         \A q \in Procs \ {p} : active[q] => since[q] <= HeartbeatInterval]_ownershipVars

\* Unless two processes were without an owner at the same time or one was forced
\* (Contention), there is one owner at most, and one that takes input, through
\* promotion, handover, crash and late messages.
SingleOwner ==
    contended \/ \A p, q \in Procs :
        p # q => ~(active[p] /\ active[q]) /\ ~(input[p] = "open" /\ input[q] = "open")

\* A process that waits for its predecessor takes over once nobody is active,
\* also behind the retained status of a process that has crashed.
WaitingTakesOver ==
    \A p \in Procs : mode[p] = "wait" /\ st[p] = "up" ~>
        \/ st[p] # "up" \/ faults.failure > 0
        \/ \E q \in UpProcs : active[q] \/ peer[q] # None
=============================================================================
