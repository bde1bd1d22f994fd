-------------------------------- MODULE Viewer --------------------------------
(***************************************************************************)
(* The window of the desktop application: it polls the cluster (kubectl)   *)
(* and the directory (Valkey) behind the address in its settings, shows    *)
(* the last answer and logs what changed; one tick does not wait for the   *)
(* tick before it.  Beside that it diagnoses an address once, when the     *)
(* application starts and half a second after the address was edited.      *)
(*                                                                         *)
(* Abstractions.  Host and port are an address.  An archive is its key and *)
(* the number of its peers.  The memory report is Sampler's; here it is    *)
(* read and fails together with the ClassCaches.  The pods of a tick are   *)
(* left out: when their call fails the tick goes on with none.  Every call *)
(* ends, with an answer or an error.                                       *)
(***************************************************************************)
EXTENDS Integers, FiniteSetsExt

CONSTANTS
  Addr, FirstAddr,
  CC, Phase, NoPhase,   \* ClassCaches; NoPhase: there is no such ClassCache
  Key,
  Nobody, NoTick, NoDiag,
  MaxPeers,             \* of an archive
  Slot,                 \* ticks under way at one time
  MaxEvents             \* changes of the world and of the settings

Unlisted == -1
Archives == [Key -> {Unlisted} \union 0..MaxPeers]
ClassCaches == [CC -> Phase \union {NoPhase}]

ASSUME ViewerAssumption ==
  /\ FirstAddr \in Addr /\ Phase # {} /\ NoPhase \notin Phase
  /\ MaxPeers \in Nat /\ MaxEvents \in Nat
  /\ {"classcaches", "keys"} \intersect Key = {}
  /\ Nobody \notin [addr : Addr, demo : BOOLEAN]
  /\ NoTick \notin [alive : BOOLEAN, at : [addr : Addr, demo : BOOLEAN], ccs : ClassCaches,
                    archives : Archives, pending : SUBSET ({"classcaches", "keys"} \union Key)]
  /\ NoDiag \notin Addr

VARIABLES
  (* the world *)
  kubectl,   \* "none" without a context, else whether the API server answers
  phases,    \* of the ClassCaches
  up,        \* the addresses where a Valkey answers
  store,     \* the archives in it
  (* the state of the React component *)
  addr, demo,
  view,      \* ccs and archives as shown, and the settings they are from
  error,     \* is there an error banner?
  diag,      \* the address the diagnosis shown is about
  (* its effects *)
  polled,    \* the settings of the polling loop that is alive
  prev,      \* what that loop has reported: prevCCs and prevPeerCount
  ticks,     \* ticks that wait for answers
  timer,     \* is a diagnosis due?
  diags,     \* diagnoses under way
  (* bookkeeping *)
  log,       \* what the event log says last: a ClassCache's phase, the peers
  settled,   \* has a tick of the loop that is alive ended?
  raced,     \* was the address edited with a diagnosis under way?
  events

world == <<kubectl, phases, up, store>>
settings == <<addr, demo>>
shown == <<view, error, prev, log, settled>>
diagnosis == <<diag, timer, diags, raced>>
vars == <<world, settings, shown, diagnosis, polled, ticks, events>>

Settings == [addr : Addr, demo : BOOLEAN]
NoPrev == [ccs |-> [c \in CC |-> NoPhase], peers |-> 0]

Init ==
  /\ kubectl \in {"none", "up"}
  /\ phases = NoPrev.ccs
  /\ up \in SUBSET Addr
  /\ store = [a \in Addr |-> [k \in Key |-> Unlisted]]
  /\ addr = FirstAddr /\ demo = FALSE
  /\ view = [from |-> Nobody, ccs |-> NoPrev.ccs, archives |-> [k \in Key |-> Unlisted]]
  /\ error = FALSE /\ diag = NoDiag
  /\ polled = [addr |-> FirstAddr, demo |-> FALSE]
  /\ prev = NoPrev
  /\ ticks = [s \in Slot |-> NoTick]
  /\ timer = FALSE
  /\ diags = {[mount |-> TRUE, addr |-> FirstAddr, asked |-> FALSE, valkey |-> FALSE]}
  /\ log = NoPrev
  /\ settled = FALSE /\ raced = FALSE /\ events = 0

Event == events < MaxEvents /\ events' = events + 1
-----------------------------------------------------------------------------
(* The answers of the backend.                                             *)

Listed(a) == {k \in Key : store[a][k] # Unlisted}

PeersWithBlank(a, k) ==   \* mutant: the last line of the output is empty
  IF store[a][k] = Unlisted THEN 1 ELSE store[a][k] + 1

Peers(a, k) == IF store[a][k] = Unlisted THEN 0 ELSE store[a][k]

PeerSum(archives) ==
  MapThenSumSet(LAMBDA k : archives[k], {k \in Key : archives[k] # Unlisted})

(* Synthetic data; of all phases and numbers of peers, some.               *)
DemoAnswer ==
  [ccs |-> [c \in CC |-> CHOOSE p \in Phase : TRUE], archives |-> [k \in Key |-> MaxPeers]]
-----------------------------------------------------------------------------
(* The end of a tick.                                                      *)

RememberFirst(answer) ==   \* mutant: prevCCs only gains entries
  [ccs |-> [c \in CC |-> IF prev.ccs[c] = NoPhase THEN answer.ccs[c] ELSE prev.ccs[c]],
   peers |-> PeerSum(answer.archives)]

Remembered(answer) == [ccs |-> answer.ccs, peers |-> PeerSum(answer.archives)]

(* A new ClassCache is logged without its phase, one that is gone is not   *)
(* logged.                                                                 *)
Logged(answer) ==
  [ccs |-> [c \in CC |->
      IF answer.ccs[c] \in {NoPhase, prev.ccs[c]} THEN log.ccs[c]
      ELSE IF prev.ccs[c] = NoPhase THEN NoPhase ELSE answer.ccs[c]],
   peers |-> IF PeerSum(answer.archives) # prev.peers THEN PeerSum(answer.archives) ELSE log.peers]

ShowKeepingError(at, answer) ==   \* mutant: no setError(null)
  /\ log' = Logged(answer)
  /\ prev' = Remembered(answer)
  /\ view' = [from |-> at, ccs |-> answer.ccs, archives |-> answer.archives]
  /\ settled' = TRUE /\ UNCHANGED error

Show(at, answer) ==
  /\ log' = Logged(answer)
  /\ prev' = Remembered(answer)
  /\ view' = [from |-> at, ccs |-> answer.ccs, archives |-> answer.archives]
  /\ error' = FALSE /\ settled' = TRUE
-----------------------------------------------------------------------------
(* The polling loop.                                                       *)

DemoTick ==
  /\ polled.demo
  /\ Show(polled, DemoAnswer)
  /\ UNCHANGED <<world, settings, diagnosis, polled, ticks, events>>

NewTick ==
  [alive |-> TRUE, at |-> polled, ccs |-> NoPrev.ccs,
   archives |-> [k \in Key |-> Unlisted], pending |-> {"classcaches", "keys"}]

TickClearing(s) ==   \* mutant: a tick begins with setError(null)
  /\ ~polled.demo /\ ticks[s] = NoTick
  /\ ticks' = [ticks EXCEPT ![s] = NewTick]
  /\ error' = FALSE
  /\ UNCHANGED <<world, settings, view, prev, log, settled, diagnosis, polled, events>>

Tick(s) ==
  /\ ~polled.demo /\ ticks[s] = NoTick
  /\ ticks' = [ticks EXCEPT ![s] = NewTick]
  /\ UNCHANGED <<world, settings, shown, diagnosis, polled, events>>

Waits(s, call) == ticks[s] # NoTick /\ call \in ticks[s].pending

ListClassCaches(s) ==
  /\ Waits(s, "classcaches") /\ kubectl = "up"
  /\ ticks' = [ticks EXCEPT ![s].ccs = phases, ![s].pending = @ \ {"classcaches"}]
  /\ UNCHANGED <<world, settings, shown, diagnosis, polled, events>>

ListKeys(s) ==
  /\ Waits(s, "keys") /\ ticks[s].at.addr \in up
  /\ LET found == Listed(ticks[s].at.addr) IN
       ticks' = [ticks EXCEPT
         ![s].archives = [k \in Key |-> IF k \in found THEN 0 ELSE Unlisted],
         ![s].pending = (@ \ {"keys"}) \union found]
  /\ UNCHANGED <<world, settings, shown, diagnosis, polled, events>>

(* An archive whose peers cannot be read is listed without any.            *)
ListPeers(s, k) ==
  /\ Waits(s, k)
  /\ LET a == ticks[s].at.addr IN
       ticks' = [ticks EXCEPT
         ![s].archives[k] = IF a \in up THEN Peers(a, k) ELSE 0,
         ![s].pending = @ \ {k}]
  /\ UNCHANGED <<world, settings, shown, diagnosis, polled, events>>

(* The first call to fail ends the tick.                                   *)
Fails(s) ==
  /\ \/ Waits(s, "classcaches") /\ kubectl # "up"
     \/ Waits(s, "keys") /\ ticks[s].at.addr \notin up
  /\ ticks' = [ticks EXCEPT ![s] = NoTick]
  /\ IF ticks[s].alive
     THEN error' = TRUE /\ settled' = TRUE
     ELSE UNCHANGED <<error, settled>>
  /\ UNCHANGED <<world, settings, view, prev, log, diagnosis, polled, events>>

Answered(s) ==
  /\ ticks[s] # NoTick /\ ticks[s].pending = {}
  /\ ticks' = [ticks EXCEPT ![s] = NoTick]
  /\ IF ticks[s].alive THEN Show(ticks[s].at, ticks[s]) ELSE UNCHANGED shown
  /\ UNCHANGED <<world, settings, diagnosis, polled, events>>

EffectsKeepTicks(a, d) ==   \* mutant: the cleanup only clears the interval
  /\ polled' = [addr |-> a, demo |-> d]
  /\ prev' = NoPrev /\ settled' = FALSE
  /\ UNCHANGED <<view, error, log, ticks>>

(* The old loop dies, the next one begins with nothing reported.           *)
Effects(a, d) ==
  /\ polled' = [addr |-> a, demo |-> d]
  /\ prev' = NoPrev /\ settled' = FALSE
  /\ ticks' = [s \in Slot |->
       IF ticks[s] = NoTick THEN NoTick ELSE [ticks[s] EXCEPT !.alive = FALSE]]
  /\ UNCHANGED <<view, error, log>>

(* React runs the effects of a click or a keystroke with it, those of a    *)
(* promise's setState some time after.                                     *)
Rerun ==
  /\ polled # [addr |-> addr, demo |-> demo]
  /\ Effects(addr, demo)
  /\ UNCHANGED <<world, settings, diagnosis, events>>
-----------------------------------------------------------------------------
(* Diagnoses.                                                              *)

AsksDiag(a) == [mount |-> FALSE, addr |-> a, asked |-> FALSE, valkey |-> FALSE]

DiagnoseDue ==
  /\ timer /\ timer' = FALSE
  /\ diags' = diags \union {AsksDiag(addr)}
  /\ UNCHANGED <<world, settings, shown, diag, raced, polled, ticks, events>>

Diagnose(d) ==
  /\ d \in diags /\ ~d.asked
  /\ diags' = (diags \ {d}) \union {[d EXCEPT !.asked = TRUE, !.valkey = d.addr \in up]}
  /\ UNCHANGED <<world, settings, shown, diag, timer, raced, polled, ticks, events>>

(* Only the first diagnosis enters demo mode.                              *)
Diagnosed(d) ==
  /\ d \in diags /\ d.asked
  /\ diags' = diags \ {d}
  /\ diag' = d.addr
  /\ demo' = (demo \/ (d.mount /\ kubectl = "none" /\ ~d.valkey))
  /\ UNCHANGED <<world, addr, shown, timer, raced, polled, ticks, events>>
-----------------------------------------------------------------------------
(* The user.                                                               *)

EditForgetting(a) ==   \* mutant: the timer is cleared and not set again
  /\ a # addr /\ Event
  /\ addr' = a
  /\ Effects(a, demo)
  /\ timer' = FALSE
  /\ raced' = (raced \/ diags # {})
  /\ UNCHANGED <<world, demo, diag, diags>>

EditAddr(a) ==
  /\ a # addr /\ Event
  /\ addr' = a
  /\ Effects(a, demo)
  /\ timer' = TRUE
  /\ raced' = (raced \/ diags # {})
  /\ UNCHANGED <<world, demo, diag, diags>>

SetDemoMode ==
  /\ Event
  /\ demo' = ~demo
  /\ Effects(addr, ~demo)
  /\ UNCHANGED <<world, addr, diagnosis>>
-----------------------------------------------------------------------------
(* The world.                                                              *)

KubectlMoves ==
  /\ kubectl # "none" /\ Event
  /\ kubectl' = IF kubectl = "up" THEN "down" ELSE "up"
  /\ UNCHANGED <<phases, up, store, settings, shown, diagnosis, polled, ticks>>

PhaseMoves(c) ==
  /\ kubectl # "none" /\ Event
  /\ \E p \in (Phase \union {NoPhase}) \ {phases[c]} : phases' = [phases EXCEPT ![c] = p]
  /\ UNCHANGED <<kubectl, up, store, settings, shown, diagnosis, polled, ticks>>

ValkeyMoves(a) ==
  /\ Event
  /\ up' = IF a \in up THEN up \ {a} ELSE up \union {a}
  /\ UNCHANGED <<kubectl, phases, store, settings, shown, diagnosis, polled, ticks>>

StoreMoves(a, k) ==
  /\ a \in up /\ Event
  /\ \E n \in ({Unlisted} \union 0..MaxPeers) \ {store[a][k]} : store' = [store EXCEPT ![a][k] = n]
  /\ UNCHANGED <<kubectl, phases, up, settings, shown, diagnosis, polled, ticks>>
-----------------------------------------------------------------------------
Polling(s) ==
  \/ ListClassCaches(s) \/ ListKeys(s) \/ Fails(s) \/ Answered(s)
  \/ \E k \in Key : ListPeers(s, k)

Diagnosing == DiagnoseDue \/ \E d \in diags : Diagnose(d) \/ Diagnosed(d)

User == SetDemoMode \/ \E a \in Addr : EditAddr(a)

World ==
  \/ KubectlMoves
  \/ \E c \in CC : PhaseMoves(c)
  \/ \E a \in Addr : ValkeyMoves(a) \/ \E k \in Key : StoreMoves(a, k)

Next ==
  \/ DemoTick \/ Rerun \/ Diagnosing \/ User \/ World
  \/ \E s \in Slot : Tick(s) \/ Polling(s)

Spec == Init /\ [][Next]_vars

(* The interval fires, every call ends, React runs its effects.            *)
FairSpec ==
  /\ Spec
  /\ WF_vars(DemoTick) /\ WF_vars(Rerun) /\ WF_vars(Diagnosing)
  /\ WF_vars(\E s \in Slot : Tick(s))
  /\ \A s \in Slot : WF_vars(Polling(s))
-----------------------------------------------------------------------------
TickType ==
  [alive : BOOLEAN, at : Settings, ccs : ClassCaches, archives : Archives,
   pending : SUBSET ({"classcaches", "keys"} \union Key)]
Counts == {0} \union {PeerSum(x) : x \in Archives}
Reports == [ccs : ClassCaches, peers : Counts]

(* The types; a number of peers shown is one an archive can have.          *)
TypeOK ==
  /\ kubectl \in {"none", "down", "up"} /\ phases \in ClassCaches
  /\ up \subseteq Addr /\ store \in [Addr -> Archives]
  /\ addr \in Addr /\ demo \in BOOLEAN
  /\ view \in [from : Settings \union {Nobody}, ccs : ClassCaches, archives : Archives]
  /\ error \in BOOLEAN /\ diag \in Addr \union {NoDiag}
  /\ polled \in Settings /\ prev \in Reports
  /\ ticks \in [Slot -> TickType \union {NoTick}]
  /\ timer \in BOOLEAN /\ raced \in BOOLEAN /\ settled \in BOOLEAN
  /\ diags \subseteq [mount : BOOLEAN, addr : Addr, asked : BOOLEAN, valkey : BOOLEAN]
  /\ log \in Reports /\ events \in 0..MaxEvents

(* Once the data of the present address and mode are shown, no late answer *)
(* for another address, or of the live cluster in demo mode, replaces them *)
(* (the cleanup of the polling effect, App.tsx).                           *)
StaysWithSettings ==
  [][view.from = polled /\ polled' = polled => view'.from = polled]_vars

(* Data of former settings are never passed off as present: as soon as a   *)
(* tick of the loop that is alive has ended, either the view is its own or *)
(* the error banner is up, however ticks overlap (tick, App.tsx).          *)
OldDataIsFlagged == settled => view.from = polled \/ error

(* The log never contradicts the view: the phase and the peer count it     *)
(* reported last are those shown, over overlapping ticks, failures and     *)
(* changes of the settings.  A count of zero is exempt: after a change of  *)
(* the settings the loop takes it for reported (prevPeerCount, App.tsx).   *)
LogMatchesView ==
  /\ \A c \in CC : {view.ccs[c], log.ccs[c]} \subseteq Phase => log.ccs[c] = view.ccs[c]
  /\ view.from # Nobody /\ PeerSum(view.archives) # 0 => log.peers = PeerSum(view.archives)

ShowsTruth ==
  /\ view.from = polled /\ polled = [addr |-> addr, demo |-> demo]
  /\ demo \/ (view.ccs = phases /\ view.archives = store[addr])
  /\ ~error

(* When the world and the settings come to rest, so does the window: with  *)
(* what is there, or with the error if some of it cannot be read.  Old     *)
(* answers still overwrite newer ones, but not for ever (App.tsx).         *)
SettlesOnTruth ==
  <>[](IF demo \/ (kubectl = "up" /\ addr \in up) THEN ShowsTruth ELSE error)

(* Nothing of a live tick is older than the world and the settings are.    *)
Truthful(t) ==
  /\ "classcaches" \in t.pending \/ t.ccs = phases
  /\ \/ "keys" \in t.pending
     \/ \A k \in Key : IF k \in t.pending THEN k \in Listed(addr)
                                         ELSE t.archives[k] = store[addr][k]
UpToDate ==
  /\ polled = [addr |-> addr, demo |-> demo]
  /\ ~demo /\ kubectl = "up" /\ addr \in up
  /\ \A s \in Slot : ticks[s] # NoTick /\ ticks[s].alive => Truthful(ticks[s])

(* What that comes to, step by step: from the moment on that the last old  *)
(* answer is in, and as long as nothing changes, every answer is the       *)
(* truth, whoever is first, and nothing takes it away (App.tsx).           *)
TruthStays ==
  [][UpToDate /\ UNCHANGED <<world, settings>> =>
       UpToDate' /\ (ShowsTruth \/ view' # view => ShowsTruth')]_vars

(* The diagnosis shown ends up being of the address in the settings, which *)
(* it is printed next to, unless the address was edited while a diagnosis  *)
(* was under way: the answers may then come in the other order.            *)
StripSettles == <>[](raced \/ diag = addr)

=============================================================================
